------------------------- MODULE TapeCaptureProofs -------------------------
(***************************************************************************)
(* Theorems about TapeCapture, for every ring, packet, tape, budget and     *)
(* set of timers the assumptions allow.  The inductive invariant is the     *)
(* conjunction of the parts below; each part is kept by every step given    *)
(* the parts before it.                                                     *)
(*                                                                         *)
(* The second half is about the stream: what the host got, what is on its   *)
(* way and what was encoded.  It begins with induction on the length of a   *)
(* sequence, which gives the laws of Kept.                                  *)
(***************************************************************************)
EXTENDS TapeCapture, SequenceTheorems, WellFoundedInduction, TLAPS

\* The only read this model runs is a capture.
ReadIsCapture == floppyState = "read_flux" => active

Owns == CaptureOwnsTape /\ ReadIsCapture

-----------------------------------------------------------------------------
(* What the helpers on the ring and the packets return. *)

\* Each constructor of a token builds a token.
LEMMA TokenTypes ==
  /\ \A k \in Marks : Mark(k) \in Token
  /\ \A n \in Nat \ {0} : Flux(n) \in Token
  /\ \A n \in Nat, why \in Reasons : EndMark(n, why) \in Token
BY DEF Mark, Flux, EndMark, Token, Marks

\* An empty buffer.
LEMMA EmptyType == <<>> \in Seq(Token) /\ Len(<<>>) = 0
OBVIOUS

\* A packet of one unit.
LEMMA SingleType ==
  \A t \in Token : <<t>> \in Seq(Token) /\ Len(<<t>>) = 1
OBVIOUS

\* rdata_encode_flux() writes tokens.
LEMMA EncodedType ==
  ASSUME fluxCount \in Nat, pendFlux \in Nat, NEW filler
  PROVE  Encoded(filler) \in Seq(Token)
<1> DEFINE start == IF needStart THEN <<Mark("start")>> ELSE <<>>
           index == IF pendIndex THEN <<Mark("segment")>> ELSE <<>>
           flux  == [i \in 1 .. pendFlux |-> Flux(fluxCount + i)]
           gap   == IF filler THEN <<Mark("gap")>> ELSE <<>>
<1>1. /\ start \in Seq(Token)
      /\ index \in Seq(Token)
      /\ gap \in Seq(Token)
  <2>1. Mark("start") \in Token /\ Mark("segment") \in Token /\ Mark("gap") \in Token
    BY TokenTypes DEF Marks
  <2> QED BY <2>1
<1>2. flux \in Seq(Token)
  <2>1. \A i \in 1 .. pendFlux : Flux(fluxCount + i) \in Token
    BY TokenTypes
  <2> QED BY <2>1, IsASeq
<1> HIDE DEF start, index, flux, gap
<1>3. ((start \o index) \o flux) \o gap \in Seq(Token)
  BY <1>1, <1>2, ConcatProperties
<1> QED BY <1>3 DEF Encoded, start, index, flux, gap

\* Put adds one unit, past the capacity too.
LEMMA PutType ==
  ASSUME NEW r \in Seq(Token), NEW x \in Token
  PROVE  Put(r, x) \in Seq(Token) /\ Len(Put(r, x)) = Len(r) + 1
<1>1. CASE Len(r) < Cap
  BY <1>1, AppendProperties DEF Put
<1>2. CASE ~(Len(r) < Cap)
  <2>1. Len(r) + 1 - Cap \in 1 .. Len(r)
    BY <1>2, SizesAssumption
  <2> DEFINE s == [r EXCEPT ![Len(r) + 1 - Cap] = x]
  <2>2. s \in Seq(Token) /\ Len(s) = Len(r)
    BY <2>1, ExceptSeq
  <2> QED BY <1>2, <2>2, AppendProperties DEF Put
<1> QED BY <1>1, <1>2

\* The tail of floppy_read() never builds a packet longer than the endpoint's
\* and only takes units out of the ring.
LEMMA SendType ==
  ASSUME NEW r \in Seq(Token), NEW avail \in Nat, avail <= Len(r),
         pkt \in Seq(Token), tx \in Seq(Token),
         Len(pkt) <= Mps, Len(tx) <= Mps,
         SendFrom(r, avail)
  PROVE  /\ ring' \in Seq(Token) /\ pkt' \in Seq(Token) /\ tx' \in Seq(Token)
         /\ Len(ring') <= Len(r) /\ Len(pkt') <= Mps /\ Len(tx') <= Mps
<1> DEFINE full   == pkt = <<>> /\ avail >= Mps
           staged == IF full THEN SubSeq(r, 1, Mps) ELSE pkt
           rest   == IF full THEN SubSeq(r, Mps + 1, Len(r)) ELSE r
<1>0. Mps \in Nat \ {0}
  BY SizesAssumption
<1>1. staged \in Seq(Token) /\ Len(staged) <= Mps
  <2>1. CASE full
    <3>1. Mps <= Len(r)
      BY <2>1, <1>0
    <3> QED BY <2>1, <3>1, <1>0, SubSeqProperties
  <2>2. CASE ~full
    BY <2>2
  <2> QED BY <2>1, <2>2
<1>2. rest \in Seq(Token) /\ Len(rest) <= Len(r)
  <2>1. CASE full
    <3>1. Mps <= Len(r)
      BY <2>1, <1>0
    <3> QED BY <2>1, <3>1, <1>0, SubSeqProperties
  <2>2. CASE ~full
    BY <2>2
  <2> QED BY <2>1, <2>2
<1>3. /\ ring' = rest
      /\ tx' = (IF staged # <<>> /\ tx = <<>> THEN staged ELSE tx)
      /\ pkt' = (IF staged # <<>> /\ tx = <<>> THEN <<>> ELSE staged)
  BY DEF SendFrom
<1> HIDE DEF staged, rest
<1> QED BY <1>0, <1>1, <1>2, <1>3

-----------------------------------------------------------------------------
(* Type correctness, with the bounds of the buffers. *)

Typed == TypeOK /\ BuffersFit

\* The steps below speak of the parts of Typed one at a time.
LEMMA TypedParts ==
  ASSUME Typed
  PROVE  /\ StatesOK /\ FlagsOK /\ CountsOK /\ BuffersFit
         /\ ring \in Seq(Token) /\ Len(ring) \in Nat
         /\ pkt \in Seq(Token) /\ tx \in Seq(Token)
         /\ Len(pkt) <= Mps /\ Len(tx) <= Mps
BY DEF Typed, TypeOK, BuffersOK, BuffersFit

\* Stop Tape leaves the drive and its motion among their values.
LEMMA PulseStopTyped ==
  ASSUME StatesOK, PulseStop
  PROVE  drive' \in DriveStates /\ rolling' \in {"none", "capture", "command"}
BY DEF StatesOK, PulseStop, DriveStates

\* A silent abort puts the drive and its motion among their values.
LEMMA AbortTyped ==
  ASSUME StatesOK, AbortSilent
  PROVE  drive' \in DriveStates /\ rolling' \in {"none", "capture", "command"}
BY PulseStopTyped DEF AbortSilent, StatesOK, driveVars

\* The flags after a capture was stopped.
LEMMA StopCaptureFlags ==
  ASSUME StopCapture
  PROVE  /\ active' \in BOOLEAN /\ needStart' \in BOOLEAN
         /\ segmentSeen' \in BOOLEAN /\ pendIndex' \in BOOLEAN
BY DEF StopCapture

\* The counters and ages after a capture was stopped.
LEMMA StopCaptureCounts ==
  ASSUME StopCapture, wdAge' \in 0 .. Watchdog
  PROVE  CountsOK'
BY SizesAssumption, TimersAssumption DEF StopCapture, CountsOK

\* floppy_configure() under any watchdog and select: whoever calls it keeps
\* the types and bounds.
LEMMA ConfigureTyped ==
  ASSUME Typed, Configure, tx' \in {tx, <<>>},
         selected' \in BOOLEAN, wdArmed' \in BOOLEAN, wdAge' = 0
  PROVE  Typed'
<1>0. AbortSilent /\ StopCapture
  BY DEF Configure, AbortSilent
<1>1. StatesOK'
  BY <1>0, TypedParts, AbortTyped DEF StatesOK, Configure
<1>2. FlagsOK'
  BY <1>0, StopCaptureFlags DEF FlagsOK
<1>3. CountsOK'
  BY <1>0, StopCaptureCounts, TimersAssumption
<1>4. ring' = <<>> /\ pkt' = <<>> /\ (tx' = tx \/ tx' = <<>>)
  BY DEF Configure
<1>5. /\ ring' \in Seq(Token) /\ pkt' \in Seq(Token) /\ tx' \in Seq(Token)
      /\ Len(ring') = 0 /\ Len(pkt') = 0 /\ Len(tx') <= Mps
  <2>1. /\ ring' \in Seq(Token) /\ pkt' \in Seq(Token)
        /\ Len(ring') = 0 /\ Len(pkt') = 0
    BY <1>4, EmptyType
  <2>2. CASE tx' = tx
    BY <2>1, <2>2, TypedParts
  <2>3. CASE tx' = <<>>
    <3>1. tx' \in Seq(Token) /\ Len(tx') = 0
      BY <2>3, EmptyType
    <3> QED BY <2>1, <3>1, SizesAssumption
  <2> QED BY <1>4, <2>2, <2>3
<1>6. BuffersOK' /\ BuffersFit'
  BY <1>5, SizesAssumption DEF BuffersOK, BuffersFit
<1> QED BY <1>1, <1>2, <1>3, <1>6 DEF Typed, TypeOK

\* No pass of floppy_read() puts a value of the wrong kind anywhere or outgrows
\* a buffer.
LEMMA PumpTyped ==
  ASSUME Typed, NEW filler \in BOOLEAN,
         PumpOverflow(filler) \/ PumpFinish(filler) \/ PumpContinue(filler)
  PROVE  Typed'
<1> USE SizesAssumption, TimersAssumption
<1> DEFINE r == ring \o Encoded(filler)
<1>1. r \in Seq(Token) /\ Len(r) \in Nat
  <2>1. Encoded(filler) \in Seq(Token)
    BY TypedParts, EncodedType DEF CountsOK
  <2> QED BY <2>1, TypedParts, ConcatProperties
<1>2. FluxCountNow \in Nat
  BY TypedParts DEF FluxCountNow, CountsOK
<1> HIDE DEF r
<1>3. CASE PumpOverflow(filler)
  <2> DEFINE none == <<>>
  <2>1. SendFrom(none, 0) /\ floppyState' = "read_flux_drain" /\ AbortSilent
    BY <1>3 DEF PumpOverflow
  <2>2. none \in Seq(Token) /\ Len(none) = 0
    BY EmptyType
  <2> HIDE DEF none
  <2>3. /\ ring' \in Seq(Token) /\ pkt' \in Seq(Token) /\ tx' \in Seq(Token)
        /\ Len(ring') <= Len(none) /\ Len(pkt') <= Mps /\ Len(tx') <= Mps
    <3>1. 0 \in Nat /\ 0 <= Len(none)
      BY <2>2
    <3> QED BY <2>1, <2>2, <3>1, TypedParts, SendType
  <2>4. BuffersOK' /\ BuffersFit'
    BY <2>1, <2>2, <2>3 DEF BuffersOK, BuffersFit
  <2>5. StatesOK'
    BY <1>3, <2>1, TypedParts, AbortTyped DEF PumpOverflow, Pumping, StatesOK
  <2>6. FlagsOK'
    BY <1>3, TypedParts, StopCaptureFlags DEF PumpOverflow, Pumping, AbortSilent, FlagsOK
  <2>7. CountsOK'
    BY <1>3, TypedParts, StopCaptureCounts
    DEF PumpOverflow, AbortSilent, WdAgeNow, CountsOK
  <2> QED BY <2>4, <2>5, <2>6, <2>7 DEF Typed, TypeOK
<1>4. CASE PumpFinish(filler)
  <2> DEFINE end == EndMark(FluxCountNow, EndReason)
  <2>1. end \in Token
    <3>1. EndReason \in Reasons
      BY DEF EndReason, MotionEnd, Reasons
    <3> QED BY <1>2, <3>1, TokenTypes
  <2>2. Put(r, end) \in Seq(Token) /\ Len(Put(r, end)) = Len(r) + 1
    BY <1>1, <2>1, PutType
  <2>3. /\ SendFrom(Put(r, end), Len(r)) /\ ~Overflows(r)
        /\ floppyState' = "read_flux_drain" /\ PulseStop /\ StopCapture
    BY <1>4 DEF PumpFinish, r
  <2> HIDE DEF end
  <2>4. /\ ring' \in Seq(Token) /\ pkt' \in Seq(Token) /\ tx' \in Seq(Token)
        /\ Len(ring') <= Len(r) + 1 /\ Len(pkt') <= Mps /\ Len(tx') <= Mps
    BY <1>1, <2>2, <2>3, TypedParts, SendType
  <2>5. BuffersOK' /\ BuffersFit'
    BY <1>1, <2>3, <2>4 DEF BuffersOK, BuffersFit, Overflows
  <2>6. StatesOK'
    BY <1>4, <2>3, TypedParts, PulseStopTyped DEF PumpFinish, Pumping, StatesOK
  <2>7. FlagsOK'
    BY <1>4, <2>3, TypedParts, StopCaptureFlags DEF PumpFinish, Pumping, FlagsOK
  <2>8. CountsOK'
    BY <1>4, <2>3, StopCaptureCounts DEF PumpFinish
  <2> QED BY <2>5, <2>6, <2>7, <2>8 DEF Typed, TypeOK
<1>5. CASE PumpContinue(filler)
  <2>1. /\ SendFrom(r, Len(r)) /\ ~Overflows(r) /\ floppyState' = "read_flux"
    BY <1>5 DEF PumpContinue, Pumping, r
  <2>2. /\ ring' \in Seq(Token) /\ pkt' \in Seq(Token) /\ tx' \in Seq(Token)
        /\ Len(ring') <= Len(r) /\ Len(pkt') <= Mps /\ Len(tx') <= Mps
    BY <1>1, <2>1, TypedParts, SendType
  <2>3. BuffersOK' /\ BuffersFit'
    BY <1>1, <2>1, <2>2 DEF BuffersOK, BuffersFit, Overflows
  <2>4. StatesOK'
    BY <1>5, TypedParts DEF PumpContinue, Pumping, StatesOK, driveVars
  <2>5. FlagsOK'
    BY <1>5, TypedParts DEF PumpContinue, Pumping, SegmentSeenNow, FlagsOK
  <2>6. /\ fluxCount' = FluxCountNow /\ budget' = budget /\ armedAge' = armedAge
        /\ pendFlux' = 0 /\ fluxAge' \in {0, fluxAge} /\ wdAge' \in {0, wdAge}
    BY <1>5 DEF PumpContinue, FluxAgeNow, WdAgeNow
  <2>7. CountsOK'
    BY <1>2, <2>6, TypedParts, SMTT(60) DEF CountsOK
  <2> QED BY <2>3, <2>4, <2>5, <2>7 DEF Typed, TypeOK
<1> QED BY <1>3, <1>4, <1>5

\* The drain states hand out packets that fit.
LEMMA DrainTyped ==
  ASSUME Typed, Drain \/ DrainLast \/ SendZlp
  PROVE  Typed'
<1> USE SizesAssumption, TimersAssumption
<1>1. StatesOK'
  BY TypedParts DEF Drain, DrainLast, SendZlp, StatesOK, driveVars
<1>2. FlagsOK'
  BY TypedParts
  DEF Drain, DrainLast, SendZlp, ArmWatchdog, FlagsOK, capVars, wdVars, dmaVars
<1>3. CountsOK'
  BY TypedParts, SMTT(60)
  DEF Drain, DrainLast, SendZlp, ArmWatchdog, CountsOK, capVars, wdVars, dmaVars
<1>4. CASE Drain
  <2>1. SendFrom(ring, Len(ring)) /\ floppyState' = floppyState
    BY <1>4 DEF Drain
  <2>2. /\ ring' \in Seq(Token) /\ pkt' \in Seq(Token) /\ tx' \in Seq(Token)
        /\ Len(ring') <= Len(ring) /\ Len(pkt') <= Mps /\ Len(tx') <= Mps
    BY <2>1, TypedParts, SendType
  <2>3. BuffersOK' /\ BuffersFit'
    BY <2>1, <2>2, TypedParts DEF BuffersOK, BuffersFit
  <2> QED BY <1>1, <1>2, <1>3, <2>3 DEF Typed, TypeOK
<1>5. CASE DrainLast
  <2>1. tx' \in Seq(Token) /\ Len(tx') <= Mps
    <3>1. Mark("nul") \in Token
      BY TokenTypes DEF Marks
    <3> QED BY <1>5, <3>1, TypedParts, AppendProperties DEF DrainLast
  <2>2. ring' \in Seq(Token) /\ Len(ring') = 0 /\ pkt' = pkt
    BY <1>5, EmptyType DEF DrainLast
  <2>3. BuffersOK' /\ BuffersFit'
    BY <2>1, <2>2, TypedParts DEF BuffersOK, BuffersFit
  <2> QED BY <1>1, <1>2, <1>3, <2>3 DEF Typed, TypeOK
<1>6. CASE SendZlp
  <2>1. tx' \in Seq(Token) /\ Len(tx') <= Mps
    BY <1>6, SingleType, TokenTypes DEF SendZlp, Marks
  <2>2. /\ ring' = ring /\ pkt' = pkt
        /\ floppyState = "zlp" /\ floppyState' = "command_wait"
    BY <1>6 DEF SendZlp
  <2>3. BuffersOK' /\ BuffersFit'
    BY <2>1, <2>2, TypedParts DEF BuffersOK, BuffersFit
  <2> QED BY <1>1, <1>2, <1>3, <2>3 DEF Typed, TypeOK
<1> QED BY <1>4, <1>5, <1>6

\* A command leaves its answer and an empty ring behind.
LEMMA CommandTyped ==
  ASSUME Typed, RunCommand
  PROVE  Typed'
<1> USE SizesAssumption, TimersAssumption
<1>1. Answer /\ pkt' \in {pkt, <<>>}
  BY DEF RunCommand, CmdQuery, CmdPulses, CmdSelect, CmdCapture, ReadPrep
<1>2. /\ ring' \in Seq(Token) /\ Len(ring') = 0
      /\ tx' \in Seq(Token) /\ Len(tx') <= Mps
  <2>1. ring' \in Seq(Token) /\ Len(ring') = 0
    BY <1>1, EmptyType DEF Answer
  <2>2. tx' \in Seq(Token) /\ Len(tx') <= Mps
    BY <1>1, SingleType, TokenTypes DEF Answer, Marks
  <2> QED BY <2>1, <2>2
<1>3. pkt' \in Seq(Token) /\ Len(pkt') <= Mps
  <2>1. CASE pkt' = pkt
    BY <2>1, TypedParts
  <2>2. CASE pkt' = <<>>
    <3>1. pkt' \in Seq(Token) /\ Len(pkt') = 0
      BY <2>2, EmptyType
    <3> QED BY <3>1
  <2> QED BY <1>1, <2>1, <2>2
<1>4. BuffersOK' /\ BuffersFit'
  BY <1>2, <1>3 DEF BuffersOK, BuffersFit
<1>5. StatesOK'
  <2>1. cmd' = NoCmd
    BY <1>1 DEF Answer
  <2>2. drive' \in DriveStates /\ rolling' \in {"none", "capture", "command"}
    BY TypedParts, PulseStopTyped
    DEF RunCommand, CmdQuery, CmdPulses, CmdSelect, CmdCapture, PulseMotion,
        StatesOK, DriveStates, driveVars
  <2>3. /\ floppyState' \in {floppyState, "read_flux"}
        /\ fluxStatus' \in {fluxStatus, "okay"}
    BY DEF RunCommand, CmdQuery, CmdPulses, CmdSelect, CmdCapture, ReadPrep
  <2> QED BY <2>1, <2>2, <2>3, TypedParts DEF StatesOK
<1>6. FlagsOK'
  <2>1. wdArmed' = TRUE
    BY <1>1 DEF Answer, ArmWatchdog
  <2>2. CASE CmdQuery \/ CmdPulses
    BY <2>1, <2>2, TypedParts DEF CmdQuery, CmdPulses, FlagsOK, capVars, dmaVars
  <2>3. CASE CmdSelect
    BY <2>1, <2>3, TypedParts DEF CmdSelect, FlagsOK, capVars, dmaVars
  <2>4. CASE CmdCapture
    BY <2>1, <2>4, TypedParts DEF CmdCapture, ReadPrep, FlagsOK
  <2> QED BY <2>2, <2>3, <2>4 DEF RunCommand
<1>7. CountsOK'
  <2>1. wdAge' = 0
    BY <1>1 DEF Answer, ArmWatchdog
  <2>2. CASE CmdQuery \/ CmdPulses \/ CmdSelect
    BY <2>1, <2>2, TypedParts
    DEF CmdQuery, CmdPulses, CmdSelect, CountsOK, capVars, dmaVars
  <2>3. CASE CmdCapture
    <3>1. cmd.budget \in Nat
      BY <2>3, TypedParts, CommandsAssumption
      DEF CmdCapture, Answer, StatesOK, CommandSet, Verbs, Verb, NoCmd
    <3> QED BY <2>1, <2>3, <3>1 DEF CmdCapture, ReadPrep, CountsOK
  <2> QED BY <2>2, <2>3 DEF RunCommand
<1> QED BY <1>4, <1>5, <1>6, <1>7 DEF Typed, TypeOK

\* The host, the bus, the drive and time touch no buffer but the endpoints.
LEMMA EnvironmentTyped ==
  ASSUME Typed, Host \/ Bus \/ Drive \/ Tick
  PROVE  Typed'
<1> USE SizesAssumption, TimersAssumption
<1>1. CASE ClearComms \/ SetConfiguration
  <2>1. /\ Configure /\ selected' = selected /\ wdArmed' = TRUE /\ wdAge' = 0
        /\ tx' \in {tx, <<>>}
    BY <1>1 DEF ClearComms, SetConfiguration, ArmWatchdog
  <2>2. selected' \in BOOLEAN /\ wdArmed' \in BOOLEAN
    BY <2>1, TypedParts DEF FlagsOK
  <2> QED BY <2>1, <2>2, ConfigureTyped
<1>2. CASE UsbReset
  <2>1. AbortSilent /\ StopCapture
    BY <1>2 DEF UsbReset, AbortSilent
  <2>2. StatesOK'
    BY <1>2, <2>1, TypedParts, AbortTyped DEF UsbReset, StatesOK
  <2>3. FlagsOK'
    BY <1>2, <2>1, TypedParts, StopCaptureFlags DEF UsbReset, FlagsOK
  <2>4. CountsOK'
    BY <1>2, <2>1, StopCaptureCounts DEF UsbReset
  <2>5. /\ ring' \in Seq(Token) /\ Len(ring') = 0
        /\ pkt' \in Seq(Token) /\ Len(pkt') = 0
        /\ tx' \in Seq(Token) /\ Len(tx') = 0
    BY <1>2, EmptyType DEF UsbReset
  <2>6. BuffersOK' /\ BuffersFit'
    BY <2>5 DEF BuffersOK, BuffersFit
  <2> QED BY <2>2, <2>3, <2>4, <2>6 DEF Typed, TypeOK
<1>3. CASE HostReads
  <2>1. tx' \in Seq(Token) /\ Len(tx') = 0
    BY <1>3, EmptyType DEF HostReads
  <2>2. ring' = ring /\ pkt' = pkt /\ floppyState' = floppyState
    BY <1>3 DEF HostReads
  <2>3. BuffersOK' /\ BuffersFit'
    BY <2>1, <2>2, TypedParts DEF BuffersOK, BuffersFit
  <2>4. StatesOK' /\ FlagsOK'
    BY <1>3, TypedParts
    DEF HostReads, StatesOK, FlagsOK, capVars, wdVars, dmaVars, driveVars
  <2>5. CountsOK'
    BY <1>3, TypedParts DEF HostReads, CountsOK, capVars, wdVars, dmaVars
  <2> QED BY <2>3, <2>4, <2>5 DEF Typed, TypeOK
<1>4. CASE (\E c \in Commands : HostSends(c)) \/ Drive \/ Tick
  <2>1. ring' = ring /\ pkt' = pkt /\ tx' = tx /\ floppyState' = floppyState
    BY <1>4
    DEF HostSends, Drive, DriveFlux, DriveIndex, DriveReachesData, DriveHalts,
        Tick, usbVars
  <2>2. BuffersOK' /\ BuffersFit'
    BY <2>1, TypedParts DEF BuffersOK, BuffersFit
  <2>3. StatesOK'
    BY <1>4, <2>1, TypedParts
    DEF HostSends, Drive, DriveFlux, DriveIndex, DriveReachesData, DriveHalts,
        Tick, StatesOK, DriveStates, usbVars, driveVars
  <2>4. FlagsOK'
    BY <1>4, TypedParts
    DEF HostSends, Drive, DriveFlux, DriveIndex, DriveReachesData, DriveHalts,
        Tick, FlagsOK, capVars, wdVars, dmaVars
  <2>5. CASE \E c \in Commands : HostSends(c)
    <3>1. CountsOK'
      BY <2>5, TypedParts DEF HostSends, CountsOK, capVars, wdVars, dmaVars
    <3> QED BY <2>2, <2>3, <2>4, <3>1 DEF Typed, TypeOK
  <2>6. CASE Drive
    <3>1. CountsOK'
      BY <2>6, TypedParts, SMTT(60)
      DEF Drive, DriveFlux, DriveIndex, DriveReachesData, DriveHalts, CountsOK,
          capVars, wdVars, dmaVars
    <3> QED BY <2>2, <2>3, <2>4, <3>1 DEF Typed, TypeOK
  <2>7. CASE Tick
    <3>1. /\ fluxCount' = fluxCount /\ budget' = budget /\ pendFlux' = pendFlux
          /\ wdAge' \in {0, Min2(wdAge + 1, Watchdog)}
          /\ armedAge' \in {0, Min2(armedAge + 1, NoStart)}
          /\ fluxAge' \in {0, Min2(fluxAge + 1, IdleEnd)}
      BY <2>7 DEF Tick, dmaVars
    <3>2. /\ wdAge \in 0 .. Watchdog /\ armedAge \in 0 .. NoStart
          /\ fluxAge \in 0 .. IdleEnd
      BY TypedParts DEF CountsOK
    <3>3. wdAge' \in 0 .. Watchdog
      BY <3>1, <3>2 DEF Min2
    <3>4. armedAge' \in 0 .. NoStart
      BY <3>1, <3>2 DEF Min2
    <3>5. fluxAge' \in 0 .. IdleEnd
      BY <3>1, <3>2 DEF Min2
    <3>6. CountsOK'
      BY <3>1, <3>3, <3>4, <3>5, TypedParts DEF CountsOK
    <3> QED BY <2>2, <2>3, <2>4, <3>6 DEF Typed, TypeOK
  <2> QED BY <1>4, <2>5, <2>6, <2>7
<1> QED BY <1>1, <1>2, <1>3, <1>4 DEF Host, Bus

\* Type correctness and the bounds of the ring and of the packets, in every
\* state of every behaviour: END is the only thing ever written past U_BUF_SZ.
THEOREM TypesAndBounds == Spec => []TypeOK /\ []BuffersFit
<1>1. Init => Typed
  <2> SUFFICES ASSUME Init PROVE Typed
    OBVIOUS
  <2> USE SizesAssumption, TimersAssumption
  <2>1. StatesOK
    BY DEF Init, StatesOK, DriveStates
  <2>2. FlagsOK
    BY DEF Init, FlagsOK
  <2>3. CountsOK
    BY DEF Init, CountsOK
  <2>4. /\ ring \in Seq(Token) /\ Len(ring) = 0
        /\ pkt \in Seq(Token) /\ Len(pkt) = 0
        /\ tx \in Seq(Token) /\ Len(tx) = 0
    BY EmptyType DEF Init
  <2>5. BuffersOK /\ BuffersFit
    BY <2>4 DEF BuffersOK, BuffersFit
  <2> QED BY <2>1, <2>2, <2>3, <2>5 DEF Typed, TypeOK
<1>2. Typed /\ [Next]_vars => Typed'
  <2> SUFFICES ASSUME Typed, [Next]_vars PROVE Typed'
    OBVIOUS
  <2>1. CASE WatchdogFires
    <3>1. /\ Configure /\ selected' = FALSE /\ wdArmed' = FALSE /\ wdAge' = 0
          /\ tx' = tx
      BY <2>1 DEF WatchdogFires
    <3> QED BY <3>1, ConfigureTyped
  <2>2. CASE ReadPump
    BY <2>2, PumpTyped DEF ReadPump
  <2>3. CASE Drain \/ DrainLast \/ SendZlp
    BY <2>3, DrainTyped
  <2>4. CASE RunCommand
    BY <2>4, CommandTyped
  <2>5. CASE Host \/ Bus \/ Drive \/ Tick
    BY <2>5, EnvironmentTyped
  <2>6. CASE UNCHANGED vars
    BY <2>6
    DEF vars, capVars, wdVars, usbVars, dmaVars, driveVars, Typed, TypeOK,
        StatesOK, FlagsOK, CountsOK, BuffersOK, BuffersFit
  <2> QED BY <2>1, <2>2, <2>3, <2>4, <2>5, <2>6 DEF Next, Process
<1>3. Typed => TypeOK /\ BuffersFit
  BY DEF Typed
<1> QED BY <1>1, <1>2, <1>3, PTL DEF Spec

-----------------------------------------------------------------------------
(* The tape is never let go while it rolls for a capture. *)

\* Every step keeps the capture, the read state, the armed watchdog and the
\* rolling tape together.
LEMMA OwnsStep ==
  ASSUME Owns, [Next]_vars
  PROVE  Owns'
<1> USE DEF Owns, CaptureOwnsTape, ReadIsCapture
<1>1. CASE WatchdogFires
  BY <1>1 DEF WatchdogFires, Configure, AbortSilent, StopCapture, PulseStop, driveVars
<1>2. CASE ReadPump
  <2> SUFFICES ASSUME NEW filler \in BOOLEAN,
                      PumpOverflow(filler) \/ PumpFinish(filler) \/ PumpContinue(filler)
               PROVE  Owns'
    BY <1>2 DEF ReadPump
  <2>1. CASE PumpOverflow(filler)
    BY <2>1 DEF PumpOverflow, Pumping, AbortSilent, StopCapture, PulseStop, driveVars
  <2>2. CASE PumpFinish(filler)
    BY <2>2 DEF PumpFinish, Pumping, StopCapture, PulseStop
  <2>3. CASE PumpContinue(filler)
    BY <2>3 DEF PumpContinue, Pumping, driveVars
  <2> QED BY <2>1, <2>2, <2>3
<1>3. CASE Drain \/ DrainLast \/ SendZlp
  BY <1>3
  DEF Drain, DrainLast, SendZlp, ArmWatchdog, capVars, wdVars, driveVars
<1>4. CASE RunCommand
  BY <1>4
  DEF RunCommand, CmdQuery, CmdPulses, CmdSelect, CmdCapture, Answer, ArmWatchdog,
      ReadPrep, PulseStop, PulseMotion, capVars, driveVars
<1>5. CASE Host
  BY <1>5
  DEF Host, HostSends, HostReads, ClearComms, Configure, AbortSilent, StopCapture,
      PulseStop, ArmWatchdog, capVars, wdVars, driveVars
<1>6. CASE Bus
  BY <1>6
  DEF Bus, SetConfiguration, UsbReset, Configure, AbortSilent, StopCapture,
      PulseStop, ArmWatchdog, driveVars
<1>7. CASE Drive \/ Tick
  BY <1>7
  DEF Drive, DriveFlux, DriveIndex, DriveReachesData, DriveHalts, Tick,
      capVars, wdVars, driveVars
<1>8. CASE UNCHANGED vars
  BY <1>8 DEF vars, capVars, wdVars, driveVars
<1> QED BY <1>1, <1>2, <1>3, <1>4, <1>5, <1>6, <1>7, <1>8 DEF Next, Process

\* The invariant behind CaptureOwnsTape.
LEMMA OwnsAlways == Spec => []Owns
<1>1. Init => Owns
  BY DEF Init, Owns, CaptureOwnsTape, ReadIsCapture
<1> QED BY <1>1, OwnsStep, PTL DEF Spec

\* No end of a capture, the watchdog and a bus reset included, releases the
\* drive or disarms the watchdog before Stop Tape.
THEOREM CaptureOwnsTapeAlways == Spec => []CaptureOwnsTape
BY OwnsAlways, PTL DEF Owns

-----------------------------------------------------------------------------
(* The no-start rule is dead. *)

\* The watchdog's age keeps up with the capture's until a segment is found.
LEMMA KickedEarlyStep ==
  ASSUME Typed, Owns, KickedEarly, [Next]_vars
  PROVE  KickedEarly'
<1> USE TimersAssumption DEF KickedEarly
<1>0. active => floppyState = "read_flux" /\ wdArmed
  BY DEF Owns, CaptureOwnsTape
<1>1. CASE active' = FALSE
  BY <1>1
<1>2. CASE CmdCapture
  BY <1>2 DEF CmdCapture, Answer, ArmWatchdog
<1>3. ASSUME NEW filler \in BOOLEAN, PumpContinue(filler)
      PROVE  KickedEarly'
  <2>1. /\ active' = active /\ armedAge' = armedAge
        /\ segmentSeen' = (segmentSeen \/ (pendIndex /\ armedAge >= Holdoff))
        /\ wdAge' = IF pendIndex THEN 0 ELSE wdAge
    BY <1>3 DEF PumpContinue, SegmentSeenNow, WdAgeNow
  <2> SUFFICES ASSUME active', ~segmentSeen'
               PROVE  wdAge' >= Watchdog \/ wdAge' + Holdoff > armedAge'
    OBVIOUS
  <2>2. armedAge \in Nat /\ wdAge \in Nat
    BY TypedParts DEF CountsOK
  <2>3. CASE pendIndex
    <3>1. ~(armedAge >= Holdoff) /\ wdAge' = 0 /\ armedAge' = armedAge
      BY <2>1, <2>3
    <3> QED BY <2>2, <3>1
  <2>4. CASE ~pendIndex
    <3>1. active /\ ~segmentSeen /\ wdAge' = wdAge /\ armedAge' = armedAge
      BY <2>1, <2>4
    <3> QED BY <3>1
  <2> QED BY <2>3, <2>4
<1>4. CASE Tick
  <2>1. /\ active' = active /\ segmentSeen' = segmentSeen
        /\ active => /\ wdAge' = Min2(wdAge + 1, Watchdog)
                     /\ armedAge' = Min2(armedAge + 1, NoStart)
    BY <1>0, <1>4 DEF Tick
  <2> QED BY <2>1, TypedParts, SMTT(60) DEF CountsOK, Min2
<1>5. CASE /\ active' = active /\ segmentSeen' = segmentSeen
           /\ armedAge' = armedAge /\ wdAge' = wdAge
  BY <1>5
<1>6. CASE Process
  <2>1. CASE WatchdogFires
    BY <1>1, <2>1 DEF WatchdogFires, Configure, AbortSilent, StopCapture
  <2>2. CASE ReadPump
    BY <1>1, <1>3, <2>2
    DEF ReadPump, PumpOverflow, PumpFinish, AbortSilent, StopCapture
  <2>3. CASE Drain \/ DrainLast \/ SendZlp
    BY <1>0, <1>1, <2>3 DEF Drain, DrainLast, SendZlp, FlagsOK, capVars
  <2> QED BY <1>6, <2>1, <2>2, <2>3 DEF Process
<1>7. CASE RunCommand
  BY <1>0, <1>2, <1>7 DEF RunCommand, CmdQuery, CmdPulses, CmdSelect, Answer, capVars
<1>8. CASE Host \/ Bus \/ Drive
  BY <1>1, <1>5, <1>8
  DEF Host, HostSends, HostReads, ClearComms, Bus, SetConfiguration, UsbReset,
      Configure, AbortSilent, StopCapture,
      Drive, DriveFlux, DriveIndex, DriveReachesData, DriveHalts, capVars, wdVars
<1>9. CASE UNCHANGED vars
  BY <1>5, <1>9 DEF vars, capVars, wdVars
<1> QED BY <1>4, <1>6, <1>7, <1>8, <1>9 DEF Next

\* With a watchdog at least a cue holdoff shorter than the no-start limit, no
\* run is ever ended by the no-start rule, so no stream carries END(WATCHDOG).
THEOREM NoStartNeverSealsAlways == Spec => []NoStartNeverSeals
<1> DEFINE I == Typed /\ Owns /\ KickedEarly
<1>1. Spec => []Typed
  BY TypesAndBounds, PTL DEF Typed
<1>2. Init => KickedEarly
  BY DEF Init, KickedEarly
<1>3. I => NoStartNeverSeals
  <2> SUFFICES ASSUME I, floppyState = "read_flux", ~Expired, ~SegmentSeenNow
               PROVE  armedAge < NoStart
    BY TypedParts, TimersAssumption DEF NoStartNeverSeals, MotionEnd, CountsOK
  <2>1. active /\ wdArmed
    BY DEF Owns, ReadIsCapture, CaptureOwnsTape
  <2>2. ~segmentSeen
    BY DEF SegmentSeenNow
  <2>3. wdAge < Watchdog
    BY <2>1, TypedParts, TimersAssumption DEF Expired, CountsOK
  <2>4. wdAge + Holdoff > armedAge
    BY <2>1, <2>2, <2>3, TypedParts, TimersAssumption DEF KickedEarly, CountsOK
  <2> QED BY <2>3, <2>4, TypedParts, TimersAssumption DEF CountsOK
<1>4. Typed /\ Owns /\ KickedEarly /\ [Next]_vars => KickedEarly'
  BY KickedEarlyStep
<1> QED BY <1>1, <1>2, <1>3, <1>4, OwnsAlways, PTL DEF Spec

-----------------------------------------------------------------------------
(* The provers cannot instantiate an induction theorem that takes a predicate,  *)
(* so a proof by induction here names the set of the numbers it has shown.       *)
LEMMA NatSetInduction ==
  ASSUME NEW N, N \subseteq Nat, 0 \in N, \A n \in N : n + 1 \in N
  PROVE  N = Nat
<1> SUFFICES ASSUME Nat \ N # {} PROVE FALSE
  OBVIOUS
<1> DEFINE R == OpToRel(<, Nat)
<1>1. IsWellFoundedOn(R, Nat)
  BY NatLessThanWellFounded
<1>2. Nat \ N \subseteq Nat
  OBVIOUS
<1>3. PICK least \in Nat \ N : \A y \in Nat \ N : ~(<<y, least>> \in R)
  <2> HIDE DEF R
  <2> QED BY <1>1, <1>2, WFMin
<1>4. least \in Nat /\ least \notin N /\ \A y \in Nat \ N : ~(y < least)
  BY <1>3 DEF OpToRel
<1> HIDE DEF R
<1>5. least # 0
  BY <1>4
<1>6. least - 1 \in Nat /\ least - 1 < least /\ (least - 1) + 1 = least
  BY <1>4, <1>5
<1>7. least - 1 \in N
  BY <1>4, <1>6
<1> QED BY <1>4, <1>6, <1>7

-----------------------------------------------------------------------------
(* Kept is what its recursion says. *)

\* The recursion of Kept(s, kinds), for a prefix of n tokens.
Recursion(f, s, kinds, n) ==
  f = [m \in 0 .. n |->
         IF m = 0 THEN <<>>
         ELSE IF s[m].k \in kinds THEN Append(f[m - 1], s[m]) ELSE f[m - 1]]
KeptUpTo(s, kinds) == CHOOSE f : Recursion(f, s, kinds, Len(s))

LEMMA RecursionValues ==
  ASSUME NEW f, NEW s, NEW kinds, NEW n \in Nat, Recursion(f, s, kinds, n)
  PROVE  /\ DOMAIN f = 0 .. n /\ f[0] = <<>>
         /\ \A m \in 1 .. n :
              f[m] = IF s[m].k \in kinds THEN Append(f[m - 1], s[m]) ELSE f[m - 1]
<1>1. f = [m \in 0 .. n |->
         IF m = 0 THEN <<>>
         ELSE IF s[m].k \in kinds THEN Append(f[m - 1], s[m]) ELSE f[m - 1]]
  BY DEF Recursion
<1>2. DOMAIN f = 0 .. n
  BY <1>1
<1>3. \A m \in 0 .. n :
        f[m] = IF m = 0 THEN <<>>
               ELSE IF s[m].k \in kinds THEN Append(f[m - 1], s[m]) ELSE f[m - 1]
  BY <1>1
<1>4. 0 \in 0 .. n /\ \A m \in 1 .. n : m \in 0 .. n /\ m # 0
  OBVIOUS
<1> QED BY <1>2, <1>3, <1>4

LEMMA RecursionExists ==
  ASSUME NEW s, NEW kinds, NEW n \in Nat
  PROVE  \E f : Recursion(f, s, kinds, n)
<1> DEFINE N == {m \in Nat : \E f : Recursion(f, s, kinds, m)}
<1>1. 0 \in N
  <2> DEFINE f == [m \in 0 .. 0 |-> <<>>]
  <2>1. f = [m \in 0 .. 0 |->
              IF m = 0 THEN <<>>
              ELSE IF s[m].k \in kinds THEN Append(f[m - 1], s[m]) ELSE f[m - 1]]
    <3>1. \A m \in 0 .. 0 : m = 0
      OBVIOUS
    <3> QED BY <3>1
  <2>2. Recursion(f, s, kinds, 0)
    BY <2>1 DEF Recursion
  <2> QED BY <2>2
<1>2. \A m \in N : m + 1 \in N
  <2> TAKE m \in N
  <2>1. m \in Nat
    OBVIOUS
  <2>2. PICK f : Recursion(f, s, kinds, m)
    OBVIOUS
  <2>3. /\ f[0] = <<>>
        /\ \A i \in 1 .. m : f[i] = IF s[i].k \in kinds THEN Append(f[i - 1], s[i]) ELSE f[i - 1]
    BY <2>1, <2>2, RecursionValues
  <2> DEFINE last == IF s[m + 1].k \in kinds THEN Append(f[m], s[m + 1]) ELSE f[m]
             g == [i \in 0 .. (m + 1) |-> IF i = m + 1 THEN last ELSE f[i]]
  <2>4. \A i \in 0 .. m : g[i] = f[i]
    BY <2>1
  <2>5. g[m + 1] = last
    BY <2>1
  <2>6. \A i \in 0 .. (m + 1) :
          g[i] = IF i = 0 THEN <<>>
                 ELSE IF s[i].k \in kinds THEN Append(g[i - 1], s[i]) ELSE g[i - 1]
    <3> TAKE i \in 0 .. (m + 1)
    <3> HIDE DEF g
    <3>1. CASE i = 0
      BY <2>1, <2>3, <2>4, <3>1
    <3>2. CASE i = m + 1
      <4>1. g[i - 1] = f[m] /\ i # 0
        BY <2>1, <2>4, <3>2
      <4> QED BY <2>5, <3>2, <4>1
    <3>3. CASE i \in 1 .. m
      <4>1. g[i] = f[i] /\ g[i - 1] = f[i - 1]
        BY <2>1, <2>4, <3>3
      <4> QED BY <2>3, <3>3, <4>1
    <3> QED BY <2>1, <3>1, <3>2, <3>3
  <2>7. g = [i \in 0 .. (m + 1) |->
               IF i = 0 THEN <<>>
               ELSE IF s[i].k \in kinds THEN Append(g[i - 1], s[i]) ELSE g[i - 1]]
    <3>1. g = [i \in 0 .. (m + 1) |-> g[i]]
      OBVIOUS
    <3> HIDE DEF g
    <3> QED BY <2>6, <3>1
  <2> HIDE DEF g
  <2>8. Recursion(g, s, kinds, m + 1)
    BY <2>7 DEF Recursion
  <2> QED BY <2>1, <2>8
<1>3. N = Nat
  <2> HIDE DEF N
  <2>1. N \subseteq Nat
    BY DEF N
  <2> QED BY <1>1, <1>2, <2>1, NatSetInduction
<1> QED BY <1>3

LEMMA KeptIsUpTo ==
  ASSUME NEW s \in Seq(Token), NEW kinds
  PROVE  /\ Kept(s, kinds) = KeptUpTo(s, kinds)[Len(s)]
         /\ KeptUpTo(s, kinds)[0] = <<>>
         /\ \A m \in 1 .. Len(s) :
              KeptUpTo(s, kinds)[m] =
                IF s[m].k \in kinds THEN Append(KeptUpTo(s, kinds)[m - 1], s[m])
                ELSE KeptUpTo(s, kinds)[m - 1]
<1>1. Kept(s, kinds) = KeptUpTo(s, kinds)[Len(s)]
  BY DEF Kept, KeptUpTo, Recursion
<1>2. Len(s) \in Nat
  BY LenProperties
<1>3. \E f : Recursion(f, s, kinds, Len(s))
  BY <1>2, RecursionExists
<1>4. Recursion(KeptUpTo(s, kinds), s, kinds, Len(s))
  BY <1>3 DEF KeptUpTo
<1> QED BY <1>1, <1>2, <1>4, RecursionValues

-----------------------------------------------------------------------------
(* The laws of Kept: nothing, one more token, and two sequences in a row. *)

LEMMA KeptEmpty ==
  ASSUME NEW kinds
  PROVE  Kept(<<>>, kinds) = <<>>
<1> DEFINE s == <<>>
<1>1. s \in Seq(Token) /\ Len(s) = 0
  BY EmptyType
<1> HIDE DEF s
<1>2. Kept(s, kinds) = <<>>
  <2>1. Kept(s, kinds) = KeptUpTo(s, kinds)[Len(s)] /\ KeptUpTo(s, kinds)[0] = <<>>
    BY <1>1, KeptIsUpTo
  <2> QED BY <1>1, <2>1
<1> QED BY <1>2 DEF s

LEMMA KeptAppend ==
  ASSUME NEW s \in Seq(Token), NEW t \in Token, NEW kinds
  PROVE  Kept(Append(s, t), kinds) =
           IF t.k \in kinds THEN Append(Kept(s, kinds), t) ELSE Kept(s, kinds)
<1> DEFINE n == Len(s)
           a == Append(s, t)
           f == KeptUpTo(s, kinds)
           g == KeptUpTo(a, kinds)
<1>1. /\ a \in Seq(Token) /\ Len(a) = n + 1 /\ n \in Nat
      /\ a[n + 1] = t /\ \A i \in 1 .. n : a[i] = s[i]
  BY AppendProperties, LenProperties
<1>2. /\ f[0] = <<>> /\ Kept(s, kinds) = f[n]
      /\ \A i \in 1 .. n : f[i] = IF s[i].k \in kinds THEN Append(f[i - 1], s[i]) ELSE f[i - 1]
  BY KeptIsUpTo
<1> HIDE DEF a
<1>3. /\ g[0] = <<>> /\ Kept(a, kinds) = g[n + 1]
      /\ \A i \in 1 .. (n + 1) :
           g[i] = IF a[i].k \in kinds THEN Append(g[i - 1], a[i]) ELSE g[i - 1]
  BY <1>1, KeptIsUpTo
<1> HIDE DEF f, g, n
<1> DEFINE N == {i \in Nat : i <= n => g[i] = f[i]}
<1>4. N = Nat
  <2>1. 0 \in N
    BY <1>2, <1>3
  <2>2. \A i \in N : i + 1 \in N
    <3> TAKE i \in N
    <3> SUFFICES ASSUME i + 1 <= n PROVE g[i + 1] = f[i + 1]
      OBVIOUS
    <3>1. i \in Nat /\ g[i] = f[i] /\ i + 1 \in 1 .. n /\ i + 1 \in 1 .. (n + 1) /\ (i + 1) - 1 = i
      BY <1>1
    <3>2. g[i + 1] = IF a[i + 1].k \in kinds THEN Append(g[i], a[i + 1]) ELSE g[i]
      BY <1>3, <3>1
    <3>3. f[i + 1] = IF s[i + 1].k \in kinds THEN Append(f[i], s[i + 1]) ELSE f[i]
      BY <1>2, <3>1
    <3> QED BY <1>1, <3>1, <3>2, <3>3
  <2> HIDE DEF N
  <2>3. N \subseteq Nat
    BY DEF N
  <2> QED BY <2>1, <2>2, <2>3, NatSetInduction
<1>5. g[n] = f[n]
  BY <1>1, <1>4
<1>6. n + 1 \in 1 .. (n + 1) /\ (n + 1) - 1 = n
  BY <1>1
<1>7. g[n + 1] = IF t.k \in kinds THEN Append(g[n], t) ELSE g[n]
  BY <1>1, <1>3, <1>6
<1>8. Kept(a, kinds) = IF t.k \in kinds THEN Append(Kept(s, kinds), t) ELSE Kept(s, kinds)
  BY <1>2, <1>3, <1>5, <1>7
<1> QED BY <1>8 DEF a

\* Induction on a sequence, by its length: a set of sequences that holds the empty one,
\* and with one its extensions by a token, holds them all.
LEMMA SeqSetInduction ==
  ASSUME NEW M, <<>> \in M, \A s \in Seq(Token), t \in Token : s \in M => Append(s, t) \in M
  PROVE  Seq(Token) \subseteq M
<1> DEFINE N == {n \in Nat : \A s \in Seq(Token) : Len(s) = n => s \in M}
<1>1. 0 \in N
  <2>1. \A s \in Seq(Token) : Len(s) = 0 => s = <<>>
    BY EmptySeq
  <2> QED BY <2>1
<1>2. \A n \in N : n + 1 \in N
  <2> TAKE n \in N
  <2> SUFFICES ASSUME NEW s \in Seq(Token), Len(s) = n + 1 PROVE s \in M
    OBVIOUS
  <2>1. n \in Nat /\ \A r \in Seq(Token) : Len(r) = n => r \in M
    OBVIOUS
  <2>2. s # <<>>
    BY <2>1, EmptySeq
  <2>3. PICK r \in Seq(Token), t \in Token : s = Append(r, t)
    BY <2>2, SequenceEmptyOrAppend
  <2>4. Len(r) = n
    BY <2>1, <2>3, AppendProperties, LenProperties
  <2> QED BY <2>1, <2>3, <2>4
<1>3. N = Nat
  <2> HIDE DEF N
  <2>1. N \subseteq Nat
    BY DEF N
  <2> QED BY <1>1, <1>2, <2>1, NatSetInduction
<1> SUFFICES ASSUME NEW s \in Seq(Token) PROVE s \in M
  OBVIOUS
<1>4. Len(s) \in N
  BY <1>3, LenProperties
<1> QED BY <1>4

LEMMA KeptType ==
  ASSUME NEW kinds
  PROVE  \A s \in Seq(Token) : Kept(s, kinds) \in Seq(Token)
<1> DEFINE M == {s \in Seq(Token) : Kept(s, kinds) \in Seq(Token)}
<1>1. <<>> \in M
  BY EmptyType, KeptEmpty
<1>2. \A s \in Seq(Token), t \in Token : s \in M => Append(s, t) \in M
  BY KeptAppend, AppendProperties
<1> HIDE DEF M
<1>3. Seq(Token) \subseteq M
  BY <1>1, <1>2, SeqSetInduction
<1> QED BY <1>3 DEF M

LEMMA KeptConcat ==
  ASSUME NEW a \in Seq(Token), NEW kinds
  PROVE  \A b \in Seq(Token) : Kept(a \o b, kinds) = Kept(a, kinds) \o Kept(b, kinds)
<1> DEFINE M == {b \in Seq(Token) : Kept(a \o b, kinds) = Kept(a, kinds) \o Kept(b, kinds)}
<1>0. Kept(a, kinds) \in Seq(Token)
  BY KeptType
<1>1. <<>> \in M
  <2>1. a \o <<>> = a /\ Kept(a, kinds) \o <<>> = Kept(a, kinds)
    BY <1>0, ConcatEmptySeq
  <2> QED BY <2>1, EmptyType, KeptEmpty
<1>2. \A b \in Seq(Token), t \in Token : b \in M => Append(b, t) \in M
  <2> SUFFICES ASSUME NEW b \in Seq(Token), NEW t \in Token, b \in M
               PROVE  Append(b, t) \in M
    OBVIOUS
  <2>1. Append(b, t) \in Seq(Token) /\ a \o b \in Seq(Token) /\ Kept(b, kinds) \in Seq(Token)
    BY AppendProperties, ConcatProperties, KeptType
  <2>2. \A c \in Seq(Token), d \in Seq(Token) : c \o Append(d, t) = Append(c \o d, t)
    <3> TAKE c \in Seq(Token), d \in Seq(Token)
    <3>1. <<t>> \in Seq(Token)
      BY SingleType
    <3>2. Append(d, t) = d \o <<t>> /\ Append(c \o d, t) = (c \o d) \o <<t>> /\ c \o d \in Seq(Token)
      BY AppendIsConcat, ConcatProperties
    <3> QED BY <3>1, <3>2, ConcatAssociative
  <2>3. a \o Append(b, t) = Append(a \o b, t)
    BY <2>2
  <2>4. Kept(a \o Append(b, t), kinds) =
          IF t.k \in kinds THEN Append(Kept(a \o b, kinds), t) ELSE Kept(a \o b, kinds)
    <3> DEFINE c == a \o b
    <3>1. c \in Seq(Token)
      BY <2>1
    <3> HIDE DEF c
    <3>2. Kept(Append(c, t), kinds) = IF t.k \in kinds THEN Append(Kept(c, kinds), t) ELSE Kept(c, kinds)
      BY <3>1, KeptAppend
    <3> QED BY <2>3, <3>2 DEF c
  <2>5. Kept(Append(b, t), kinds) = IF t.k \in kinds THEN Append(Kept(b, kinds), t) ELSE Kept(b, kinds)
    BY KeptAppend
  <2>6. Kept(a, kinds) \o Append(Kept(b, kinds), t) = Append(Kept(a, kinds) \o Kept(b, kinds), t)
    BY <1>0, <2>1, <2>2
  <2>7. Kept(a \o b, kinds) = Kept(a, kinds) \o Kept(b, kinds)
    OBVIOUS
  <2>8. Kept(a \o Append(b, t), kinds) = Kept(a, kinds) \o Kept(Append(b, t), kinds)
    BY <2>4, <2>5, <2>6, <2>7
  <2> QED BY <2>1, <2>8
<1> HIDE DEF M
<1>3. Seq(Token) \subseteq M
  BY <1>1, <1>2, SeqSetInduction
<1> QED BY <1>3 DEF M

-----------------------------------------------------------------------------
(* The tokens of a sequence, and what Kept does with them. *)

Toks(s) == {s[i] : i \in 1 .. Len(s)}

LEMMA ToksType ==
  ASSUME NEW s \in Seq(Token)
  PROVE  Toks(s) \subseteq Token
BY ElementOfSeq DEF Toks

LEMMA ToksEmpty == Toks(<<>>) = {}
BY EmptyType DEF Toks

LEMMA ToksAppend ==
  ASSUME NEW s \in Seq(Token), NEW t \in Token
  PROVE  Toks(Append(s, t)) = Toks(s) \cup {t}
<1> DEFINE a == Append(s, t)
           n == Len(s)
<1>1. /\ n \in Nat /\ Len(a) = n + 1 /\ a[n + 1] = t /\ \A i \in 1 .. n : a[i] = s[i]
  BY AppendProperties, LenProperties
<1> HIDE DEF a, n
<1>2. 1 .. (n + 1) = (1 .. n) \cup {n + 1}
  BY <1>1
<1>3. {a[i] : i \in 1 .. (n + 1)} = {s[i] : i \in 1 .. n} \cup {t}
  <2>1. \A x : x \in {a[i] : i \in 1 .. (n + 1)} => x \in {s[i] : i \in 1 .. n} \cup {t}
    BY <1>1, <1>2
  <2>2. \A x : x \in {s[i] : i \in 1 .. n} \cup {t} => x \in {a[i] : i \in 1 .. (n + 1)}
    BY <1>1, <1>2
  <2> QED BY <2>1, <2>2
<1> QED BY <1>1, <1>3 DEF Toks, a, n

LEMMA ToksConcat ==
  ASSUME NEW a \in Seq(Token), NEW b \in Seq(Token)
  PROVE  Toks(a \o b) = Toks(a) \cup Toks(b)
<1> DEFINE c == a \o b
           m == Len(a)
           n == Len(b)
<1>1. /\ m \in Nat /\ n \in Nat /\ Len(c) = m + n
      /\ \A i \in 1 .. (m + n) : c[i] = IF i <= m THEN a[i] ELSE b[i - m]
  BY ConcatProperties, LenProperties
<1> HIDE DEF c, m, n
<1>2. \A x : x \in {c[i] : i \in 1 .. (m + n)} =>
               x \in {a[i] : i \in 1 .. m} \cup {b[i] : i \in 1 .. n}
  <2> SUFFICES ASSUME NEW i \in 1 .. (m + n)
               PROVE  c[i] \in {a[j] : j \in 1 .. m} \cup {b[j] : j \in 1 .. n}
    OBVIOUS
  <2>1. CASE i <= m
    <3>1. i \in 1 .. m /\ c[i] = a[i]
      BY <1>1, <2>1
    <3> QED BY <3>1
  <2>2. CASE ~(i <= m)
    <3>1. i - m \in 1 .. n /\ c[i] = b[i - m]
      BY <1>1, <2>2
    <3> QED BY <3>1
  <2> QED BY <2>1, <2>2
<1>3. \A x : x \in {a[i] : i \in 1 .. m} \cup {b[i] : i \in 1 .. n} =>
               x \in {c[i] : i \in 1 .. (m + n)}
  <2>1. \A i \in 1 .. m : i \in 1 .. (m + n) /\ c[i] = a[i]
    BY <1>1
  <2>2. \A i \in 1 .. n : i + m \in 1 .. (m + n) /\ c[i + m] = b[i]
    <3> TAKE i \in 1 .. n
    <3>1. i + m \in 1 .. (m + n) /\ ~(i + m <= m) /\ (i + m) - m = i
      BY <1>1
    <3> QED BY <1>1, <3>1
  <2> QED BY <2>1, <2>2
<1> QED BY <1>1, <1>2, <1>3 DEF Toks, c, m, n

LEMMA ToksKept ==
  ASSUME NEW kinds
  PROVE  \A s \in Seq(Token) : Toks(Kept(s, kinds)) = {t \in Toks(s) : t.k \in kinds}
<1> DEFINE M == {s \in Seq(Token) : Toks(Kept(s, kinds)) = {t \in Toks(s) : t.k \in kinds}}
<1>1. <<>> \in M
  <2>1. Toks(Kept(<<>>, kinds)) = {} /\ {t \in Toks(<<>>) : t.k \in kinds} = {}
    BY KeptEmpty, ToksEmpty
  <2> QED BY <2>1, EmptyType
<1>2. \A s \in Seq(Token), t \in Token : s \in M => Append(s, t) \in M
  <2> SUFFICES ASSUME NEW s \in Seq(Token), NEW t \in Token, s \in M
               PROVE  Append(s, t) \in M
    OBVIOUS
  <2>1. Append(s, t) \in Seq(Token) /\ Kept(s, kinds) \in Seq(Token)
    BY AppendProperties, KeptType
  <2>2. Toks(Append(s, t)) = Toks(s) \cup {t}
    BY ToksAppend
  <2>3. CASE t.k \in kinds
    <3>1. Toks(Kept(Append(s, t), kinds)) = Toks(Kept(s, kinds)) \cup {t}
      BY <2>1, <2>3, KeptAppend, ToksAppend
    <3> QED BY <2>1, <2>2, <2>3, <3>1
  <2>4. CASE t.k \notin kinds
    <3>1. Kept(Append(s, t), kinds) = Kept(s, kinds)
      BY <2>4, KeptAppend
    <3> QED BY <2>1, <2>2, <2>4, <3>1
  <2> QED BY <2>3, <2>4
<1> HIDE DEF M
<1>3. Seq(Token) \subseteq M
  BY <1>1, <1>2, SeqSetInduction
<1> QED BY <1>3 DEF M

\* Of tokens of other kinds nothing is kept.
LEMMA KeptNone ==
  ASSUME NEW s \in Seq(Token), NEW kinds, \A t \in Toks(s) : t.k \notin kinds
  PROVE  Kept(s, kinds) = <<>>
<1> DEFINE r == Kept(s, kinds)
<1>1. r \in Seq(Token) /\ Toks(r) = {}
  BY KeptType, ToksKept
<1> HIDE DEF r
<1>2. Len(r) \in Nat /\ ~(1 \in 1 .. Len(r))
  <2>1. 1 \in 1 .. Len(r) => r[1] \in Toks(r)
    BY DEF Toks
  <2> QED BY <1>1, <2>1, LenProperties
<1>3. Len(r) = 0
  BY <1>2
<1>4. r = <<>>
  BY <1>1, <1>3, EmptySeq
<1> QED BY <1>4 DEF r

\* A kind that is kept twice is kept once.
LEMMA KeptOfKept ==
  ASSUME NEW wide, NEW kinds, kinds \subseteq wide
  PROVE  \A s \in Seq(Token) : Kept(Kept(s, wide), kinds) = Kept(s, kinds)
<1> DEFINE M == {s \in Seq(Token) : Kept(Kept(s, wide), kinds) = Kept(s, kinds)}
<1>1. <<>> \in M
  BY KeptEmpty, EmptyType
<1>2. \A s \in Seq(Token), t \in Token : s \in M => Append(s, t) \in M
  <2> SUFFICES ASSUME NEW s \in Seq(Token), NEW t \in Token, s \in M
               PROVE  Append(s, t) \in M
    OBVIOUS
  <2> DEFINE r == Kept(s, wide)
  <2>1. Append(s, t) \in Seq(Token) /\ r \in Seq(Token)
    BY AppendProperties, KeptType
  <2>2. Kept(Append(s, t), kinds) = IF t.k \in kinds THEN Append(Kept(s, kinds), t) ELSE Kept(s, kinds)
    BY KeptAppend
  <2>3. Kept(Append(s, t), wide) = IF t.k \in wide THEN Append(r, t) ELSE r
    BY KeptAppend
  <2>4. Kept(r, kinds) = Kept(s, kinds)
    OBVIOUS
  <2> HIDE DEF r
  <2>5. Kept(Append(r, t), kinds) = IF t.k \in kinds THEN Append(Kept(r, kinds), t) ELSE Kept(r, kinds)
    BY <2>1, KeptAppend
  <2>6. Kept(Kept(Append(s, t), wide), kinds) = Kept(Append(s, t), kinds)
    BY <2>2, <2>3, <2>4, <2>5
  <2> QED BY <2>1, <2>6
<1> HIDE DEF M
<1>3. Seq(Token) \subseteq M
  BY <1>1, <1>2, SeqSetInduction
<1> QED BY <1>3 DEF M

\* Of tokens of the kinds themselves all is kept.
LEMMA KeptAll ==
  ASSUME NEW kinds
  PROVE  \A s \in Seq(Token) : (\A t \in Toks(s) : t.k \in kinds) => Kept(s, kinds) = s
<1> DEFINE M == {s \in Seq(Token) : (\A t \in Toks(s) : t.k \in kinds) => Kept(s, kinds) = s}
<1>1. <<>> \in M
  BY KeptEmpty, EmptyType
<1>2. \A s \in Seq(Token), t \in Token : s \in M => Append(s, t) \in M
  BY AppendProperties, KeptAppend, ToksAppend
<1> HIDE DEF M
<1>3. Seq(Token) \subseteq M
  BY <1>1, <1>2, SeqSetInduction
<1> QED BY <1>3 DEF M

-----------------------------------------------------------------------------
(* What is on its way to the host, oldest first. *)

Held == (tx \o pkt) \o ring
Pipe == rx \o Held

Holds(s, kind) == \E t \in Toks(s) : t.k = kind

\* p may have lost tokens of l, and then it is shorter.
Covers(p, l) == p = l \/ Len(p) < Len(l)

LEMMA Joined ==
  \A a, b \in Seq(Token) :
    /\ a \o b \in Seq(Token) /\ Len(a \o b) = Len(a) + Len(b)
    /\ \A i \in 1 .. Len(a) + Len(b) : (a \o b)[i] = IF i <= Len(a) THEN a[i] ELSE b[i - Len(a)]
BY ConcatProperties

LEMMA Regrouped == \A a, b, c \in Seq(Token) : (a \o b) \o c = a \o (b \o c)
BY ConcatAssociative

\* Staging a packet and handing it over moves tokens on and loses none.
LEMMA SendMoves ==
  ASSUME NEW r \in Seq(Token), NEW avail \in Nat, avail <= Len(r),
         pkt \in Seq(Token), tx \in Seq(Token), SendFrom(r, avail)
  PROVE  Held' = (tx \o pkt) \o r
<1> DEFINE full   == pkt = <<>> /\ avail >= Mps
           staged == IF full THEN SubSeq(r, 1, Mps) ELSE pkt
           rest   == IF full THEN SubSeq(r, Mps + 1, Len(r)) ELSE r
<1>0. Mps \in Nat \ {0} /\ Len(r) \in Nat
  BY SizesAssumption, LenProperties
<1>1. /\ ring' = rest
      /\ tx' = (IF staged # <<>> /\ tx = <<>> THEN staged ELSE tx)
      /\ pkt' = (IF staged # <<>> /\ tx = <<>> THEN <<>> ELSE staged)
  BY DEF SendFrom
<1>2. staged \in Seq(Token) /\ rest \in Seq(Token) /\ staged \o rest = pkt \o r
  <2>1. CASE full
    <3>1. Mps <= Len(r) /\ 1 \in 1 .. Len(r) + 1 /\ Mps \in 1 - 1 .. Len(r) /\ Len(r) \in Mps .. Len(r)
      BY <1>0, <2>1
    <3>2. SubSeq(r, 1, Mps) \o SubSeq(r, Mps + 1, Len(r)) = SubSeq(r, 1, Len(r))
      BY <1>0, <3>1, ConcatAdjacentSubSeq
    <3>3. SubSeq(r, 1, Len(r)) = r /\ pkt \o r = r
      BY <2>1, SubSeqFull, ConcatEmptySeq
    <3>4. \A i \in 1 .. Len(r) : r[i] \in Token
      BY ElementOfSeq
    <3>5. SubSeq(r, 1, Mps) \in Seq(Token) /\ SubSeq(r, Mps + 1, Len(r)) \in Seq(Token)
      BY <1>0, <3>1, <3>4, SubSeqProperties
    <3> QED BY <2>1, <3>2, <3>3, <3>5
  <2>2. CASE ~full
    BY <2>2
  <2> QED BY <2>1, <2>2
<1> HIDE DEF staged, rest
<1>3. tx' \o pkt' = tx \o staged
  <2>1. CASE staged # <<>> /\ tx = <<>>
    BY <1>1, <1>2, <2>1, ConcatEmptySeq
  <2>2. CASE ~(staged # <<>> /\ tx = <<>>)
    BY <1>1, <2>2
  <2> QED BY <2>1, <2>2
<1>4. (tx \o staged) \o rest = tx \o (staged \o rest)
  BY <1>2, Regrouped
<1>5. (tx \o pkt) \o r = tx \o (pkt \o r)
  BY Regrouped
<1> QED BY <1>1, <1>2, <1>3, <1>4, <1>5 DEF Held

\* What is written into a full ring lands on the oldest token: the transitions are
\* the same, or one is gone.
LEMMA PutCovers ==
  ASSUME NEW r \in Seq(Token), NEW x \in Token, x.k # "flux", Len(r) <= Cap
  PROVE  /\ Put(r, x) \in Seq(Token)
         /\ Covers(FluxOf(Put(r, x)), FluxOf(r))
         /\ Toks(Put(r, x)) \subseteq Toks(r) \cup {x} /\ x \in Toks(Put(r, x))
<1>0. \A s \in Seq(Token) : FluxOf(Append(s, x)) = FluxOf(s)
  BY KeptAppend DEF FluxOf
<1>1. CASE Len(r) < Cap
  <2>1. Put(r, x) = Append(r, x)
    BY <1>1 DEF Put
  <2> QED BY <1>0, <2>1, AppendProperties, ToksAppend DEF Covers
<1>2. CASE ~(Len(r) < Cap)
  <2>0. Cap \in Nat \ {0} /\ Len(r) \in Nat
    BY SizesAssumption, LenProperties
  <2>1. Len(r) = Cap /\ 1 \in 1 .. Len(r) /\ Len(r) + 1 - Cap = 1
    BY <1>2, <2>0
  <2> DEFINE s == [r EXCEPT ![1] = x]
             rest == SubSeq(r, 2, Len(r))
             old == r[1]
  <2>2. Put(r, x) = Append(s, x)
    BY <1>2, <2>1 DEF Put
  <2>3. /\ s \in Seq(Token) /\ Len(s) = Len(r)
        /\ \A j \in 1 .. Len(r) : s[j] = IF j = 1 THEN x ELSE r[j]
    BY <2>1, ExceptSeq
  <2>4. /\ rest \in Seq(Token) /\ Len(rest) = Len(r) - 1
        /\ \A j \in 1 .. Len(r) - 1 : rest[j] = r[j + 1]
    <3>1. \A i \in 2 .. Len(r) : r[i] \in Token
      BY <2>0, ElementOfSeq
    <3>2. 2 \in Int /\ Len(r) \in Int
      BY <2>0
    <3>3. /\ SubSeq(r, 2, Len(r)) \in Seq(Token)
          /\ Len(SubSeq(r, 2, Len(r))) = IF 2 <= Len(r) THEN Len(r) - 2 + 1 ELSE 0
          /\ \A i \in 1 .. Len(r) - 2 + 1 : SubSeq(r, 2, Len(r))[i] = r[2 + i - 1]
      BY <3>1, <3>2, SubSeqProperties
    <3> HIDE DEF rest
    <3>4. /\ rest \in Seq(Token)
          /\ Len(rest) = IF 2 <= Len(r) THEN Len(r) - 2 + 1 ELSE 0
          /\ \A i \in 1 .. Len(r) - 2 + 1 : rest[i] = r[2 + i - 1]
      BY <3>3 DEF rest
    <3> QED BY <2>0, <2>1, <3>4
  <2>5. old \in Token
    BY <2>1, ElementOfSeq
  <2> HIDE DEF s, rest, old
  <2>6. \A y \in Token : /\ <<y>> \o rest \in Seq(Token) /\ Len(<<y>> \o rest) = Len(r)
                         /\ \A j \in 1 .. Len(r) : (<<y>> \o rest)[j] = IF j = 1 THEN y ELSE rest[j - 1]
    <3> TAKE y \in Token
    <3> DEFINE one == <<y>>
    <3>1. one \in Seq(Token) /\ Len(one) = 1 /\ one[1] = y
      BY SingleType
    <3> HIDE DEF one
    <3>2. /\ one \o rest \in Seq(Token) /\ Len(one \o rest) = 1 + Len(rest)
          /\ \A j \in 1 .. 1 + Len(rest) :
               (one \o rest)[j] = IF j <= 1 THEN one[j] ELSE rest[j - 1]
      <4>1. /\ one \o rest \in Seq(Token) /\ Len(one \o rest) = Len(one) + Len(rest)
            /\ \A j \in 1 .. Len(one) + Len(rest) :
                 (one \o rest)[j] = IF j <= Len(one) THEN one[j] ELSE rest[j - Len(one)]
        BY <2>4, <3>1, Joined
      <4> QED BY <3>1, <4>1
    <3> QED BY <2>0, <2>1, <2>4, <3>1, <3>2 DEF one
  <2>7. r = <<old>> \o rest
    <3>1. \A j \in 1 .. Len(r) : r[j] = (<<old>> \o rest)[j]
      <4> TAKE j \in 1 .. Len(r)
      <4>1. CASE j = 1
        BY <2>5, <2>6, <4>1 DEF old
      <4>2. CASE j # 1
        <5>1. j - 1 \in 1 .. Len(r) - 1 /\ (j - 1) + 1 = j
          BY <2>0, <4>2
        <5> QED BY <2>4, <2>5, <2>6, <4>2, <5>1
      <4> QED BY <4>1, <4>2
    <3> QED BY <2>5, <2>6, <3>1, SeqEqual
  <2>8. s = <<x>> \o rest
    <3>1. \A j \in 1 .. Len(s) : s[j] = (<<x>> \o rest)[j]
      <4> TAKE j \in 1 .. Len(s)
      <4>1. CASE j = 1
        BY <2>3, <2>6, <4>1
      <4>2. CASE j # 1
        <5>1. j - 1 \in 1 .. Len(r) - 1 /\ (j - 1) + 1 = j /\ j \in 1 .. Len(r)
          BY <2>0, <2>3, <4>2
        <5> QED BY <2>3, <2>4, <2>6, <4>2, <5>1
      <4> QED BY <4>1, <4>2
    <3> QED BY <2>3, <2>6, <3>1, SeqEqual, SMTT(60)
  <2>9. \A y \in Token : /\ <<y>> \in Seq(Token) /\ Toks(<<y>>) = {y}
                         /\ FluxOf(<<y>>) = IF y.k = "flux" THEN <<y>> ELSE <<>>
    <3> TAKE y \in Token
    <3> DEFINE none == <<>>
    <3>1. Append(none, y) = <<y>> /\ <<y>> \in Seq(Token)
      BY SingleType
    <3>2. none \in Seq(Token) /\ Kept(none, {"flux"}) = none /\ Toks(none) = {}
      BY EmptyType, KeptEmpty, ToksEmpty
    <3> HIDE DEF none
    <3>3. Kept(Append(none, y), {"flux"}) = IF y.k \in {"flux"} THEN Append(none, y) ELSE none
      BY <3>2, KeptAppend
    <3>4. Toks(Append(none, y)) = {y}
      BY <3>2, ToksAppend
    <3>5. FluxOf(<<y>>) = IF y.k = "flux" THEN <<y>> ELSE <<>>
      BY <3>1, <3>3 DEF FluxOf, none
    <3> QED BY <3>1, <3>4, <3>5
  <2>10. FluxOf(r) = FluxOf(<<old>>) \o FluxOf(rest) /\ FluxOf(s) = FluxOf(<<x>>) \o FluxOf(rest)
    <3> DEFINE first == <<old>>
               new == <<x>>
    <3>1. first \in Seq(Token) /\ new \in Seq(Token) /\ r = first \o rest /\ s = new \o rest
      BY <2>5, <2>7, <2>8, <2>9
    <3> HIDE DEF first, new
    <3>2. FluxOf(first \o rest) = FluxOf(first) \o FluxOf(rest)
      BY <2>4, <3>1, KeptConcat DEF FluxOf
    <3>3. FluxOf(new \o rest) = FluxOf(new) \o FluxOf(rest)
      BY <2>4, <3>1, KeptConcat DEF FluxOf
    <3> QED BY <3>1, <3>2, <3>3 DEF first, new
  <2>11. FluxOf(rest) \in Seq(Token)
    BY <2>4, KeptType DEF FluxOf
  <2>12. Covers(FluxOf(s), FluxOf(r))
    <3>1. FluxOf(s) = FluxOf(rest)
      BY <2>9, <2>10, <2>11, ConcatEmptySeq
    <3>2. CASE old.k = "flux"
      <4>1. FluxOf(r) = <<old>> \o FluxOf(rest) /\ Len(<<old>>) = 1
        BY <2>5, <2>9, <2>10, <3>2
      <4>2. Len(FluxOf(r)) = 1 + Len(FluxOf(rest)) /\ Len(FluxOf(rest)) \in Nat
        BY <2>5, <2>9, <2>11, <4>1, ConcatProperties, LenProperties
      <4> QED BY <3>1, <4>2 DEF Covers
    <3>3. CASE old.k # "flux"
      <4>1. FluxOf(r) = FluxOf(rest)
        BY <2>5, <2>9, <2>10, <2>11, <3>3, ConcatEmptySeq
      <4> QED BY <3>1, <4>1 DEF Covers
    <3> QED BY <3>2, <3>3
  <2>13. Toks(r) = {old} \cup Toks(rest) /\ Toks(s) = {x} \cup Toks(rest)
    <3> DEFINE first == <<old>>
               new == <<x>>
    <3>1. /\ first \in Seq(Token) /\ new \in Seq(Token) /\ r = first \o rest /\ s = new \o rest
          /\ Toks(first) = {old} /\ Toks(new) = {x}
      BY <2>5, <2>7, <2>8, <2>9
    <3> HIDE DEF first, new
    <3> QED BY <2>4, <3>1, ToksConcat
  <2>14. /\ Append(s, x) \in Seq(Token) /\ Toks(Append(s, x)) = Toks(s) \cup {x}
         /\ FluxOf(Append(s, x)) = FluxOf(s)
    BY <1>0, <2>3, AppendProperties, ToksAppend
  <2> QED BY <2>2, <2>12, <2>13, <2>14
<1> QED BY <1>1, <1>2

LEMMA ToksJoined == \A a, b \in Seq(Token) : Toks(a \o b) = Toks(a) \cup Toks(b)
BY ToksConcat

LEMMA JoinedToNone == \A s \in Seq(Token) : s \o <<>> = s /\ <<>> \o s = s
BY ConcatEmptySeq

LEMMA FluxJoined ==
  \A a, b \in Seq(Token) :
    /\ FluxOf(a) \in Seq(Token) /\ Len(FluxOf(a)) \in Nat
    /\ FluxOf(a \o b) = FluxOf(a) \o FluxOf(b)
    /\ Len(FluxOf(a \o b)) = Len(FluxOf(a)) + Len(FluxOf(b))
<1> TAKE a, b \in Seq(Token)
<1>1. FluxOf(a) \in Seq(Token) /\ FluxOf(b) \in Seq(Token)
  BY KeptType DEF FluxOf
<1>2. FluxOf(a \o b) = FluxOf(a) \o FluxOf(b)
  BY KeptConcat DEF FluxOf
<1> QED BY <1>1, <1>2, Joined, LenProperties

LEMMA FluxOfNone == FluxOf(<<>>) = <<>>
BY KeptEmpty DEF FluxOf

\* The histories keep the transitions, and of the other tokens END and the NUL.
LEMMA StreamKeeps ==
  ASSUME NEW s \in Seq(Token)
  PROVE  /\ Stream(s) \in Seq(Token) /\ FluxOf(Stream(s)) = FluxOf(s)
         /\ Toks(Stream(s)) = {t \in Toks(s) : t.k \in {"flux", "end", "nul"}}
<1> DEFINE wide == {"flux", "end", "nul"}
           kinds == {"flux"}
<1>1. Kept(s, wide) \in Seq(Token) /\ Toks(Kept(s, wide)) = {t \in Toks(s) : t.k \in wide}
  BY KeptType, ToksKept
<1>2. Kept(Kept(s, wide), kinds) = Kept(s, kinds)
  <2>1. kinds \subseteq wide
    OBVIOUS
  <2> HIDE DEF wide, kinds
  <2> QED BY <2>1, KeptOfKept
<1> QED BY <1>1, <1>2 DEF Stream, FluxOf

LEMMA CoversLaws ==
  \A p, q, l, e \in Seq(Token) :
    /\ Covers(p, p) /\ Covers(p, p \o e)
    /\ Covers(p, q) /\ Covers(q, l) => Covers(p, l)
    /\ Covers(p, l) => Covers(p \o e, l \o e) /\ Covers(e \o p, e \o l) /\ Covers(p, l \o e)
<1> TAKE p, q, l, e \in Seq(Token)
<1>1. Len(p) \in Nat /\ Len(q) \in Nat /\ Len(l) \in Nat /\ Len(e) \in Nat
  BY LenProperties
<1>2. Len(e) = 0 => e = <<>>
  BY EmptySeq
<1>3. \A s \in Seq(Token) : Covers(s, s \o e)
  <2> TAKE s \in Seq(Token)
  <2>1. Len(s \o e) = Len(s) + Len(e) /\ Len(s) \in Nat
    BY Joined, LenProperties
  <2>2. CASE Len(e) = 0
    BY <1>2, <2>2, ConcatEmptySeq DEF Covers
  <2>3. CASE Len(e) # 0
    BY <1>1, <2>1, <2>3 DEF Covers
  <2> QED BY <2>2, <2>3
<1>4. ASSUME Covers(p, q), Covers(q, l)
      PROVE  Covers(p, l)
  BY <1>1, <1>4 DEF Covers
<1>5. ASSUME Covers(p, l)
      PROVE  Covers(p \o e, l \o e) /\ Covers(e \o p, e \o l) /\ Covers(p, l \o e)
  <2>1. /\ Len(p \o e) = Len(p) + Len(e) /\ Len(l \o e) = Len(l) + Len(e)
        /\ Len(e \o p) = Len(e) + Len(p) /\ Len(e \o l) = Len(e) + Len(l)
    BY Joined
  <2>2. CASE p = l
    BY <1>3, <2>2 DEF Covers
  <2>3. CASE Len(p) < Len(l)
    BY <1>1, <2>1, <2>3 DEF Covers
  <2> QED BY <1>5, <2>2, <2>3 DEF Covers
<1> QED BY <1>3, <1>4, <1>5 DEF Covers

\* A pump encodes the transitions of the DMA ring and no END.
LEMMA EncodedFlux ==
  ASSUME fluxCount \in Nat, pendFlux \in Nat, NEW filler
  PROVE  /\ Encoded(filler) \in Seq(Token)
         /\ Len(FluxOf(Encoded(filler))) = pendFlux
         /\ \A t \in Toks(Encoded(filler)) : t.k \notin {"end", "nul"}
<1> DEFINE start == IF needStart THEN <<Mark("start")>> ELSE <<>>
           index == IF pendIndex THEN <<Mark("segment")>> ELSE <<>>
           flux  == [i \in 1 .. pendFlux |-> Flux(fluxCount + i)]
           gap   == IF filler THEN <<Mark("gap")>> ELSE <<>>
<1>1. \A k \in {"start", "segment", "gap"} :
        /\ <<Mark(k)>> \in Seq(Token) /\ FluxOf(<<Mark(k)>>) = <<>>
        /\ \A t \in Toks(<<Mark(k)>>) : t.k \notin {"end", "nul"}
  <2> TAKE k \in {"start", "segment", "gap"}
  <2> DEFINE one == <<Mark(k)>>
  <2>1. Mark(k) \in Token /\ Mark(k).k = k
    BY TokenTypes DEF Marks, Mark
  <2>2. one \in Seq(Token) /\ Len(one) = 1 /\ one[1] = Mark(k)
    BY <2>1, SingleType
  <2> HIDE DEF one
  <2>3. \A t \in Toks(one) : t.k = k
    BY <2>1, <2>2 DEF Toks
  <2>4. FluxOf(one) = <<>>
    BY <2>2, <2>3, KeptNone DEF FluxOf
  <2> QED BY <2>2, <2>3, <2>4 DEF one
<1>2. /\ <<>> \in Seq(Token) /\ FluxOf(<<>>) = <<>>
      /\ \A t \in Toks(<<>>) : t.k \notin {"end", "nul"}
  BY EmptyType, FluxOfNone, ToksEmpty
<1>3. \A s \in {start, index, gap} :
        /\ s \in Seq(Token) /\ FluxOf(s) = <<>>
        /\ \A t \in Toks(s) : t.k \notin {"end", "nul"}
  BY <1>1, <1>2, Zenon
<1>4. /\ flux \in Seq(Token) /\ Len(flux) = pendFlux
      /\ \A t \in Toks(flux) : t.k = "flux"
  <2>1. \A i \in 1 .. pendFlux : Flux(fluxCount + i) \in Token /\ Flux(fluxCount + i).k = "flux"
    BY TokenTypes DEF Flux
  <2>2. flux \in Seq(Token) /\ Len(flux) = pendFlux
    BY <2>1, IsASeq
  <2>3. \A i \in 1 .. pendFlux : flux[i].k = "flux"
    BY <2>1
  <2> HIDE DEF flux
  <2> QED BY <2>2, <2>3 DEF Toks
<1> HIDE DEF start, index, flux, gap
<1>5. FluxOf(flux) = flux
  BY <1>4, KeptAll DEF FluxOf
<1>6. /\ (start \o index) \o flux \in Seq(Token) /\ start \o index \in Seq(Token)
      /\ ((start \o index) \o flux) \o gap \in Seq(Token)
  BY <1>3, <1>4, Joined
<1>7. FluxOf(((start \o index) \o flux) \o gap) = flux
  <2>1. FluxOf(start \o index) = FluxOf(start) \o FluxOf(index)
    BY <1>3, FluxJoined
  <2>2. FluxOf(start \o index) = <<>>
    BY <1>3, <2>1, EmptyType, JoinedToNone
  <2>3. FluxOf((start \o index) \o flux) = FluxOf(start \o index) \o FluxOf(flux)
    BY <1>4, <1>6, FluxJoined
  <2>4. FluxOf((start \o index) \o flux) = flux
    BY <1>4, <1>5, <2>2, <2>3, JoinedToNone
  <2>5. FluxOf(((start \o index) \o flux) \o gap) = FluxOf((start \o index) \o flux) \o FluxOf(gap)
    BY <1>3, <1>6, FluxJoined
  <2> QED BY <1>3, <1>4, <2>4, <2>5, JoinedToNone
<1>8. Toks(((start \o index) \o flux) \o gap) = ((Toks(start) \cup Toks(index)) \cup Toks(flux)) \cup Toks(gap)
  <2>1. Toks(start \o index) = Toks(start) \cup Toks(index)
    BY <1>3, ToksJoined
  <2>2. Toks((start \o index) \o flux) = Toks(start \o index) \cup Toks(flux)
    BY <1>4, <1>6, ToksJoined
  <2>3. Toks(((start \o index) \o flux) \o gap) = Toks((start \o index) \o flux) \cup Toks(gap)
    BY <1>3, <1>6, ToksJoined
  <2> QED BY <2>1, <2>2, <2>3
<1>9. Encoded(filler) = ((start \o index) \o flux) \o gap
  BY DEF Encoded, start, index, flux, gap
<1> QED BY <1>3, <1>4, <1>6, <1>7, <1>8, <1>9

-----------------------------------------------------------------------------
(* What a step does to the stream on its way. *)

\* Between two commands nothing waits in the ring or as a staged packet.
Idle == floppyState \in {"inactive", "command_wait", "zlp"} => pkt = <<>> /\ ring = <<>>

LEMMA IdleStep ==
  ASSUME Idle, [Next]_vars
  PROVE  Idle'
<1> USE DEF Idle
<1>1. CASE Process
  BY <1>1
  DEF Process, WatchdogFires, Configure, ReadPump, PumpOverflow, PumpFinish, PumpContinue,
      Pumping, Drain, DrainLast, SendZlp
<1>2. CASE RunCommand
  BY <1>2
  DEF RunCommand, CmdQuery, CmdPulses, CmdSelect, CmdCapture, ReadPrep, Answer
<1>3. CASE Host \/ Bus
  BY <1>3
  DEF Host, HostSends, HostReads, ClearComms, Bus, SetConfiguration, UsbReset, Configure
<1>4. CASE Drive \/ Tick \/ UNCHANGED vars
  BY <1>4
  DEF Drive, DriveFlux, DriveIndex, DriveReachesData, DriveHalts, Tick, vars, usbVars
<1> QED BY <1>1, <1>2, <1>3, <1>4 DEF Next

LEMMA IdleAlways == Spec => []Idle
<1>1. Init => Idle
  BY DEF Init, Idle
<1> QED BY <1>1, IdleStep, PTL DEF Spec

\* The histories hold tokens.
Recorded == rx \in Seq(Token) /\ log \in Seq(Token)

LEMMA PumpedEnd ==
  ASSUME Typed
  PROVE  EndMark(FluxCountNow, EndReason) \in Token
<1>1. FluxCountNow \in Nat
  BY TypedParts DEF FluxCountNow, CountsOK
<1>2. EndReason \in Reasons
  BY DEF EndReason, MotionEnd, Reasons
<1> QED BY <1>1, <1>2, TokenTypes

\* What a pump adds to the history.
LEMMA PumpLogs ==
  ASSUME Typed, NEW filler
  PROVE  Stream(Encoded(filler)) \in Seq(Token) /\ Encoded(filler) \in Seq(Token)
<1>1. Encoded(filler) \in Seq(Token)
  BY TypedParts, EncodedType DEF CountsOK
<1> QED BY <1>1, StreamKeeps

LEMMA RecordedStep ==
  ASSUME Typed, Recorded, [Next]_vars
  PROVE  Recorded'
<1> USE DEF Recorded
<1>1. CASE rx' = rx /\ log' = log
  BY <1>1
<1>2. CASE ReadPump
  <2> PICK filler \in BOOLEAN :
             PumpOverflow(filler) \/ PumpFinish(filler) \/ PumpContinue(filler)
    BY <1>2 DEF ReadPump
  <2> DEFINE e == Stream(Encoded(filler))
             end == EndMark(FluxCountNow, EndReason)
             last == <<end>>
  <2>1. e \in Seq(Token) /\ last \in Seq(Token)
    BY PumpLogs, PumpedEnd, SingleType
  <2>2. rx' = rx /\ log' \in {log \o e, (log \o e) \o last}
    <3>1. CASE PumpOverflow(filler)
      BY <3>1 DEF PumpOverflow, Pumping
    <3>2. CASE PumpFinish(filler)
      BY <3>2 DEF PumpFinish, Pumping
    <3>3. CASE PumpContinue(filler)
      BY <3>3 DEF PumpContinue, Pumping
    <3> QED BY <3>1, <3>2, <3>3
  <2> HIDE DEF e, last
  <2>3. log \o e \in Seq(Token)
    BY <2>1, Joined
  <2>4. (log \o e) \o last \in Seq(Token)
    BY <2>1, <2>3, Joined
  <2> QED BY <2>2, <2>3, <2>4
<1>3. CASE CmdCapture
  BY <1>3, EmptyType DEF CmdCapture
<1>4. CASE HostReads
  <2>1. Stream(tx) \in Seq(Token)
    BY TypedParts, StreamKeeps
  <2> QED BY <1>4, <2>1, Joined DEF HostReads
<1>5. CASE Process
  BY <1>1, <1>2, <1>5 DEF Process, WatchdogFires, Configure, Drain, DrainLast, SendZlp
<1>6. CASE RunCommand
  BY <1>1, <1>3, <1>6 DEF RunCommand, CmdQuery, CmdPulses, CmdSelect
<1>7. CASE Host \/ Bus
  BY <1>1, <1>4, <1>7
  DEF Host, HostSends, ClearComms, Bus, SetConfiguration, UsbReset, Configure
<1>8. CASE Drive \/ Tick \/ UNCHANGED vars
  BY <1>1, <1>8
  DEF Drive, DriveFlux, DriveIndex, DriveReachesData, DriveHalts, Tick, vars
<1> QED BY <1>5, <1>6, <1>7, <1>8 DEF Next

\* What the steps below start from.
Known == Typed /\ Owns /\ Idle /\ Recorded

LEMMA KnownAlways == Spec => []Known
<1>1. Spec => []Typed
  BY TypesAndBounds, PTL DEF Typed
<1>2. Init => Recorded
  BY EmptyType DEF Init, Recorded
<1> QED BY <1>1, <1>2, OwnsAlways, IdleAlways, RecordedStep, PTL DEF Spec, Known

\* The ways in which a step that logs nothing touches what is on its way.
Same     == rx' = rx /\ Held' = Held /\ active' = active /\ fluxCount' = fluxCount
Cut      == rx' = rx /\ Held' \in {tx, <<>>} /\ active' = FALSE
Adds(k)  == /\ rx' = rx /\ Held = tx /\ tx = <<>> /\ Held' = <<Mark(k)>>
            /\ active' = active /\ fluxCount' = fluxCount
Quiet    == log' = log /\ (Same \/ Cut \/ Adds("ack") \/ Adds("zlp"))

LEMMA HeldOfIdle == ASSUME Known, floppyState \in {"inactive", "command_wait", "zlp"} PROVE Held = tx
<1>1. pkt = <<>> /\ ring = <<>> /\ tx \in Seq(Token)
  BY TypedParts DEF Known, Idle
<1> QED BY <1>1, JoinedToNone DEF Held

LEMMA ConfigureCuts ==
  ASSUME Known, Configure, tx' \in {tx, <<>>}
  PROVE  rx' = rx /\ log' = log /\ Held' = tx' /\ active' = FALSE
<1>1. rx' = rx /\ log' = log /\ active' = FALSE /\ pkt' = <<>> /\ ring' = <<>>
  BY DEF Configure, AbortSilent, StopCapture
<1>2. tx' \in Seq(Token)
  BY TypedParts, EmptyType DEF Known
<1> QED BY <1>1, <1>2, JoinedToNone DEF Held

LEMMA Steps ==
  ASSUME Known, [Next]_vars
  PROVE  Quiet \/ CmdCapture \/ ReadPump \/ DrainLast \/ HostReads
<1>1. CASE WatchdogFires \/ ClearComms \/ SetConfiguration
  <2>1. Configure /\ tx' \in {tx, <<>>}
    BY <1>1 DEF WatchdogFires, ClearComms, SetConfiguration
  <2> QED BY <2>1, ConfigureCuts DEF Quiet, Cut
<1>2. CASE UsbReset
  <2>1. /\ rx' = rx /\ log' = log /\ active' = FALSE
        /\ pkt' = <<>> /\ ring' = <<>> /\ tx' = <<>>
    BY <1>2 DEF UsbReset, AbortSilent, StopCapture
  <2>2. Held' = <<>>
    BY <2>1, EmptyType, JoinedToNone DEF Held
  <2> QED BY <2>1, <2>2 DEF Quiet, Cut
<1>3. CASE Drain
  <2>1. SendFrom(ring, Len(ring)) /\ UNCHANGED <<capVars, rx, log>>
    BY <1>3 DEF Drain
  <2>2. Held' = (tx \o pkt) \o ring
    BY <2>1, TypedParts, SendMoves DEF Known
  <2> QED BY <2>1, <2>2 DEF Quiet, Same, Held, capVars
<1>4. CASE CmdQuery \/ CmdPulses \/ CmdSelect
  <2>1. /\ floppyState = "command_wait" /\ tx = <<>> /\ tx' = <<Mark("ack")>> /\ ring' = <<>>
        /\ pkt' = pkt /\ UNCHANGED <<capVars, rx, log>>
    BY <1>4 DEF CmdQuery, CmdPulses, CmdSelect, Answer
  <2>2. pkt' = <<>> /\ Held = tx
    BY <2>1, HeldOfIdle DEF Known, Idle
  <2>3. tx' \in Seq(Token)
    BY <2>1, TokenTypes, SingleType DEF Marks
  <2>4. Held' = tx'
    BY <2>1, <2>2, <2>3, JoinedToNone DEF Held
  <2> QED BY <2>1, <2>2, <2>4 DEF Quiet, Adds, capVars
<1>5. CASE SendZlp
  <2>1. /\ floppyState = "zlp" /\ tx = <<>> /\ tx' = <<Mark("zlp")>> /\ ring' = ring
        /\ pkt' = pkt /\ UNCHANGED <<capVars, rx, log>>
    BY <1>5 DEF SendZlp
  <2>2. pkt' = <<>> /\ ring' = <<>> /\ Held = tx
    BY <2>1, HeldOfIdle DEF Known, Idle
  <2>3. tx' \in Seq(Token)
    BY <2>1, TokenTypes, SingleType DEF Marks
  <2>4. Held' = tx'
    BY <2>2, <2>3, JoinedToNone DEF Held
  <2> QED BY <2>1, <2>2, <2>4 DEF Quiet, Adds, capVars
<1>6. CASE (\E c \in Commands : HostSends(c)) \/ Drive \/ Tick \/ UNCHANGED vars
  <2>1. /\ ring' = ring /\ pkt' = pkt /\ tx' = tx /\ rx' = rx /\ log' = log
        /\ active' = active /\ fluxCount' = fluxCount
    BY <1>6
    DEF HostSends, Drive, DriveFlux, DriveIndex, DriveReachesData, DriveHalts, Tick,
        vars, usbVars, capVars
  <2> QED BY <2>1 DEF Quiet, Same, Held
<1> QED BY <1>1, <1>2, <1>3, <1>4, <1>5, <1>6 DEF Next, Process, RunCommand, Host, Bus

LEMMA MarkLaws ==
  \A k \in Marks : /\ <<Mark(k)>> \in Seq(Token) /\ FluxOf(<<Mark(k)>>) = <<>>
                   /\ Toks(<<Mark(k)>>) = {Mark(k)} /\ Mark(k).k = k
<1> TAKE k \in Marks
<1> DEFINE one == <<Mark(k)>>
<1>1. Mark(k) \in Token /\ Mark(k).k = k /\ k # "flux"
  BY TokenTypes DEF Marks, Mark
<1>2. one \in Seq(Token) /\ Len(one) = 1 /\ one[1] = Mark(k)
  BY <1>1, SingleType
<1> HIDE DEF one
<1>3. Toks(one) = {Mark(k)}
  BY <1>2 DEF Toks
<1>4. FluxOf(one) = <<>>
  BY <1>1, <1>2, <1>3, KeptNone DEF FluxOf
<1> QED BY <1>1, <1>2, <1>3, <1>4 DEF one

\* The stream on its way, by its parts; the same after the step.
LEMMA PartsLaws ==
  \A a, b, c, d \in Seq(Token) :
    LET h == (b \o c) \o d
    IN  /\ h \in Seq(Token) /\ a \o h \in Seq(Token)
        /\ FluxOf(a \o h) = FluxOf(a) \o FluxOf(h)
        /\ Toks(a \o h) = Toks(a) \cup Toks(h)
        /\ Toks(h) = Toks(b) \cup (Toks(c) \cup Toks(d))
        /\ h = b \o (c \o d) /\ c \o d \in Seq(Token)
<1> TAKE a, b, c, d \in Seq(Token)
<1> DEFINE h == (b \o c) \o d
<1>2. b \o c \in Seq(Token) /\ c \o d \in Seq(Token)
  BY Joined
<1>3. h \in Seq(Token)
  BY <1>2, Joined
<1>4. a \o h \in Seq(Token)
  BY <1>3, Joined
<1>6. h = b \o (c \o d)
  BY Regrouped
<1>7. Toks(h) = Toks(b) \cup (Toks(c) \cup Toks(d))
  <2> HIDE DEF h
  <2>1. Toks(c \o d) = Toks(c) \cup Toks(d)
    BY ToksJoined
  <2>2. Toks(b \o (c \o d)) = Toks(b) \cup Toks(c \o d)
    BY <1>2, ToksJoined
  <2> QED BY <1>6, <2>1, <2>2
<1> HIDE DEF h
<1>5. FluxOf(a \o h) = FluxOf(a) \o FluxOf(h) /\ Toks(a \o h) = Toks(a) \cup Toks(h)
  BY <1>3, FluxJoined, ToksJoined
<1>8. /\ h \in Seq(Token) /\ a \o h \in Seq(Token)
      /\ FluxOf(a \o h) = FluxOf(a) \o FluxOf(h)
      /\ Toks(a \o h) = Toks(a) \cup Toks(h)
      /\ Toks(h) = Toks(b) \cup (Toks(c) \cup Toks(d))
      /\ h = b \o (c \o d) /\ c \o d \in Seq(Token)
  BY <1>2, <1>3, <1>4, <1>5, <1>6, <1>7
<1> QED BY <1>8 DEF h

PipeIsJoined ==
  /\ Held \in Seq(Token) /\ Pipe \in Seq(Token)
  /\ FluxOf(Pipe) = FluxOf(rx) \o FluxOf(Held)
  /\ Toks(Pipe) = Toks(rx) \cup Toks(Held)
  /\ Toks(Held) = Toks(tx) \cup (Toks(pkt) \cup Toks(ring))
  /\ Held = tx \o (pkt \o ring) /\ pkt \o ring \in Seq(Token)

LEMMA PipeLaws ==
  /\ Known => PipeIsJoined
  /\ Known' => PipeIsJoined'
<1>1. ASSUME Known PROVE PipeIsJoined
  <2>1. /\ rx \in Seq(Token) /\ tx \in Seq(Token) /\ pkt \in Seq(Token) /\ ring \in Seq(Token)
    BY <1>1 DEF Known, Typed, TypeOK, BuffersOK, Recorded
  <2> QED BY <2>1, PartsLaws DEF Held, Pipe, PipeIsJoined
<1>2. ASSUME Known' PROVE PipeIsJoined'
  <2>1. /\ rx' \in Seq(Token) /\ tx' \in Seq(Token) /\ pkt' \in Seq(Token) /\ ring' \in Seq(Token)
    BY <1>2 DEF Known, Typed, TypeOK, BuffersOK, Recorded
  <2> QED BY <2>1, PartsLaws DEF Held, Pipe, PipeIsJoined
<1> QED BY <1>1, <1>2

\* The same, of the step as a whole: the stream stays, is cut, or gets a mark.
LEMMA QuietPipe ==
  ASSUME Known, Known', Quiet
  PROVE  /\ log' = log
         /\ \/ Pipe' = Pipe /\ active' = active /\ fluxCount' = fluxCount
            \/ active' = FALSE /\ \E e \in Seq(Token) : Pipe = Pipe' \o e
            \/ /\ \E k \in {"ack", "zlp"} : Pipe' = Pipe \o <<Mark(k)>>
               /\ active' = active /\ fluxCount' = fluxCount
<1>1. rx \in Seq(Token) /\ tx \in Seq(Token) /\ pkt \in Seq(Token)
  BY TypedParts DEF Known, Recorded
<1>2. CASE Same
  BY <1>2 DEF Same, Quiet, Pipe
<1>3. CASE Cut
  <2>1. rx' = rx /\ active' = FALSE /\ (Held' = tx \/ Held' = <<>>)
    BY <1>3 DEF Cut
  <2>2. CASE Held' = tx
    <3>1. Held = tx \o (pkt \o ring) /\ pkt \o ring \in Seq(Token)
      BY PipeLaws DEF PipeIsJoined
    <3>2. Pipe = Pipe' \o (pkt \o ring)
      BY <1>1, <2>1, <2>2, <3>1, Regrouped DEF Pipe
    <3> QED BY <2>1, <3>1, <3>2 DEF Quiet
  <2>3. CASE Held' = <<>>
    <3>1. Held \in Seq(Token) /\ Pipe' = rx
      BY <1>1, <2>1, <2>3, PipeLaws, JoinedToNone DEF Pipe, PipeIsJoined
    <3>2. Pipe = Pipe' \o Held
      BY <3>1 DEF Pipe
    <3> QED BY <2>1, <3>1, <3>2 DEF Quiet
  <2> QED BY <2>1, <2>2, <2>3
<1>4. ASSUME NEW k \in {"ack", "zlp"}, Adds(k)
      PROVE  Pipe' = Pipe \o <<Mark(k)>> /\ active' = active /\ fluxCount' = fluxCount
  <2>1. /\ rx' = rx /\ Held = <<>> /\ Held' = <<Mark(k)>>
        /\ active' = active /\ fluxCount' = fluxCount
    BY <1>4 DEF Adds
  <2>2. Pipe = rx
    BY <1>1, <2>1, JoinedToNone DEF Pipe
  <2> QED BY <2>1, <2>2 DEF Pipe
<1> QED BY <1>2, <1>3, <1>4 DEF Quiet

\* What the endpoint and a staged packet hold, behind what the host has.
Sent == rx \o (tx \o pkt)

LEMMA SentLaws ==
  ASSUME Known
  PROVE  /\ tx \o pkt \in Seq(Token) /\ Sent \in Seq(Token) /\ Pipe = Sent \o ring
         /\ \A r \in Seq(Token) : rx \o ((tx \o pkt) \o r) = Sent \o r
<1>1. /\ rx \in Seq(Token) /\ tx \in Seq(Token) /\ pkt \in Seq(Token) /\ ring \in Seq(Token)
  BY TypedParts DEF Known, Recorded
<1>2. tx \o pkt \in Seq(Token)
  BY <1>1, Joined
<1>3. Sent \in Seq(Token)
  BY <1>1, <1>2, Joined DEF Sent
<1>4. \A r \in Seq(Token) : rx \o ((tx \o pkt) \o r) = Sent \o r
  <2> TAKE r \in Seq(Token)
  <2> DEFINE m == tx \o pkt
  <2>1. m \in Seq(Token) /\ Sent = rx \o m
    BY <1>2 DEF Sent
  <2> HIDE DEF m
  <2>2. (rx \o m) \o r = rx \o (m \o r)
    BY <1>1, <2>1, Regrouped, SMTT(60)
  <2> QED BY <2>1, <2>2 DEF m
<1> QED BY <1>1, <1>2, <1>3, <1>4 DEF Pipe, Held

LEMMA PumpFacts ==
  ASSUME Known, NEW filler, Pumping
  PROVE  /\ Encoded(filler) \in Seq(Token) /\ ring \o Encoded(filler) \in Seq(Token)
         /\ Len(ring \o Encoded(filler)) \in Nat
         /\ pkt \in Seq(Token) /\ tx \in Seq(Token) /\ ring \in Seq(Token)
         /\ rx' = rx /\ active
<1>1. Encoded(filler) \in Seq(Token) /\ ring \in Seq(Token)
  BY TypedParts, PumpLogs DEF Known
<1>2. ring \o Encoded(filler) \in Seq(Token)
  BY <1>1, Joined
<1> QED BY <1>1, <1>2, LenProperties, TypedParts DEF Known, Pumping, Owns, ReadIsCapture

LEMMA ContinuePipe ==
  ASSUME Known, NEW filler, PumpContinue(filler)
  PROVE  /\ Pipe' = Pipe \o Encoded(filler) /\ log' = log \o Stream(Encoded(filler))
         /\ active' = active /\ active /\ fluxCount' = FluxCountNow
<1> DEFINE r == ring \o Encoded(filler)
<1>1. /\ SendFrom(r, Len(r)) /\ Pumping /\ log' = log \o Stream(Encoded(filler))
      /\ active' = active /\ fluxCount' = FluxCountNow
  BY DEF PumpContinue
<1>2. r \in Seq(Token) /\ Len(r) \in Nat /\ Encoded(filler) \in Seq(Token) /\ ring \in Seq(Token)
  BY <1>1, PumpFacts
<1> HIDE DEF r
<1>3. Held' = (tx \o pkt) \o r
  BY <1>1, <1>2, PumpFacts, SendMoves
<1>4. Pipe' = Sent \o r
  BY <1>1, <1>2, <1>3, PumpFacts, SentLaws DEF Pipe
<1>5. Pipe = Sent \o ring /\ Sent \in Seq(Token)
  BY SentLaws
<1>6. Sent \o (ring \o Encoded(filler)) = (Sent \o ring) \o Encoded(filler)
  BY <1>2, <1>5, Regrouped
<1> QED BY <1>1, <1>4, <1>5, <1>6, PumpFacts DEF r

LEMMA FinishPipe ==
  ASSUME Known, NEW filler, PumpFinish(filler)
  PROVE  LET r   == ring \o Encoded(filler)
             end == EndMark(FluxCountNow, EndReason)
         IN  /\ Pipe' = Sent \o Put(r, end) /\ log' = (log \o Stream(Encoded(filler))) \o <<end>>
             /\ r \in Seq(Token) /\ end \in Token /\ Len(r) <= Cap
             /\ Put(r, end) \in Seq(Token)
             /\ active /\ active' = FALSE
<1> DEFINE r   == ring \o Encoded(filler)
           end == EndMark(FluxCountNow, EndReason)
<1>1. /\ SendFrom(Put(r, end), Len(r)) /\ Pumping /\ ~Overflows(r) /\ StopCapture
      /\ log' = (log \o Stream(Encoded(filler))) \o <<end>>
  BY DEF PumpFinish
<1>2. r \in Seq(Token) /\ Len(r) \in Nat
  BY <1>1, PumpFacts
<1>3. end \in Token
  BY PumpedEnd DEF Known
<1> HIDE DEF r, end
<1>4. Put(r, end) \in Seq(Token) /\ Len(r) <= Len(Put(r, end))
  BY <1>2, <1>3, PutType
<1>5. Held' = (tx \o pkt) \o Put(r, end)
  BY <1>1, <1>2, <1>4, PumpFacts, SendMoves
<1>6. Pipe' = Sent \o Put(r, end)
  BY <1>1, <1>4, <1>5, PumpFacts, SentLaws DEF Pipe
<1>7. Len(r) <= Cap
  BY <1>1, <1>2, SizesAssumption DEF Overflows
<1>8. /\ Pipe' = Sent \o Put(r, end) /\ log' = (log \o Stream(Encoded(filler))) \o <<end>>
      /\ r \in Seq(Token) /\ end \in Token /\ Len(r) <= Cap
      /\ Put(r, end) \in Seq(Token)
      /\ active /\ active' = FALSE
  BY <1>1, <1>2, <1>3, <1>4, <1>6, <1>7, PumpFacts DEF StopCapture
<1> QED BY <1>8 DEF r, end

LEMMA OverflowPipe ==
  ASSUME Known, NEW filler, PumpOverflow(filler)
  PROVE  /\ Pipe' = Sent /\ log' = log \o Stream(Encoded(filler))
         /\ active /\ active' = FALSE
<1> DEFINE none == <<>>
<1>1. /\ SendFrom(none, 0) /\ Pumping /\ StopCapture
      /\ log' = log \o Stream(Encoded(filler))
  BY DEF PumpOverflow, AbortSilent
<1>2. none \in Seq(Token) /\ 0 <= Len(none) /\ 0 \in Nat
  BY EmptyType
<1>3. Sent \o none = Sent
  BY SentLaws, JoinedToNone
<1> HIDE DEF none
<1>4. Held' = (tx \o pkt) \o none
  BY <1>1, <1>2, PumpFacts, SendMoves
<1>5. Pipe' = Sent \o none
  BY <1>1, <1>2, <1>4, PumpFacts, SentLaws DEF Pipe
<1> QED BY <1>1, <1>3, <1>5, PumpFacts DEF StopCapture

\* The last packet takes the ring and the NUL behind it.
LEMMA DrainLastPipe ==
  ASSUME Known, DrainLast
  PROVE  /\ Pipe' = Pipe \o <<Mark("nul")>> /\ Pipe' = rx \o tx' /\ rx' = rx /\ log' = log
         /\ active = FALSE /\ active' = FALSE
<1> DEFINE last == <<Mark("nul")>>
<1>1. /\ tx = <<>> /\ pkt = <<>> /\ pkt' = <<>> /\ ring' = <<>> /\ rx' = rx /\ log' = log
      /\ tx' = Append(ring, Mark("nul")) /\ active' = active /\ floppyState = "read_flux_drain"
  BY DEF DrainLast, capVars
<1>2. active = FALSE
  BY <1>1, TypedParts DEF Known, Owns, CaptureOwnsTape, FlagsOK
<1>3. ring \in Seq(Token) /\ last \in Seq(Token) /\ Mark("nul") \in Token /\ rx \in Seq(Token)
  BY TypedParts, MarkLaws, TokenTypes DEF Known, Recorded, Marks
<1>4. tx' = ring \o last
  BY <1>1, <1>3, AppendIsConcat
<1> HIDE DEF last
<1>5. tx' \in Seq(Token) /\ Held = ring
  BY <1>1, <1>3, <1>4, Joined, JoinedToNone, EmptyType DEF Held
<1>6. Held' = tx'
  BY <1>1, <1>5, JoinedToNone DEF Held
<1>7. rx \o (ring \o last) = (rx \o ring) \o last
  BY <1>3, Regrouped
<1> QED BY <1>1, <1>2, <1>4, <1>5, <1>6, <1>7 DEF Pipe, last

\* The host has what it read, as far as the histories tell.
LEMMA ReadPipe ==
  ASSUME Known, HostReads
  PROVE  LET rest == pkt \o ring
         IN  /\ Pipe = (rx \o tx) \o rest /\ Pipe' = (rx \o Stream(tx)) \o rest
             /\ rest \in Seq(Token) /\ tx \in Seq(Token) /\ rx' = rx \o Stream(tx) /\ log' = log
             /\ Stream(tx) \in Seq(Token) /\ active' = active /\ fluxCount' = fluxCount
<1>1. /\ tx' = <<>> /\ rx' = rx \o Stream(tx) /\ pkt' = pkt /\ ring' = ring
      /\ active' = active /\ fluxCount' = fluxCount /\ log' = log
  BY DEF HostReads, capVars
<1>2. rx \in Seq(Token) /\ tx \in Seq(Token) /\ pkt \in Seq(Token) /\ ring \in Seq(Token)
  BY TypedParts DEF Known, Recorded
<1>3. Stream(tx) \in Seq(Token) /\ pkt \o ring \in Seq(Token)
  BY <1>2, StreamKeeps, Joined
<1>4. Held' = pkt \o ring
  BY <1>1, <1>2, JoinedToNone DEF Held
<1>5. Held = tx \o (pkt \o ring)
  BY PipeLaws DEF PipeIsJoined
<1>6. Pipe = (rx \o tx) \o (pkt \o ring)
  BY <1>2, <1>3, <1>5, Regrouped, ZenonT(60) DEF Pipe
<1>7. Pipe' = (rx \o Stream(tx)) \o (pkt \o ring)
  BY <1>1, <1>4 DEF Pipe
<1> QED BY <1>1, <1>2, <1>3, <1>6, <1>7

LEMMA CapturePipe ==
  ASSUME CmdCapture
  PROVE  /\ Pipe' = <<Mark("ack")>> /\ log' = <<>> /\ rx' = <<>> /\ tx' = <<Mark("ack")>>
         /\ pkt' = <<>> /\ ring' = <<>>
         /\ active' = TRUE /\ fluxCount' = 0
<1>1. /\ tx' = <<Mark("ack")>> /\ pkt' = <<>> /\ ring' = <<>> /\ log' = <<>> /\ rx' = <<>>
      /\ active' = TRUE /\ fluxCount' = 0
  BY DEF CmdCapture, Answer, ReadPrep
<1>2. <<Mark("ack")>> \in Seq(Token)
  BY MarkLaws DEF Marks
<1>3. Held' = <<Mark("ack")>>
  BY <1>1, <1>2, JoinedToNone DEF Held
<1> QED BY <1>1, <1>2, <1>3, JoinedToNone DEF Pipe

-----------------------------------------------------------------------------
(* A stream that agrees with END is complete. *)

\* Every END on its way counts the transitions that were encoded; of those some may
\* be lost, but none while the capture is armed.
Intact ==
  active => /\ fluxCount = Len(FluxOf(log)) /\ FluxOf(Pipe) = FluxOf(log)
            /\ ~Holds(Pipe, "end") /\ ~Holds(log, "end")
StreamInv ==
  /\ \A t \in Toks(Pipe) : t.k = "end" => t.v = Len(FluxOf(log))
  /\ Covers(FluxOf(Pipe), FluxOf(log))
  /\ Intact

LEMMA StreamQuiet ==
  ASSUME Known, Known', StreamInv, Quiet
  PROVE  StreamInv'
<1>0. log \in Seq(Token) /\ Pipe \in Seq(Token) /\ Pipe' \in Seq(Token) /\ log' = log
  BY PipeLaws, QuietPipe DEF Known, Recorded, PipeIsJoined
<1>1. CASE Pipe' = Pipe /\ active' = active /\ fluxCount' = fluxCount
  BY <1>0, <1>1 DEF StreamInv, Intact
<1>2. CASE active' = FALSE /\ \E e \in Seq(Token) : Pipe = Pipe' \o e
  <2> PICK e \in Seq(Token) : Pipe = Pipe' \o e
    BY <1>2
  <2> DEFINE p == Pipe'
  <2>1. FluxOf(p \o e) = FluxOf(p) \o FluxOf(e) /\ Toks(p) \subseteq Toks(p \o e)
    BY <1>0, FluxJoined, ToksJoined
  <2>2. FluxOf(p) \in Seq(Token) /\ FluxOf(e) \in Seq(Token) /\ FluxOf(log) \in Seq(Token)
    BY <1>0, FluxJoined
  <2>3. Covers(FluxOf(p), FluxOf(p) \o FluxOf(e))
    BY <2>2, CoversLaws
  <2>4. FluxOf(p) \o FluxOf(e) \in Seq(Token)
    BY <2>2, Joined
  <2>5. Covers(FluxOf(p), FluxOf(log))
    <3> DEFINE x == FluxOf(p)
               y == FluxOf(p) \o FluxOf(e)
               z == FluxOf(log)
    <3>1. x \in Seq(Token) /\ y \in Seq(Token) /\ z \in Seq(Token) /\ Covers(x, y) /\ Covers(y, z)
      BY <2>1, <2>2, <2>3, <2>4 DEF StreamInv
    <3> HIDE DEF x, y, z
    <3>2. Covers(x, z)
      BY <3>1, CoversLaws
    <3> QED BY <3>2 DEF x, z
  <2>6. Intact'
    BY <1>2 DEF Intact
  <2> QED BY <1>0, <2>1, <2>5, <2>6 DEF StreamInv
<1>3. CASE /\ \E k \in {"ack", "zlp"} : Pipe' = Pipe \o <<Mark(k)>>
           /\ active' = active /\ fluxCount' = fluxCount
  <2> PICK k \in {"ack", "zlp"} : Pipe' = Pipe \o <<Mark(k)>>
    BY <1>3
  <2> DEFINE one == <<Mark(k)>>
  <2>1. one \in Seq(Token) /\ FluxOf(one) = <<>> /\ \A t \in Toks(one) : t.k # "end"
    BY MarkLaws DEF Marks
  <2> HIDE DEF one
  <2>2. Pipe' = Pipe \o one
    BY DEF one
  <2>3. FluxOf(Pipe') = FluxOf(Pipe) /\ Toks(Pipe') = Toks(Pipe) \cup Toks(one)
    <3>1. FluxOf(Pipe \o one) = FluxOf(Pipe) \o FluxOf(one) /\ FluxOf(Pipe) \in Seq(Token)
      BY <1>0, <2>1, FluxJoined
    <3>2. Toks(Pipe \o one) = Toks(Pipe) \cup Toks(one)
      BY <1>0, <2>1, ToksJoined
    <3> QED BY <2>1, <2>2, <3>1, <3>2, JoinedToNone
  <2> QED BY <1>0, <1>3, <2>1, <2>3 DEF StreamInv, Intact, Holds
<1> QED BY <1>1, <1>2, <1>3, QuietPipe

LEMMA StreamContinue ==
  ASSUME Known, StreamInv, NEW filler, PumpContinue(filler)
  PROVE  StreamInv'
<1> DEFINE e == Encoded(filler)
<1>1. /\ e \in Seq(Token) /\ Len(FluxOf(e)) = pendFlux
      /\ \A t \in Toks(e) : t.k \notin {"end", "nul"}
  BY TypedParts, EncodedFlux DEF Known, CountsOK
<1>2. /\ Pipe' = Pipe \o e /\ log' = log \o Stream(e)
      /\ active' = active /\ active /\ fluxCount' = FluxCountNow
  BY ContinuePipe
<1>3. log \in Seq(Token) /\ Pipe \in Seq(Token)
  BY PipeLaws DEF Known, Recorded, PipeIsJoined
<1> HIDE DEF e
<1>4. /\ Stream(e) \in Seq(Token) /\ FluxOf(Stream(e)) = FluxOf(e)
      /\ \A t \in Toks(Stream(e)) : t \in Toks(e)
  BY <1>1, StreamKeeps
<1>5. FluxOf(log') = FluxOf(log) \o FluxOf(e) /\ Toks(log') = Toks(log) \cup Toks(Stream(e))
  BY <1>2, <1>3, <1>4, FluxJoined, ToksJoined, ZenonT(60)
<1>6. FluxOf(Pipe') = FluxOf(Pipe) \o FluxOf(e) /\ Toks(Pipe') = Toks(Pipe) \cup Toks(e)
  BY <1>1, <1>2, <1>3, FluxJoined, ToksJoined
<1>7. Intact
  BY DEF StreamInv
<1>8. Len(FluxOf(log')) = fluxCount'
  <2>1. Len(FluxOf(log')) = Len(FluxOf(log)) + Len(FluxOf(Stream(e)))
    BY <1>2, <1>3, <1>4, FluxJoined
  <2> QED BY <1>1, <1>2, <1>4, <1>7, <2>1 DEF Intact, FluxCountNow
<1>9. ~Holds(Pipe', "end") /\ ~Holds(log', "end")
  BY <1>1, <1>2, <1>4, <1>5, <1>6, <1>7 DEF Intact, Holds
<1>10. FluxOf(Pipe') = FluxOf(log')
  BY <1>2, <1>5, <1>6, <1>7 DEF Intact
<1> QED BY <1>8, <1>9, <1>10 DEF StreamInv, Intact, Covers, Holds

LEMMA StreamFinish ==
  ASSUME Known, StreamInv, NEW filler, PumpFinish(filler)
  PROVE  StreamInv'
<1> DEFINE e    == Encoded(filler)
           r    == ring \o e
           end  == EndMark(FluxCountNow, EndReason)
           last == <<end>>
           put  == Put(r, end)
<1>1. /\ e \in Seq(Token) /\ Len(FluxOf(e)) = pendFlux
      /\ \A t \in Toks(e) : t.k \notin {"end", "nul"}
  BY TypedParts, EncodedFlux DEF Known, CountsOK
<1>2. /\ Pipe' = Sent \o put /\ log' = (log \o Stream(e)) \o last
      /\ r \in Seq(Token) /\ end \in Token /\ Len(r) <= Cap
      /\ put \in Seq(Token) /\ active /\ active' = FALSE
  BY FinishPipe
<1>3. log \in Seq(Token) /\ Pipe \in Seq(Token) /\ ring \in Seq(Token)
  BY PipeLaws, TypedParts DEF Known, Recorded, PipeIsJoined
<1>4. Sent \in Seq(Token) /\ Pipe = Sent \o ring
  BY SentLaws
<1>5. end.k = "end" /\ end.v = FluxCountNow
  BY DEF EndMark
<1>6. last \in Seq(Token) /\ Toks(last) = {end} /\ FluxOf(last) = <<>>
  <2>1. last \in Seq(Token) /\ Len(last) = 1 /\ last[1] = end
    BY <1>2, SingleType
  <2> HIDE DEF last, end
  <2>2. Toks(last) = {end}
    BY <2>1 DEF Toks
  <2> QED BY <1>5, <2>1, <2>2, KeptNone DEF FluxOf
<1>7. /\ Covers(FluxOf(put), FluxOf(r)) /\ Toks(put) \subseteq Toks(r) \cup {end}
  <2> HIDE DEF e, r, end
  <2> QED BY <1>2, <1>5, PutCovers
<1> HIDE DEF e, r, end, last, put
<1>8. Stream(e) \in Seq(Token) /\ FluxOf(Stream(e)) = FluxOf(e) /\ Intact
  BY <1>1, StreamKeeps DEF StreamInv
<1>9. FluxOf(log') = FluxOf(log) \o FluxOf(e) /\ Len(FluxOf(log')) = FluxCountNow
  <2> DEFINE m == log \o Stream(e)
  <2>1. m \in Seq(Token) /\ FluxOf(m) = FluxOf(log) \o FluxOf(e)
        /\ Len(FluxOf(m)) = Len(FluxOf(log)) + Len(FluxOf(e)) /\ FluxOf(m) \in Seq(Token)
    <3>1. m \in Seq(Token)
      BY <1>3, <1>8, Joined
    <3>2. FluxOf(m) \in Seq(Token)
      <4> HIDE DEF m
      <4> QED BY <3>1, FluxJoined
    <3> DEFINE f == Stream(e)
    <3>3. f \in Seq(Token)
      BY <1>8
    <3>4. m = log \o f /\ FluxOf(f) = FluxOf(e)
      BY <1>8
    <3> HIDE DEF f, m
    <3>5. /\ FluxOf(log \o f) = FluxOf(log) \o FluxOf(f)
          /\ Len(FluxOf(log \o f)) = Len(FluxOf(log)) + Len(FluxOf(f))
      BY <1>3, <3>3, FluxJoined
    <3> QED BY <3>1, <3>2, <3>4, <3>5
  <2>2. log' = m \o last
    BY <1>2
  <2> HIDE DEF m
  <2>3. FluxOf(log') = FluxOf(m)
    <3>1. FluxOf(m \o last) = FluxOf(m) \o FluxOf(last)
      BY <1>6, <2>1, FluxJoined
    <3> QED BY <1>6, <2>1, <2>2, <3>1, JoinedToNone
  <2> QED BY <1>1, <1>2, <1>8, <2>1, <2>3 DEF Intact, FluxCountNow
<1>10. Covers(FluxOf(Pipe'), FluxOf(log'))
  <2>1. FluxOf(Pipe') = FluxOf(Sent) \o FluxOf(put)
    BY <1>2, <1>4, FluxJoined
  <2>2. FluxOf(Pipe) = FluxOf(Sent) \o FluxOf(ring)
    BY <1>3, <1>4, FluxJoined
  <2>3. FluxOf(r) = FluxOf(ring) \o FluxOf(e)
    BY <1>1, <1>3, FluxJoined DEF r
  <2>4. FluxOf(Sent) \o FluxOf(r) = FluxOf(log')
    <3>1. FluxOf(Sent) \in Seq(Token) /\ FluxOf(ring) \in Seq(Token) /\ FluxOf(e) \in Seq(Token)
      BY <1>1, <1>3, <1>4, FluxJoined
    <3>2. FluxOf(Sent) \o (FluxOf(ring) \o FluxOf(e)) = (FluxOf(Sent) \o FluxOf(ring)) \o FluxOf(e)
      BY <3>1, Regrouped
    <3> QED BY <1>2, <1>8, <1>9, <2>2, <2>3, <3>2 DEF Intact
  <2>5. Covers(FluxOf(Sent) \o FluxOf(put), FluxOf(Sent) \o FluxOf(r))
    <3>1. FluxOf(Sent) \in Seq(Token) /\ FluxOf(put) \in Seq(Token) /\ FluxOf(r) \in Seq(Token)
      BY <1>2, <1>4, FluxJoined
    <3> QED BY <1>7, <3>1, CoversLaws
  <2> QED BY <2>1, <2>4, <2>5
<1>11. \A t \in Toks(Pipe') : t.k = "end" => t = end
  <2>1. Toks(Pipe') = Toks(Sent) \cup Toks(put) /\ Toks(Pipe) = Toks(Sent) \cup Toks(ring)
    BY <1>2, <1>3, <1>4, ToksJoined
  <2>2. Toks(r) = Toks(ring) \cup Toks(e)
    BY <1>1, <1>3, ToksJoined DEF r
  <2> QED BY <1>1, <1>2, <1>7, <1>8, <2>1, <2>2 DEF Intact, Holds
<1>12. Intact'
  BY <1>2 DEF Intact
<1> QED BY <1>5, <1>9, <1>10, <1>11, <1>12 DEF StreamInv

LEMMA StreamOverflow ==
  ASSUME Known, StreamInv, NEW filler, PumpOverflow(filler)
  PROVE  StreamInv'
<1> DEFINE e == Encoded(filler)
<1>1. e \in Seq(Token)
  BY TypedParts, EncodedFlux DEF Known, CountsOK
<1>2. Pipe' = Sent /\ log' = log \o Stream(e) /\ active /\ active' = FALSE
  BY OverflowPipe
<1>3. log \in Seq(Token) /\ Sent \in Seq(Token) /\ ring \in Seq(Token) /\ Pipe = Sent \o ring
  BY SentLaws, TypedParts DEF Known, Recorded
<1> HIDE DEF e
<1>4. Stream(e) \in Seq(Token) /\ FluxOf(Stream(e)) \in Seq(Token) /\ Intact
  <2>1. Stream(e) \in Seq(Token)
    BY <1>1, StreamKeeps
  <2> QED BY <2>1, FluxJoined DEF StreamInv
<1>5. FluxOf(log') = FluxOf(log) \o FluxOf(Stream(e))
  BY <1>2, <1>3, <1>4, FluxJoined
<1>6. FluxOf(Pipe) = FluxOf(Sent) \o FluxOf(ring) /\ Toks(Pipe) = Toks(Sent) \cup Toks(ring)
  BY <1>3, FluxJoined, ToksJoined
<1>7. FluxOf(Sent) \in Seq(Token) /\ FluxOf(ring) \in Seq(Token) /\ FluxOf(log) \in Seq(Token)
  BY <1>3, FluxJoined
<1>8. Covers(FluxOf(Sent), FluxOf(log))
  <2>1. Covers(FluxOf(Sent), FluxOf(Sent) \o FluxOf(ring))
    BY <1>7, CoversLaws
  <2> QED BY <1>2, <1>4, <1>6, <2>1 DEF Intact
<1>9. Covers(FluxOf(Sent), FluxOf(log) \o FluxOf(Stream(e)))
  BY <1>4, <1>7, <1>8, CoversLaws
<1>10. \A t \in Toks(Pipe') : t.k # "end"
  BY <1>2, <1>4, <1>6 DEF Intact, Holds
<1>11. Intact'
  BY <1>2 DEF Intact
<1> QED BY <1>2, <1>5, <1>9, <1>10, <1>11 DEF StreamInv

LEMMA StreamStep ==
  ASSUME Known, Known', StreamInv, [Next]_vars
  PROVE  StreamInv'
<1>1. CASE Quiet
  BY <1>1, StreamQuiet
<1>2. CASE ReadPump
  BY <1>2, StreamContinue, StreamFinish, StreamOverflow DEF ReadPump
<1>3. CASE CmdCapture
  <2> DEFINE one == <<Mark("ack")>>
  <2>1. /\ one \in Seq(Token) /\ FluxOf(one) = <<>> /\ \A t \in Toks(one) : t.k # "end"
    BY MarkLaws DEF Marks
  <2>2. Pipe' = one /\ log' = <<>> /\ active' = TRUE /\ fluxCount' = 0
    BY <1>3, CapturePipe
  <2> HIDE DEF one
  <2>3. FluxOf(log') = <<>> /\ Len(FluxOf(log')) = 0 /\ Toks(log') = {}
    BY <2>2, FluxOfNone, ToksEmpty, EmptyType
  <2>4. FluxOf(Pipe') = FluxOf(log') /\ ~Holds(Pipe', "end") /\ ~Holds(log', "end")
    BY <2>1, <2>2, <2>3 DEF Holds
  <2> QED BY <2>1, <2>2, <2>3, <2>4 DEF StreamInv, Intact, Covers
<1>4. CASE DrainLast
  <2> DEFINE one == <<Mark("nul")>>
  <2>1. /\ one \in Seq(Token) /\ FluxOf(one) = <<>> /\ \A t \in Toks(one) : t.k # "end"
    BY MarkLaws DEF Marks
  <2>2. Pipe' = Pipe \o one /\ log' = log /\ active' = FALSE /\ Pipe \in Seq(Token)
    BY <1>4, DrainLastPipe, PipeLaws DEF PipeIsJoined
  <2> HIDE DEF one
  <2>3. FluxOf(Pipe') = FluxOf(Pipe) /\ Toks(Pipe') = Toks(Pipe) \cup Toks(one)
    <3>1. FluxOf(Pipe \o one) = FluxOf(Pipe) \o FluxOf(one) /\ FluxOf(Pipe) \in Seq(Token)
      BY <2>1, <2>2, FluxJoined
    <3> QED BY <2>1, <2>2, <3>1, ToksJoined, JoinedToNone
  <2> QED BY <2>1, <2>2, <2>3 DEF StreamInv, Intact
<1>5. CASE HostReads
  <2> DEFINE rest == pkt \o ring
             got == Stream(tx)
  <2>1. /\ Pipe = (rx \o tx) \o rest /\ Pipe' = (rx \o got) \o rest
        /\ rest \in Seq(Token) /\ tx \in Seq(Token) /\ got \in Seq(Token) /\ rx \in Seq(Token)
        /\ log' = log /\ active' = active /\ fluxCount' = fluxCount
    BY <1>5, ReadPipe DEF Known, Recorded
  <2>2. FluxOf(got) = FluxOf(tx) /\ Toks(got) \subseteq Toks(tx)
    BY <2>1, StreamKeeps
  <2> HIDE DEF rest, got
  <2>3. FluxOf(Pipe') = FluxOf(Pipe)
    <3>1. rx \o tx \in Seq(Token) /\ rx \o got \in Seq(Token)
      BY <2>1, Joined
    <3>2. FluxOf(rx \o tx) = FluxOf(rx) \o FluxOf(tx) /\ FluxOf(rx \o got) = FluxOf(rx) \o FluxOf(got)
      BY <2>1, FluxJoined
    <3>3. /\ FluxOf(Pipe) = FluxOf(rx \o tx) \o FluxOf(rest)
          /\ FluxOf(Pipe') = FluxOf(rx \o got) \o FluxOf(rest)
      BY <2>1, <3>1, FluxJoined
    <3> QED BY <2>2, <3>2, <3>3
  <2>4. Toks(Pipe') \subseteq Toks(Pipe)
    <3>1. rx \o tx \in Seq(Token) /\ rx \o got \in Seq(Token)
      BY <2>1, Joined
    <3>2. Toks(rx \o tx) = Toks(rx) \cup Toks(tx) /\ Toks(rx \o got) = Toks(rx) \cup Toks(got)
      BY <2>1, ToksJoined
    <3>3. /\ Toks(Pipe) = Toks(rx \o tx) \cup Toks(rest)
          /\ Toks(Pipe') = Toks(rx \o got) \cup Toks(rest)
      BY <2>1, <3>1, ToksJoined
    <3> QED BY <2>2, <3>2, <3>3
  <2>5. Intact'
    BY <2>1, <2>3, <2>4 DEF StreamInv, Intact, Holds
  <2> QED BY <2>1, <2>3, <2>4, <2>5 DEF StreamInv
<1> QED BY <1>1, <1>2, <1>3, <1>4, <1>5, Steps

LEMMA StreamAlways == Spec => []StreamInv
<1>1. Init => StreamInv
  <2> SUFFICES ASSUME Init PROVE StreamInv
    OBVIOUS
  <2>1. /\ rx = <<>> /\ log = <<>> /\ ring = <<>> /\ pkt = <<>> /\ tx = <<>> /\ active = FALSE
    BY DEF Init
  <2>2. Pipe = <<>>
    BY <2>1, EmptyType, JoinedToNone DEF Pipe, Held
  <2> QED BY <2>1, <2>2, ToksEmpty DEF StreamInv, Intact, Covers
<1> QED BY <1>1, StreamStep, KnownAlways, PTL DEF Spec

-----------------------------------------------------------------------------
(* VerifiedIsComplete *)

\* A sequence that holds an END has a last one, and a first one.
LEMMA EndsBounds ==
  ASSUME NEW s \in Seq(Token), Ends(s) # {}
  PROVE  /\ \E i \in Ends(s) : \A j \in Ends(s) : j <= i
         /\ \E i \in Ends(s) : \A j \in Ends(s) : i <= j
<1> DEFINE E == Ends(s)
           n == Len(s)
<1>1. n \in Nat /\ E \subseteq 1 .. n /\ E # {}
  BY LenProperties DEF Ends
<1> HIDE DEF E, n
<1>2. ASSUME NEW F, F \subseteq 0 .. n, F # {}
      PROVE  \E i \in F : \A j \in F : i <= j
  <2> DEFINE R == OpToRel(<, Nat)
  <2>1. IsWellFoundedOn(R, Nat)
    BY NatLessThanWellFounded
  <2>2. F \subseteq Nat /\ F # {}
    BY <1>1, <1>2
  <2>3. PICK i \in F : \A j \in F : ~(<<j, i>> \in R)
    <3> HIDE DEF R
    <3> QED BY <2>1, <2>2, WFMin
  <2>4. \A j \in F : ~(j < i)
    BY <2>2, <2>3 DEF OpToRel
  <2> HIDE DEF R
  <2> QED BY <2>2, <2>4
<1>3. \E i \in E : \A j \in E : i <= j
  <2>1. E \subseteq 0 .. n
    BY <1>1
  <2> QED BY <1>1, <1>2, <2>1
<1>4. \E i \in E : \A j \in E : j <= i
  <2> DEFINE F == {n - i : i \in E}
  <2>1. F \subseteq 0 .. n /\ F # {}
    <3>1. \A i \in E : n - i \in 0 .. n
      BY <1>1
    <3>2. \E i \in E : TRUE
      BY <1>1
    <3> QED BY <3>1, <3>2
  <2>2. PICK d \in F : \A j \in F : d <= j
    <3> HIDE DEF F
    <3> QED BY <1>2, <2>1
  <2>3. PICK i \in E : d = n - i
    BY <2>2
  <2>4. \A j \in E : n - j \in F
    OBVIOUS
  <2>5. \A j \in E : n - i <= n - j
    BY <2>2, <2>3, <2>4
  <2> HIDE DEF F
  <2>6. \A j \in E : j <= i
    BY <1>1, <2>3, <2>5
  <2> QED BY <2>3, <2>6
<1> QED BY <1>3, <1>4 DEF E

LEMMA LastEndIsEnd ==
  ASSUME NEW s \in Seq(Token), Ends(s) # {}
  PROVE  LastEnd(s) \in Toks(s) /\ LastEnd(s).k = "end"
<1> DEFINE i == CHOOSE i \in Ends(s) : \A j \in Ends(s) : j <= i
<1>1. i \in Ends(s)
  BY EndsBounds
<1>2. LastEnd(s) = s[i]
  BY DEF LastEnd
<1> HIDE DEF i
<1> QED BY <1>1, <1>2 DEF Ends, Toks

\* A stream the host verifies against END is whole: nothing that was encoded is missing
\* from it, whatever the ring overwrote, the pump dropped or a reset cut off.
THEOREM VerifiedIsCompleteAlways == Spec => []VerifiedIsComplete
<1>1. Known /\ StreamInv => VerifiedIsComplete
  <2> SUFFICES ASSUME Known, StreamInv, Verified(rx) PROVE FluxOf(rx) = FluxOf(log)
    BY DEF VerifiedIsComplete
  <2>1. rx \in Seq(Token) /\ log \in Seq(Token) /\ Held \in Seq(Token) /\ Pipe = rx \o Held
        /\ Toks(Pipe) = Toks(rx) \cup Toks(Held)
    BY PipeLaws DEF Known, Recorded, PipeIsJoined, Pipe
  <2>2. Ends(rx) # {} /\ LastEnd(rx).v = Len(FluxOf(rx))
    BY DEF Verified
  <2>3. LastEnd(rx) \in Toks(rx) /\ LastEnd(rx).k = "end"
    BY <2>1, <2>2, LastEndIsEnd
  <2>4. Len(FluxOf(rx)) = Len(FluxOf(log))
    BY <2>1, <2>2, <2>3 DEF StreamInv
  <2>5. /\ FluxOf(Pipe) = FluxOf(rx) \o FluxOf(Held)
        /\ Len(FluxOf(Pipe)) = Len(FluxOf(rx)) + Len(FluxOf(Held))
        /\ FluxOf(Held) \in Seq(Token) /\ Len(FluxOf(Held)) \in Nat
        /\ FluxOf(rx) \in Seq(Token) /\ Len(FluxOf(rx)) \in Nat
    BY <2>1, FluxJoined
  <2>6. FluxOf(Pipe) = FluxOf(log) /\ Len(FluxOf(Held)) = 0
    BY <2>4, <2>5 DEF StreamInv, Covers
  <2>7. FluxOf(Held) = <<>>
    BY <2>5, <2>6, EmptySeq
  <2> QED BY <2>5, <2>6, <2>7, JoinedToNone
<1> QED BY <1>1, KnownAlways, StreamAlways, PTL

-----------------------------------------------------------------------------
(* StatusTellsTheTruth *)

\* The NUL comes last and after END, unless the capture overflowed; then there is no END.
StatusInv ==
  /\ ~Holds(pkt, "nul") /\ ~Holds(ring, "nul")
  /\ floppyState \in {"read_flux", "read_flux_drain"} => ~Holds(Pipe, "nul")
  /\ active => fluxStatus = "okay"
  /\ fluxStatus = "overflow" => ~Holds(Pipe, "end")
  /\ fluxStatus = "okay" =>
       /\ floppyState = "read_flux_drain" => Holds(Pipe, "end")
       /\ Holds(rx, "nul") \/ Holds(tx, "nul") => Holds(rx, "end") \/ Holds(tx, "end")
       /\ Holds(rx, "nul") => Holds(rx, "end")

LEMMA HoldsJoined ==
  \A a, b \in Seq(Token), k \in {"end", "nul"} :
    /\ Holds(a \o b, k) <=> Holds(a, k) \/ Holds(b, k)
    /\ Holds(Stream(a), k) <=> Holds(a, k)
<1> TAKE a, b \in Seq(Token), k \in {"end", "nul"}
<1>1. Toks(a \o b) = Toks(a) \cup Toks(b)
  BY ToksJoined
<1>2. Toks(Stream(a)) = {t \in Toks(a) : t.k \in {"flux", "end", "nul"}}
  BY StreamKeeps
<1> QED BY <1>1, <1>2 DEF Holds

LEMMA HoldsNone == \A k \in {"end", "nul"} : ~Holds(<<>>, k)
BY ToksEmpty DEF Holds

LEMMA HoldsMark ==
  \A m \in Marks : \A k \in {"end", "nul"} : Holds(<<Mark(m)>>, k) <=> m = k
BY MarkLaws DEF Holds, Marks

\* What the stream on its way holds, its parts hold.
LEMMA PipeHolds ==
  /\ Known => \A k \in {"end", "nul"} :
       Holds(Pipe, k) <=> Holds(rx, k) \/ Holds(tx, k) \/ Holds(pkt, k) \/ Holds(ring, k)
  /\ Known' => \A k \in {"end", "nul"} :
       Holds(Pipe', k) <=> Holds(rx', k) \/ Holds(tx', k) \/ Holds(pkt', k) \/ Holds(ring', k)
<1>1. ASSUME Known
      PROVE  \A k \in {"end", "nul"} :
               Holds(Pipe, k) <=> Holds(rx, k) \/ Holds(tx, k) \/ Holds(pkt, k) \/ Holds(ring, k)
  <2>1. Toks(Pipe) = Toks(rx) \cup (Toks(tx) \cup (Toks(pkt) \cup Toks(ring)))
    BY <1>1, PipeLaws DEF PipeIsJoined
  <2> QED BY <2>1 DEF Holds
<1>2. ASSUME Known'
      PROVE  \A k \in {"end", "nul"} :
               Holds(Pipe', k) <=> Holds(rx', k) \/ Holds(tx', k) \/ Holds(pkt', k) \/ Holds(ring', k)
  <2>1. Toks(Pipe') = Toks(rx') \cup (Toks(tx') \cup (Toks(pkt') \cup Toks(ring')))
    BY <1>2, PipeLaws DEF PipeIsJoined
  <2> QED BY <2>1 DEF Holds
<1> QED BY <1>1, <1>2

\* Sending creates no NUL, and what is staged was in the ring.
LEMMA SendHolds ==
  ASSUME NEW r \in Seq(Token), NEW avail \in Nat, avail <= Len(r), ~Holds(r, "nul"),
         pkt \in Seq(Token), tx \in Seq(Token), SendFrom(r, avail), Known', ~Holds(pkt, "nul"),
         ~Holds(tx, "nul")
  PROVE  ~Holds(pkt', "nul") /\ ~Holds(ring', "nul") /\ ~Holds(tx', "nul")
<1>1. Held' = (tx \o pkt) \o r
  BY SendMoves
<1>2. Toks(Held') = Toks(tx') \cup (Toks(pkt') \cup Toks(ring'))
  BY PipeLaws DEF PipeIsJoined
<1>3. Toks((tx \o pkt) \o r) = (Toks(tx) \cup Toks(pkt)) \cup Toks(r)
  <2>1. tx \o pkt \in Seq(Token) /\ Toks(tx \o pkt) = Toks(tx) \cup Toks(pkt)
    BY Joined, ToksJoined
  <2> QED BY <2>1, ToksJoined
<1> QED BY <1>1, <1>2, <1>3 DEF Holds

\* Every packet that is dropped or taken, and every state that is kept.
LEMMA StatusSame ==
  ASSUME Known, Known', StatusInv, rx' = rx, fluxStatus' = fluxStatus,
         active' => active,
         tx' \in {tx, <<>>}, pkt' \in {pkt, <<>>}, ring' \in {ring, <<>>},
         \/ floppyState' \notin {"read_flux", "read_flux_drain"}
         \/ floppyState' = floppyState /\ tx' = tx /\ pkt' = pkt /\ ring' = ring
  PROVE  StatusInv'
<1>1. \A k \in {"end", "nul"} :
        /\ Holds(tx', k) => Holds(tx, k) /\ tx' = tx
        /\ Holds(pkt', k) => Holds(pkt, k)
        /\ Holds(ring', k) => Holds(ring, k)
  BY HoldsNone
<1>2. fluxStatus \in {"okay", "overflow"}
  BY TypedParts DEF Known, StatesOK
<1>3. Holds(tx', "nul") => (Holds(tx', "end") <=> Holds(tx, "end"))
  BY <1>1
<1>4. ~Holds(pkt', "nul") /\ ~Holds(ring', "nul") /\ (active' => fluxStatus' = "okay")
  BY <1>1 DEF StatusInv
<1>5. \A k \in {"end", "nul"} : Holds(Pipe', k) => Holds(Pipe, k)
  BY <1>1, PipeHolds
<1>6. CASE floppyState' \notin {"read_flux", "read_flux_drain"}
  BY <1>1, <1>3, <1>4, <1>5, <1>6 DEF StatusInv
<1>7. CASE floppyState' = floppyState /\ tx' = tx /\ pkt' = pkt /\ ring' = ring
  BY <1>1, <1>3, <1>4, <1>5, <1>7 DEF StatusInv, Pipe, Held
<1> QED BY <1>6, <1>7

LEMMA StatusAnswer ==
  ASSUME Known, Known', StatusInv, rx' = rx, fluxStatus' = fluxStatus, active' = active,
         NEW m \in {"ack", "zlp"}, tx' = <<Mark(m)>>, pkt' = <<>>, ring' = <<>>,
         floppyState' = "command_wait"
  PROVE  StatusInv'
<1>1. \A k \in {"end", "nul"} : ~Holds(tx', k) /\ ~Holds(pkt', k) /\ ~Holds(ring', k)
  BY HoldsNone, HoldsMark DEF Marks
<1>2. \A k \in {"end", "nul"} : Holds(Pipe', k) => Holds(Pipe, k)
  BY <1>1, PipeHolds
<1> QED BY <1>1, <1>2 DEF StatusInv

LEMMA StatusDrain ==
  ASSUME Known, Known', StatusInv, Drain
  PROVE  StatusInv'
<1>1. /\ floppyState = "read_flux_drain" /\ floppyState' = floppyState /\ rx' = rx
      /\ fluxStatus' = fluxStatus /\ active' = active /\ SendFrom(ring, Len(ring))
  BY DEF Drain, capVars
<1>2. pkt \in Seq(Token) /\ tx \in Seq(Token) /\ ring \in Seq(Token) /\ Len(ring) \in Nat
  BY TypedParts DEF Known
<1>3. ~Holds(rx, "nul") /\ ~Holds(tx, "nul") /\ ~Holds(pkt, "nul") /\ ~Holds(ring, "nul")
  BY <1>1, PipeHolds DEF StatusInv
<1>4. ~Holds(pkt', "nul") /\ ~Holds(ring', "nul") /\ ~Holds(tx', "nul")
  BY <1>1, <1>2, <1>3, SendHolds
<1>5. Pipe' = Pipe
  <2>1. Held' = (tx \o pkt) \o ring
    BY <1>1, <1>2, SendMoves
  <2> QED BY <1>1, <2>1 DEF Pipe, Held
<1>6. ~Holds(Pipe', "nul")
  BY <1>1, <1>3, <1>4, PipeHolds
<1> QED BY <1>1, <1>3, <1>4, <1>5, <1>6 DEF StatusInv

LEMMA StatusDrainLast ==
  ASSUME Known, Known', StatusInv, DrainLast
  PROVE  StatusInv'
<1>1. /\ floppyState = "read_flux_drain" /\ floppyState' \in {"zlp", "command_wait"}
      /\ rx' = rx /\ fluxStatus' = fluxStatus /\ tx = <<>> /\ pkt = <<>> /\ pkt' = <<>>
      /\ ring' = <<>> /\ tx' = Append(ring, Mark("nul"))
  BY DEF DrainLast
<1>2. active' = FALSE
  BY DrainLastPipe
<1>3. ring \in Seq(Token) /\ Mark("nul") \in Token
  BY TypedParts, TokenTypes DEF Known, Marks
<1>4. ~Holds(pkt', "nul") /\ ~Holds(ring', "nul") /\ ~Holds(pkt', "end") /\ ~Holds(ring', "end")
  BY <1>1, HoldsNone
<1>5. Holds(tx', "end") <=> Holds(ring, "end")
  <2>1. Toks(tx') = Toks(ring) \cup {Mark("nul")}
    BY <1>1, <1>3, ToksAppend
  <2> QED BY <2>1 DEF Holds, Mark
<1>6. ~Holds(rx, "nul") /\ ~Holds(tx, "end") /\ ~Holds(pkt, "end")
  BY <1>1, HoldsNone, PipeHolds DEF StatusInv
<1>7. Holds(Pipe', "end") <=> Holds(Pipe, "end")
  BY <1>1, <1>4, <1>5, <1>6, PipeHolds
<1>8. Holds(Pipe, "end") <=> Holds(rx', "end") \/ Holds(tx', "end")
  BY <1>1, <1>5, <1>6, PipeHolds
<1> QED BY <1>1, <1>2, <1>4, <1>6, <1>7, <1>8 DEF StatusInv

LEMMA StatusRead ==
  ASSUME Known, Known', StatusInv, HostReads
  PROVE  StatusInv'
<1>1. /\ tx' = <<>> /\ rx' = rx \o Stream(tx) /\ pkt' = pkt /\ ring' = ring
      /\ active' = active /\ fluxStatus' = fluxStatus /\ floppyState' = floppyState
  BY DEF HostReads, capVars
<1>2. rx \in Seq(Token) /\ tx \in Seq(Token) /\ Stream(tx) \in Seq(Token)
  BY TypedParts, StreamKeeps DEF Known, Recorded
<1>3. \A k \in {"end", "nul"} : Holds(rx', k) <=> Holds(rx, k) \/ Holds(tx, k)
  BY <1>1, <1>2, HoldsJoined
<1>4. \A k \in {"end", "nul"} : ~Holds(tx', k)
  BY <1>1, HoldsNone
<1>5. \A k \in {"end", "nul"} : Holds(Pipe', k) <=> Holds(Pipe, k)
  BY <1>1, <1>3, <1>4, PipeHolds
<1> QED BY <1>1, <1>3, <1>4, <1>5 DEF StatusInv

LEMMA StatusPump ==
  ASSUME Known, Known', StreamInv, StatusInv, NEW filler \in BOOLEAN,
         PumpOverflow(filler) \/ PumpFinish(filler) \/ PumpContinue(filler)
  PROVE  StatusInv'
<1> DEFINE r == ring \o Encoded(filler)
<1>1. Pumping
  BY DEF PumpOverflow, PumpFinish, PumpContinue
<1>2. /\ r \in Seq(Token) /\ Len(r) \in Nat /\ pkt \in Seq(Token) /\ tx \in Seq(Token)
      /\ ring \in Seq(Token) /\ Encoded(filler) \in Seq(Token)
      /\ rx' = rx /\ active /\ floppyState = "read_flux"
  BY <1>1, PumpFacts DEF Pumping
<1>3. ~Holds(rx, "nul") /\ ~Holds(tx, "nul") /\ ~Holds(pkt, "nul") /\ ~Holds(ring, "nul")
  BY <1>2, PipeHolds DEF StatusInv
<1>4. fluxStatus = "okay"
  BY <1>2 DEF StatusInv
<1>5. ~Holds(r, "nul")
  <2>1. ~Holds(Encoded(filler), "nul")
    BY TypedParts, EncodedFlux DEF Known, CountsOK, Holds
  <2> QED BY <1>2, <1>3, <2>1, HoldsJoined
<1> HIDE DEF r
<1>6. ASSUME ~Holds(pkt', "nul"), ~Holds(ring', "nul"), ~Holds(tx', "nul")
      PROVE  ~Holds(Pipe', "nul") /\ ~Holds(rx', "nul")
  BY <1>2, <1>3, <1>6, PipeHolds
<1>7. CASE PumpContinue(filler)
  <2>1. SendFrom(r, Len(r)) /\ floppyState' = "read_flux" /\ fluxStatus' = "okay"
    BY <1>2, <1>4, <1>7 DEF PumpContinue, r
  <2>2. ~Holds(pkt', "nul") /\ ~Holds(ring', "nul") /\ ~Holds(tx', "nul")
    BY <1>2, <1>3, <1>5, <2>1, SendHolds
  <2> QED BY <1>6, <2>1, <2>2 DEF StatusInv
<1>8. CASE PumpFinish(filler)
  <2> DEFINE end == EndMark(FluxCountNow, EndReason)
             put == Put(r, end)
  <2>1. /\ SendFrom(put, Len(r)) /\ floppyState' = "read_flux_drain" /\ fluxStatus' = "okay"
    BY <1>4, <1>8 DEF PumpFinish, r
  <2>2. /\ Pipe' = Sent \o put /\ end \in Token /\ Len(r) <= Cap /\ put \in Seq(Token)
        /\ active' = FALSE
    BY <1>8, FinishPipe DEF r
  <2>3. end.k = "end"
    BY DEF EndMark
  <2> HIDE DEF end
  <2>4. Toks(put) \subseteq Toks(r) \cup {end} /\ end \in Toks(put) /\ Len(put) = Len(r) + 1
    BY <1>2, <2>2, <2>3, PutCovers, PutType
  <2> HIDE DEF put
  <2>5. ~Holds(put, "nul") /\ Holds(put, "end")
    BY <1>5, <2>3, <2>4 DEF Holds
  <2>6. ~Holds(pkt', "nul") /\ ~Holds(ring', "nul") /\ ~Holds(tx', "nul")
    <3>1. Len(r) <= Len(put)
      BY <1>2, <2>4
    <3> QED BY <1>2, <1>3, <2>1, <2>2, <2>5, <3>1, SendHolds
  <2>7. Holds(Pipe', "end")
    <3>1. Sent \in Seq(Token)
      BY SentLaws
    <3> QED BY <2>2, <2>5, <3>1, HoldsJoined
  <2> QED BY <1>6, <2>1, <2>2, <2>6, <2>7 DEF StatusInv
<1>9. CASE PumpOverflow(filler)
  <2> DEFINE none == <<>>
  <2>1. /\ SendFrom(none, 0) /\ fluxStatus' = "overflow"
    BY <1>9 DEF PumpOverflow
  <2>2. none \in Seq(Token) /\ 0 <= Len(none) /\ ~Holds(none, "nul") /\ 0 \in Nat
    BY EmptyType, HoldsNone
  <2> HIDE DEF none
  <2>3. ~Holds(pkt', "nul") /\ ~Holds(ring', "nul") /\ ~Holds(tx', "nul")
    BY <1>2, <1>3, <2>1, <2>2, SendHolds
  <2>4. Pipe' = Sent /\ active' = FALSE
    BY <1>9, OverflowPipe
  <2>5. Sent \in Seq(Token) /\ Pipe = Sent \o ring
    BY SentLaws
  <2>6. ~Holds(Pipe, "end")
    BY <1>2 DEF StreamInv, Intact
  <2>7. ~Holds(Pipe', "end")
    BY <1>2, <2>4, <2>5, <2>6, HoldsJoined
  <2> QED BY <1>6, <2>1, <2>3, <2>4, <2>7 DEF StatusInv
<1> QED BY <1>7, <1>8, <1>9

LEMMA StatusStep ==
  ASSUME Known, Known', StreamInv, StatusInv, [Next]_vars
  PROVE  StatusInv'
<1>1. CASE WatchdogFires \/ ClearComms \/ SetConfiguration \/ UsbReset
  <2>1. /\ rx' = rx /\ fluxStatus' = fluxStatus /\ active' = FALSE /\ tx' \in {tx, <<>>}
        /\ pkt' = <<>> /\ ring' = <<>> /\ floppyState' \in {"command_wait", "inactive"}
    BY <1>1
    DEF WatchdogFires, ClearComms, SetConfiguration, UsbReset, Configure, AbortSilent,
        StopCapture
  <2> QED BY <2>1, StatusSame
<1>2. CASE (\E c \in Commands : HostSends(c)) \/ Drive \/ Tick \/ UNCHANGED vars
  <2>1. /\ ring' = ring /\ pkt' = pkt /\ tx' = tx /\ rx' = rx /\ fluxStatus' = fluxStatus
        /\ active' = active /\ floppyState' = floppyState
    BY <1>2
    DEF HostSends, Drive, DriveFlux, DriveIndex, DriveReachesData, DriveHalts, Tick,
        vars, usbVars, capVars
  <2> QED BY <2>1, StatusSame
<1>3. CASE CmdQuery \/ CmdPulses \/ CmdSelect
  <2>1. /\ floppyState = "command_wait" /\ tx' = <<Mark("ack")>> /\ ring' = <<>> /\ pkt' = pkt
        /\ rx' = rx /\ fluxStatus' = fluxStatus /\ floppyState' = floppyState /\ active' = active
    BY <1>3 DEF CmdQuery, CmdPulses, CmdSelect, Answer, capVars
  <2>2. pkt' = <<>>
    BY <2>1 DEF Known, Idle
  <2> QED BY <2>1, <2>2, StatusAnswer
<1>4. CASE SendZlp
  <2>1. /\ floppyState = "zlp" /\ tx' = <<Mark("zlp")>> /\ ring' = ring /\ pkt' = pkt
        /\ rx' = rx /\ fluxStatus' = fluxStatus /\ floppyState' = "command_wait"
        /\ active' = active
    BY <1>4 DEF SendZlp, capVars
  <2>2. pkt' = <<>> /\ ring' = <<>>
    BY <2>1 DEF Known, Idle
  <2> QED BY <2>1, <2>2, StatusAnswer
<1>5. CASE CmdCapture
  <2>1. /\ Pipe' = <<Mark("ack")>> /\ rx' = <<>> /\ tx' = <<Mark("ack")>> /\ pkt' = <<>>
        /\ ring' = <<>>
    BY <1>5, CapturePipe
  <2>2. fluxStatus' = "okay" /\ floppyState' = "read_flux"
    BY <1>5 DEF CmdCapture, ReadPrep
  <2>3. \A k \in {"end", "nul"} :
          /\ ~Holds(rx', k) /\ ~Holds(tx', k) /\ ~Holds(pkt', k) /\ ~Holds(ring', k)
          /\ ~Holds(Pipe', k)
    BY <2>1, HoldsNone, HoldsMark DEF Marks
  <2> QED BY <2>2, <2>3 DEF StatusInv
<1>6. CASE ReadPump
  BY <1>6, StatusPump DEF ReadPump
<1>7. CASE Drain \/ DrainLast \/ HostReads
  BY <1>7, StatusDrain, StatusDrainLast, StatusRead
<1> QED
  BY <1>1, <1>2, <1>3, <1>4, <1>5, <1>6, <1>7 DEF Next, Process, RunCommand, Host, Bus

\* A stream that the host got to its NUL has an END exactly if the device reports no
\* overflow: the status is never stale, and no path ends a stream without one of the two.
THEOREM StatusTellsTheTruthAlways == Spec => []StatusTellsTheTruth
<1>1. Init => StatusInv
  <2> SUFFICES ASSUME Init PROVE StatusInv
    OBVIOUS
  <2>1. /\ rx = <<>> /\ ring = <<>> /\ pkt = <<>> /\ tx = <<>> /\ active = FALSE
        /\ floppyState = "inactive" /\ fluxStatus = "okay"
    BY DEF Init
  <2> QED BY <2>1, HoldsNone DEF StatusInv
<1>2. Known /\ StatusInv => StatusTellsTheTruth
  <2> SUFFICES ASSUME Known, StatusInv, Finished PROVE Ends(rx) = {} <=> fluxStatus = "overflow"
    BY DEF StatusTellsTheTruth
  <2>1. Holds(rx, "nul")
    BY DEF Finished, Holds, Toks
  <2>2. Ends(rx) = {} <=> ~Holds(rx, "end")
    BY DEF Ends, Holds, Toks
  <2>3. fluxStatus \in {"okay", "overflow"}
    BY TypedParts DEF Known, StatesOK
  <2>4. Holds(rx, "end") => Holds(Pipe, "end")
    BY PipeHolds
  <2> QED BY <2>1, <2>2, <2>3, <2>4 DEF StatusInv
<1> QED BY <1>1, <1>2, StatusStep, KnownAlways, StreamAlways, PTL DEF Spec

-----------------------------------------------------------------------------
(* The stream as far as its first END. *)

EndsAt(s, i) == i \in Ends(s) /\ \A j \in Ends(s) : i <= j

LEMMA BeforeFirst ==
  ASSUME NEW s \in Seq(Token), NEW i, EndsAt(s, i)
  PROVE  /\ BeforeEnd(s) = SubSeq(s, 1, i - 1) /\ i \in 1 .. Len(s)
         /\ SubSeq(s, 1, i - 1) \in Seq(Token)
<1>1. i \in 1 .. Len(s) /\ Ends(s) # {} /\ Ends(s) \subseteq 1 .. Len(s) /\ Len(s) \in Nat
  BY LenProperties DEF Ends, EndsAt
<1> DEFINE first == CHOOSE j \in Ends(s) : \A m \in Ends(s) : j <= m
<1>2. first \in Ends(s) /\ \A m \in Ends(s) : first <= m
  BY EndsBounds, <1>1
<1>3. BeforeEnd(s) = SubSeq(s, 1, first - 1)
  BY <1>1 DEF BeforeEnd
<1> HIDE DEF first
<1>4. first = i
  BY <1>1, <1>2 DEF EndsAt
<1>5. \A j \in 1 .. Len(s) : s[j] \in Token
  BY ElementOfSeq
<1>6. SubSeq(s, 1, i - 1) \in Seq(Token)
  <2>1. 1 \in Int /\ i - 1 \in Int /\ \A j \in 1 .. i - 1 : s[j] \in Token
    BY <1>1, <1>5
  <2> QED BY <2>1, SubSeqProperties
<1> QED BY <1>1, <1>3, <1>4, <1>6

LEMMA Parts ==
  \A s \in Seq(Token), n \in Nat :
    n <= Len(s) => /\ SubSeq(s, 1, n) \in Seq(Token) /\ Len(SubSeq(s, 1, n)) = n
                   /\ \A i \in 1 .. n : SubSeq(s, 1, n)[i] = s[i]
<1> SUFFICES ASSUME NEW s \in Seq(Token), NEW n \in Nat, n <= Len(s)
             PROVE  /\ SubSeq(s, 1, n) \in Seq(Token) /\ Len(SubSeq(s, 1, n)) = n
                    /\ \A i \in 1 .. n : SubSeq(s, 1, n)[i] = s[i]
  OBVIOUS
<1> DEFINE d == SubSeq(s, 1, n)
<1>1. \A i \in 1 .. n : s[i] \in Token
  BY ElementOfSeq, LenProperties
<1>2. /\ d \in Seq(Token) /\ Len(d) = IF 1 <= n THEN n - 1 + 1 ELSE 0
      /\ \A i \in 1 .. n - 1 + 1 : d[i] = s[1 + i - 1]
  <2>1. 1 \in Int /\ n \in Int
    OBVIOUS
  <2> QED BY <1>1, <2>1, SubSeqProperties
<1> HIDE DEF d
<1>3. d \in Seq(Token) /\ Len(d) = n /\ \A i \in 1 .. n : d[i] = s[i]
  BY <1>2
<1> QED BY <1>3 DEF d

LEMMA BeforeJoined ==
  \A a, b \in Seq(Token) :
    /\ BeforeEnd(a) \in Seq(Token)
    /\ BeforeEnd(a \o b) = IF Ends(a) = {} THEN a \o BeforeEnd(b) ELSE BeforeEnd(a)
<1> TAKE a, b \in Seq(Token)
<1> DEFINE c == a \o b
<1>1. /\ c \in Seq(Token) /\ Len(c) = Len(a) + Len(b) /\ Len(a) \in Nat /\ Len(b) \in Nat
      /\ \A i \in 1 .. Len(a) + Len(b) : c[i] = IF i <= Len(a) THEN a[i] ELSE b[i - Len(a)]
  BY Joined, LenProperties
<1>2. \A s \in Seq(Token) : Ends(s) # {} => \E i \in Ends(s) : EndsAt(s, i)
  BY EndsBounds DEF EndsAt
<1>3. BeforeEnd(a) \in Seq(Token)
  <2>1. CASE Ends(a) = {}
    BY <2>1 DEF BeforeEnd
  <2>2. CASE Ends(a) # {}
    BY <1>2, <2>2, BeforeFirst
  <2> QED BY <2>1, <2>2
<1>4. CASE Ends(a) # {}
  <2> PICK i \in Ends(a) : EndsAt(a, i)
    BY <1>2, <1>4
  <2>1. i \in 1 .. Len(a) /\ BeforeEnd(a) = SubSeq(a, 1, i - 1)
    BY BeforeFirst
  <2>2. EndsAt(c, i)
    <3> HIDE DEF c
    <3>1. \A j \in Ends(c) : j \in 1 .. Len(a) + Len(b) /\ (j <= Len(a) => j \in Ends(a))
      BY <1>1 DEF Ends
    <3>2. i \in Ends(c)
      BY <1>1, <2>1 DEF Ends
    <3>3. \A j \in Ends(c) : i <= j
      BY <1>1, <2>1, <3>1 DEF EndsAt
    <3> QED BY <3>2, <3>3 DEF EndsAt
  <2>3. BeforeEnd(c) = SubSeq(c, 1, i - 1)
    <3> HIDE DEF c
    <3> QED BY <1>1, <2>2, BeforeFirst
  <2>4. SubSeq(c, 1, i - 1) = SubSeq(a, 1, i - 1)
    <3> DEFINE d == SubSeq(c, 1, i - 1)
               p == SubSeq(a, 1, i - 1)
    <3>1. i - 1 \in Nat /\ i - 1 <= Len(a) /\ i - 1 <= Len(c)
      BY <1>1, <2>1
    <3>2. d \in Seq(Token) /\ Len(d) = i - 1 /\ \A j \in 1 .. i - 1 : d[j] = c[j]
      <4> HIDE DEF c
      <4> QED BY <1>1, <3>1, Parts
    <3>3. p \in Seq(Token) /\ Len(p) = i - 1 /\ \A j \in 1 .. i - 1 : p[j] = a[j]
      BY <3>1, Parts
    <3>4. \A j \in 1 .. i - 1 : c[j] = a[j]
      BY <1>1, <2>1
    <3> HIDE DEF c, d, p
    <3>5. d = p
      BY <3>2, <3>3, <3>4, SeqEqual
    <3> QED BY <3>5 DEF d, p
  <2> QED BY <1>3, <1>4, <2>1, <2>3, <2>4
<1>5. CASE Ends(a) = {}
  <2>1. CASE Ends(b) = {}
    <3>1. Ends(c) = {}
      <4> HIDE DEF c
      <4>1. \A i \in 1 .. Len(c) : c[i].k # "end"
        <5> TAKE i \in 1 .. Len(c)
        <5>1. CASE i <= Len(a)
          BY <1>1, <1>5, <5>1 DEF Ends
        <5>2. CASE ~(i <= Len(a))
          <6>1. i - Len(a) \in 1 .. Len(b) /\ c[i] = b[i - Len(a)]
            BY <1>1, <5>2
          <6> QED BY <2>1, <6>1 DEF Ends
        <5> QED BY <5>1, <5>2
      <4> QED BY <4>1 DEF Ends
    <3> QED BY <1>3, <1>5, <2>1, <3>1 DEF BeforeEnd
  <2>2. CASE Ends(b) # {}
    <3> PICK i \in Ends(b) : EndsAt(b, i)
      BY <1>2, <2>2
    <3> DEFINE n == Len(a)
    <3>1. i \in 1 .. Len(b) /\ BeforeEnd(b) = SubSeq(b, 1, i - 1) /\ b[i].k = "end"
      BY BeforeFirst DEF Ends
    <3>2. EndsAt(c, n + i)
      <4> HIDE DEF c
      <4>1. n + i \in Ends(c)
        <5>1. n + i \in 1 .. Len(c) /\ ~(n + i <= n) /\ (n + i) - n = i
          BY <1>1, <3>1
        <5> QED BY <1>1, <3>1, <5>1 DEF Ends
      <4>2. \A j \in Ends(c) : j - n \in Ends(b) /\ j \in Nat
        <5> TAKE j \in Ends(c)
        <5>1. j \in 1 .. Len(c) /\ c[j].k = "end"
          BY DEF Ends
        <5>2. ~(j <= n)
          <6> SUFFICES ASSUME j <= n PROVE FALSE
            OBVIOUS
          <6>1. j \in 1 .. n /\ c[j] = a[j]
            BY <1>1, <5>1
          <6> QED BY <1>5, <5>1, <6>1 DEF Ends
        <5>3. j - n \in 1 .. Len(b) /\ c[j] = b[j - n]
          BY <1>1, <5>1, <5>2
        <5> QED BY <5>1, <5>3 DEF Ends
      <4>3. \A j \in Ends(c) : n + i <= j
        BY <1>1, <3>1, <4>2 DEF EndsAt
      <4> QED BY <4>1, <4>3 DEF EndsAt
    <3>3. BeforeEnd(c) = SubSeq(c, 1, n + i - 1)
      <4> HIDE DEF c
      <4> QED BY <1>1, <3>2, BeforeFirst
    <3> DEFINE d == SubSeq(c, 1, n + i - 1)
               p == SubSeq(b, 1, i - 1)
    <3>4. d \in Seq(Token) /\ Len(d) = n + i - 1 /\ \A j \in 1 .. n + i - 1 : d[j] = c[j]
      <4> HIDE DEF c
      <4>1. n + i - 1 \in Nat /\ n + i - 1 <= Len(c)
        BY <1>1, <3>1
      <4> QED BY <1>1, <4>1, Parts
    <3>5. p \in Seq(Token) /\ Len(p) = i - 1 /\ \A j \in 1 .. i - 1 : p[j] = b[j]
      <4>1. i - 1 \in Nat /\ i - 1 <= Len(b)
        BY <1>1, <3>1
      <4> QED BY <4>1, Parts
    <3> HIDE DEF d, p, c
    <3>6. a \o p \in Seq(Token) /\ Len(a \o p) = n + Len(p)
          /\ \A j \in 1 .. n + Len(p) : (a \o p)[j] = IF j <= n THEN a[j] ELSE p[j - n]
      BY <3>5, Joined
    <3>7. \A j \in 1 .. Len(d) : d[j] = (a \o p)[j]
      <4> TAKE j \in 1 .. Len(d)
      <4>1. j \in 1 .. n + Len(p) /\ j \in 1 .. Len(a) + Len(b) /\ d[j] = c[j]
        BY <1>1, <3>1, <3>4, <3>5
      <4>2. CASE j <= n
        BY <1>1, <3>6, <4>1, <4>2
      <4>3. CASE ~(j <= n)
        <5>1. j - n \in 1 .. i - 1
          BY <1>1, <3>1, <3>4, <4>3
        <5> QED BY <1>1, <3>5, <3>6, <4>1, <4>3, <5>1
      <4> QED BY <4>2, <4>3
    <3>8. Len(d) = Len(a \o p)
      BY <1>1, <3>1, <3>4, <3>5, <3>6
    <3>9. d = a \o p
      BY <3>4, <3>6, <3>7, <3>8, SeqEqual
    <3> QED BY <1>3, <1>5, <3>1, <3>3, <3>9 DEF d, p, c
  <2> QED BY <2>1, <2>2
<1> QED BY <1>4, <1>5

\* The transitions up to the first END.
FluxBefore(s) == FluxOf(BeforeEnd(s))

LEMMA FluxBeforeJoined ==
  \A a, b \in Seq(Token) :
    /\ FluxBefore(a) \in Seq(Token)
    /\ FluxBefore(a \o b) = IF Ends(a) = {} THEN FluxOf(a) \o FluxBefore(b) ELSE FluxBefore(a)
<1> TAKE a, b \in Seq(Token)
<1>1. /\ BeforeEnd(a) \in Seq(Token) /\ BeforeEnd(b) \in Seq(Token)
      /\ BeforeEnd(a \o b) = IF Ends(a) = {} THEN a \o BeforeEnd(b) ELSE BeforeEnd(a)
  BY BeforeJoined
<1>2. FluxBefore(a) \in Seq(Token)
  BY <1>1, FluxJoined DEF FluxBefore
<1>3. FluxOf(a \o BeforeEnd(b)) = FluxOf(a) \o FluxOf(BeforeEnd(b))
  BY <1>1, FluxJoined
<1> QED BY <1>1, <1>2, <1>3 DEF FluxBefore

LEMMA FluxBeforeAll == \A s : Ends(s) = {} => FluxBefore(s) = FluxOf(s)
BY DEF FluxBefore, BeforeEnd

LEMMA EndsHeld == \A s : Ends(s) = {} <=> ~Holds(s, "end")
BY DEF Ends, Holds, Toks

\* Nothing comes before an END at the head.
LEMMA FluxBeforeNone ==
  ASSUME NEW s \in Seq(Token), Len(s) # 0, s[1].k = "end"
  PROVE  FluxBefore(s) = <<>>
<1>1. 1 \in 1 .. Len(s) /\ \A j \in Ends(s) : 1 <= j
  BY LenProperties DEF Ends
<1>2. EndsAt(s, 1)
  BY <1>1 DEF EndsAt, Ends
<1>3. BeforeEnd(s) = SubSeq(s, 1, 0)
  <2>1. BeforeEnd(s) = SubSeq(s, 1, 1 - 1) /\ 1 - 1 = 0
    BY <1>2, BeforeFirst
  <2> QED BY <2>1
<1>4. SubSeq(s, 1, 0) = <<>>
  <2> DEFINE d == SubSeq(s, 1, 0)
  <2>1. d \in Seq(Token) /\ Len(d) = 0
    BY Parts, LenProperties
  <2> HIDE DEF d
  <2>2. d = <<>>
    BY <2>1, EmptySeq
  <2> QED BY <2>2 DEF d
<1> QED BY <1>3, <1>4, FluxOfNone DEF FluxBefore

\* The histories keep what comes before END.
LEMMA FluxBeforeStream ==
  \A s \in Seq(Token) : FluxBefore(Stream(s)) = FluxBefore(s)
<1> DEFINE M == {s \in Seq(Token) : FluxBefore(Stream(s)) = FluxBefore(s)}
<1>1. <<>> \in M
  <2>1. Stream(<<>>) = <<>>
    BY KeptEmpty DEF Stream
  <2> QED BY <2>1, EmptyType
<1>2. \A s \in Seq(Token), t \in Token : s \in M => Append(s, t) \in M
  <2> SUFFICES ASSUME NEW s \in Seq(Token), NEW t \in Token, s \in M
               PROVE  Append(s, t) \in M
    OBVIOUS
  <2> DEFINE one == <<t>>
             r == Stream(s)
  <2>1. one \in Seq(Token) /\ Append(s, t) = s \o one /\ Append(s, t) \in Seq(Token)
    BY SingleType, AppendIsConcat, AppendProperties
  <2>2. r \in Seq(Token) /\ FluxOf(r) = FluxOf(s)
    BY StreamKeeps
  <2>3. Ends(r) = {} <=> Ends(s) = {}
    BY HoldsJoined, EndsHeld
  <2>4. Stream(Append(s, t)) = IF t.k \in {"flux", "end", "nul"} THEN Append(r, t) ELSE r
    BY KeptAppend DEF Stream
  <2>5. FluxBefore(r) = FluxBefore(s)
    OBVIOUS
  <2> HIDE DEF r
  <2>6. Append(r, t) = r \o one
    BY <2>2, AppendIsConcat
  <2> HIDE DEF one
  <2>7. FluxBefore(s \o one) = IF Ends(s) = {} THEN FluxOf(s) \o FluxBefore(one) ELSE FluxBefore(s)
    BY <2>1, FluxBeforeJoined
  <2>8. FluxBefore(r \o one) = IF Ends(r) = {} THEN FluxOf(r) \o FluxBefore(one) ELSE FluxBefore(r)
    BY <2>1, <2>2, FluxBeforeJoined
  <2>9. CASE t.k \in {"flux", "end", "nul"}
    BY <2>1, <2>2, <2>3, <2>4, <2>5, <2>6, <2>7, <2>8, <2>9
  <2>10. CASE t.k \notin {"flux", "end", "nul"}
    <3>1. one[1] = t /\ Len(one) = 1
      BY DEF one
    <3>2. \A x \in Toks(one) : x.k \notin {"flux", "end", "nul"}
      BY <2>10, <3>1 DEF Toks
    <3>3. FluxOf(one) = <<>> /\ Ends(one) = {}
      BY <2>1, <3>2, KeptNone, EndsHeld DEF FluxOf, Holds
    <3>4. FluxBefore(one) = <<>>
      BY <3>3, FluxBeforeAll
    <3>5. FluxOf(s) \in Seq(Token)
      BY FluxJoined
    <3>6. FluxBefore(s \o one) = FluxBefore(s)
      BY <2>7, <3>4, <3>5, JoinedToNone, FluxBeforeAll
    <3> QED BY <2>1, <2>4, <2>5, <2>10, <3>6
  <2> QED BY <2>9, <2>10
<1> HIDE DEF M
<1>3. Seq(Token) \subseteq M
  BY <1>1, <1>2, SeqSetInduction
<1> QED BY <1>3 DEF M

-----------------------------------------------------------------------------
(* What the host has before END is a prefix of what was encoded. *)

Starts(p, l) == \E e \in Seq(Token) : l = p \o e

LEMMA StartsOn ==
  \A x, y, z \in Seq(Token) : Starts(x, y) /\ Starts(y, z) => Starts(x, z)
<1> SUFFICES ASSUME NEW x \in Seq(Token), NEW y, NEW z, Starts(x, y), Starts(y, z)
             PROVE  Starts(x, z)
  OBVIOUS
<1> PICK a \in Seq(Token) : y = x \o a
  BY DEF Starts
<1> PICK b \in Seq(Token) : z = y \o b
  BY DEF Starts
<1>1. (x \o a) \o b = x \o (a \o b)
  BY Regrouped
<1>2. a \o b \in Seq(Token) /\ z = x \o (a \o b)
  BY <1>1, Joined
<1> QED BY <1>2 DEF Starts

LEMMA StartsLaws ==
  \A p, q, l, e \in Seq(Token) :
    /\ Starts(p, p) /\ Starts(p, p \o e)
    /\ Starts(p, q) /\ Starts(q, l) => Starts(p, l)
    /\ Starts(p, l) => Starts(p, l \o e) /\ IsPrefix(p, l)
<1> TAKE p, q, l, e \in Seq(Token)
<1>1. Starts(p, p)
  BY EmptyType, JoinedToNone DEF Starts
<1>2. Starts(p, p \o e)
  BY DEF Starts
<1>3. \A x, y, z \in Seq(Token) : Starts(x, y) /\ Starts(y, z) => Starts(x, z)
  BY StartsOn
<1>4. ASSUME Starts(p, l)
      PROVE  Starts(p, l \o e)
  <2>1. Starts(l, l \o e) /\ l \o e \in Seq(Token)
    BY Joined DEF Starts
  <2> DEFINE m == l \o e
  <2>2. m \in Seq(Token) /\ Starts(l, m)
    BY <2>1
  <2> HIDE DEF m
  <2>3. Starts(p, m)
    BY <1>3, <1>4, <2>2
  <2> QED BY <2>3 DEF m
<1>5. ASSUME Starts(p, l)
      PROVE  IsPrefix(p, l)
  <2> PICK a \in Seq(Token) : l = p \o a
    BY <1>5 DEF Starts
  <2>1. /\ Len(l) = Len(p) + Len(a) /\ Len(p) \in Nat /\ Len(a) \in Nat
        /\ \A i \in 1 .. Len(p) + Len(a) : l[i] = IF i <= Len(p) THEN p[i] ELSE a[i - Len(p)]
    BY Joined, LenProperties
  <2> DEFINE x == SubSeq(p, 1, Len(p))
             y == SubSeq(l, 1, Len(p))
  <2>2. Len(p) <= Len(l) /\ Len(p) <= Len(p)
    BY <2>1
  <2>3. x \in Seq(Token) /\ Len(x) = Len(p) /\ \A i \in 1 .. Len(p) : x[i] = p[i]
    BY <2>1, <2>2, Parts
  <2>4. y \in Seq(Token) /\ Len(y) = Len(p) /\ \A i \in 1 .. Len(p) : y[i] = l[i]
    BY <2>1, <2>2, Parts
  <2> HIDE DEF x, y
  <2>5. \A i \in 1 .. Len(p) : x[i] = y[i]
    BY <2>1, <2>3, <2>4
  <2>6. x = y
    BY <2>3, <2>4, <2>5, SeqEqual
  <2> QED BY <2>2, <2>6 DEF IsPrefix, x, y
<1> QED BY <1>1, <1>2, <1>3, <1>4, <1>5

LEMMA FluxBeforeStarts ==
  \A a, b \in Seq(Token) : /\ Starts(FluxBefore(a), FluxBefore(a \o b))
                           /\ Starts(FluxBefore(a), FluxOf(a))
<1> TAKE a, b \in Seq(Token)
<1>1. /\ FluxBefore(a) \in Seq(Token) /\ FluxBefore(b) \in Seq(Token) /\ FluxOf(a) \in Seq(Token)
      /\ FluxBefore(a \o b) = IF Ends(a) = {} THEN FluxOf(a) \o FluxBefore(b) ELSE FluxBefore(a)
  BY FluxBeforeJoined, FluxJoined
<1>2. Starts(FluxBefore(a), FluxBefore(a \o b))
  <2>1. CASE Ends(a) = {}
    <3>1. FluxBefore(a) = FluxOf(a) /\ FluxBefore(a \o b) = FluxOf(a) \o FluxBefore(b)
      BY <1>1, <2>1, FluxBeforeAll
    <3> QED BY <1>1, <3>1 DEF Starts
  <2>2. CASE Ends(a) # {}
    BY <1>1, <2>2, StartsLaws
  <2> QED BY <2>1, <2>2
<1>3. Starts(FluxBefore(a), FluxOf(a))
  <2>1. CASE Ends(a) = {}
    BY <1>1, <2>1, FluxBeforeAll, StartsLaws
  <2>2. CASE Ends(a) # {}
    <3>1. PICK i \in Ends(a) : EndsAt(a, i)
      BY <2>2, EndsBounds DEF EndsAt
    <3> DEFINE n == Len(a)
               p == SubSeq(a, 1, i - 1)
               q == SubSeq(a, i, n)
    <3>2. BeforeEnd(a) = p /\ p \in Seq(Token) /\ i \in 1 .. n /\ n \in Nat
      BY <3>1, BeforeFirst, LenProperties
    <3>3. q \in Seq(Token)
      <4>1. \A j \in i .. n : a[j] \in Token
        BY <3>2, ElementOfSeq
      <4>2. i \in Int /\ n \in Int
        BY <3>2
      <4> QED BY <4>1, <4>2, SubSeqProperties
    <3>4. p \o q = a
      <4> DEFINE m == i - 1
      <4>1. m \in 1 - 1 .. n /\ n \in m .. n /\ 1 \in 1 .. n + 1 /\ m + 1 = i
        BY <3>2
      <4> HIDE DEF m
      <4>2. SubSeq(a, 1, m) \o SubSeq(a, m + 1, n) = SubSeq(a, 1, n)
        BY <4>1, ConcatAdjacentSubSeq
      <4>3. SubSeq(a, 1, n) = a
        BY SubSeqFull
      <4> QED BY <4>1, <4>2, <4>3 DEF m
    <3> HIDE DEF p, q
    <3>5. FluxOf(a) = FluxOf(p) \o FluxOf(q) /\ FluxOf(q) \in Seq(Token)
      BY <3>2, <3>3, <3>4, FluxJoined, ZenonT(60)
    <3> QED BY <3>2, <3>5 DEF Starts, FluxBefore
  <2> QED BY <2>1, <2>2
<1> QED BY <1>2, <1>3

PrefixInv == Starts(FluxBefore(Pipe), FluxOf(log))

\* The stream before its first END when tokens are dropped behind it, or marks follow.
LEMMA PrefixDropped ==
  ASSUME NEW p \in Seq(Token), NEW e \in Seq(Token), NEW l \in Seq(Token),
         Starts(FluxBefore(p \o e), FluxOf(l))
  PROVE  Starts(FluxBefore(p), FluxOf(l))
<1> DEFINE x == FluxBefore(p)
           y == FluxBefore(p \o e)
           z == FluxOf(l)
<1>1. x \in Seq(Token) /\ z \in Seq(Token) /\ Starts(x, y) /\ Starts(y, z)
  BY FluxBeforeJoined, FluxJoined, FluxBeforeStarts
<1>2. y \in Seq(Token)
  <2> DEFINE c == p \o e
  <2>1. c \in Seq(Token)
    BY Joined
  <2> HIDE DEF c
  <2>2. FluxBefore(c) \in Seq(Token)
    BY <2>1, FluxBeforeJoined
  <2> QED BY <2>2 DEF c
<1> HIDE DEF x, y, z
<1>3. Starts(x, z)
  BY <1>1, <1>2, StartsOn
<1> QED BY <1>3 DEF x, z

LEMMA PrefixMarked ==
  ASSUME NEW p \in Seq(Token), NEW k \in Marks
  PROVE  FluxBefore(p \o <<Mark(k)>>) = FluxBefore(p)
<1> DEFINE one == <<Mark(k)>>
<1>1. one \in Seq(Token) /\ FluxOf(one) = <<>> /\ ~Holds(one, "end")
  BY MarkLaws DEF Holds, Marks
<1> HIDE DEF one
<1>2. FluxBefore(one) = <<>>
  BY <1>1, EndsHeld, FluxBeforeAll
<1>3. FluxBefore(p \o one) = IF Ends(p) = {} THEN FluxOf(p) \o FluxBefore(one) ELSE FluxBefore(p)
  BY <1>1, FluxBeforeJoined
<1>4. FluxOf(p) \in Seq(Token)
  BY FluxJoined
<1>5. FluxBefore(p \o one) = FluxBefore(p)
  BY <1>2, <1>3, <1>4, FluxBeforeAll, JoinedToNone
<1> QED BY <1>5 DEF one

LEMMA PrefixFinish ==
  ASSUME Known, Known', StreamInv, NEW filler, PumpFinish(filler)
  PROVE  PrefixInv'
<1> DEFINE e   == Encoded(filler)
           r   == ring \o e
           end == EndMark(FluxCountNow, EndReason)
           put == Put(r, end)
           one == <<end>>
           l   == FluxOf(log')
<1>1. e \in Seq(Token) /\ \A t \in Toks(e) : t.k \notin {"end", "nul"}
  BY TypedParts, EncodedFlux DEF Known, CountsOK
<1>2. /\ Pipe' = Sent \o put /\ log' = (log \o Stream(e)) \o one
      /\ r \in Seq(Token) /\ end \in Token /\ Len(r) <= Cap
      /\ put \in Seq(Token) /\ active
  BY FinishPipe
<1>3. Sent \in Seq(Token) /\ Pipe = Sent \o ring /\ ring \in Seq(Token) /\ log \in Seq(Token)
  BY SentLaws, TypedParts DEF Known, Recorded
<1>4. ~Holds(Pipe, "end") /\ FluxOf(Pipe) = FluxOf(log)
  BY <1>2 DEF StreamInv, Intact
<1>5. Ends(Sent) = {} /\ ~Holds(ring, "end")
  BY <1>3, <1>4, HoldsJoined, EndsHeld
<1>6. end.k = "end"
  BY DEF EndMark
<1> HIDE DEF e, end
<1>7. Ends(r) = {}
  <2>1. ~Holds(e, "end")
    BY <1>1 DEF Holds
  <2> QED BY <1>1, <1>3, <1>5, <2>1, HoldsJoined, EndsHeld
<1>8. one \in Seq(Token) /\ FluxOf(one) = <<>> /\ FluxBefore(one) = <<>>
  <2>1. one \in Seq(Token) /\ Len(one) = 1 /\ one[1] = end
    BY <1>2, SingleType
  <2> HIDE DEF one
  <2>2. \A t \in Toks(one) : t.k # "flux"
    BY <1>6, <2>1 DEF Toks
  <2>3. FluxOf(one) = <<>>
    BY <2>1, <2>2, KeptNone DEF FluxOf
  <2> QED BY <1>6, <2>1, <2>3, FluxBeforeNone
<1> HIDE DEF one
\* What was encoded is what is sent, what waits and what this pump adds.
<1>9. l = FluxOf(Sent) \o FluxOf(r)
  <2> DEFINE f == Stream(e)
             m == log \o f
  <2>1. f \in Seq(Token) /\ FluxOf(f) = FluxOf(e)
    BY <1>1, StreamKeeps
  <2> HIDE DEF f
  <2>2. m \in Seq(Token) /\ FluxOf(m) = FluxOf(log) \o FluxOf(f)
    BY <1>3, <2>1, Joined, FluxJoined
  <2> HIDE DEF m
  <2>3. FluxOf(m \o one) = FluxOf(m) \o FluxOf(one) /\ FluxOf(m) \in Seq(Token)
    BY <1>8, <2>2, FluxJoined
  <2>4. l = FluxOf(log) \o FluxOf(e)
    BY <1>2, <1>8, <2>1, <2>2, <2>3, JoinedToNone DEF f, m
  <2>5. FluxOf(Sent \o ring) = FluxOf(Sent) \o FluxOf(ring) /\ FluxOf(ring \o e) = FluxOf(ring) \o FluxOf(e)
    BY <1>1, <1>3, FluxJoined
  <2>6. FluxOf(Sent) \in Seq(Token) /\ FluxOf(ring) \in Seq(Token) /\ FluxOf(e) \in Seq(Token)
    BY <1>1, <1>3, FluxJoined
  <2>7. (FluxOf(Sent) \o FluxOf(ring)) \o FluxOf(e) = FluxOf(Sent) \o (FluxOf(ring) \o FluxOf(e))
    BY <2>6, Regrouped
  <2> QED BY <1>3, <1>4, <2>4, <2>5, <2>7
<1> HIDE DEF l
<1>10. FluxBefore(Pipe') = FluxOf(Sent) \o FluxBefore(put)
  <2> HIDE DEF put
  <2> QED BY <1>2, <1>3, <1>5, FluxBeforeJoined
<1>11. CASE Len(r) < Cap
  <2> HIDE DEF r
  <2>1. put = r \o one
    BY <1>2, <1>11, AppendIsConcat DEF Put, one
  <2>2. FluxBefore(r \o one) = FluxOf(r) \o FluxBefore(one) /\ FluxOf(r) \in Seq(Token)
    BY <1>2, <1>7, <1>8, FluxBeforeJoined, FluxJoined
  <2>3. FluxBefore(Pipe') = l
    BY <1>8, <1>9, <1>10, <2>1, <2>2, JoinedToNone
  <2>4. l \in Seq(Token)
    BY FluxJoined DEF Known, Recorded, l
  <2> QED BY <2>3, <2>4, StartsLaws DEF PrefixInv, l
<1>12. CASE ~(Len(r) < Cap)
  <2> HIDE DEF r
  <2>0. Cap \in Nat \ {0} /\ Len(r) \in Nat
    BY <1>2, SizesAssumption, LenProperties
  <2>1. Len(r) = Cap /\ 1 \in 1 .. Len(r) /\ Len(r) + 1 - Cap = 1
    BY <1>2, <1>12, <2>0
  <2> DEFINE s == [r EXCEPT ![1] = end]
  <2>2. s \in Seq(Token) /\ Len(s) = Len(r) /\ s[1] = end
    BY <1>2, <2>1, ExceptSeq
  <2>3. put = Append(s, end)
    BY <1>12, <2>1 DEF Put
  <2> HIDE DEF s, put
  <2>4. Len(put) # 0 /\ put[1] = end
    BY <1>2, <2>0, <2>1, <2>2, <2>3, AppendProperties
  <2>5. FluxBefore(put) = <<>>
    BY <1>2, <1>6, <2>4, FluxBeforeNone
  <2>6. FluxOf(Sent) \in Seq(Token) /\ FluxOf(r) \in Seq(Token)
    BY <1>2, <1>3, FluxJoined
  <2>7. FluxBefore(Pipe') = FluxOf(Sent)
    BY <1>10, <2>5, <2>6, JoinedToNone
  <2> QED BY <1>9, <2>6, <2>7 DEF PrefixInv, Starts, l
<1> QED BY <1>11, <1>12

LEMMA PrefixStep ==
  ASSUME Known, Known', StreamInv, StreamInv', PrefixInv, [Next]_vars
  PROVE  PrefixInv'
<1>0. Pipe \in Seq(Token) /\ Pipe' \in Seq(Token) /\ log \in Seq(Token) /\ log' \in Seq(Token)
  BY PipeLaws DEF PipeIsJoined, Known, Recorded
<1>1. CASE active'
  <2>1. FluxOf(Pipe') = FluxOf(log') /\ Ends(Pipe') = {}
    BY <1>1, EndsHeld DEF StreamInv, Intact
  <2>2. FluxOf(log') \in Seq(Token)
    BY <1>0, FluxJoined
  <2> QED BY <2>1, <2>2, FluxBeforeAll, StartsLaws DEF PrefixInv
<1>2. CASE Quiet
  <2>1. CASE Pipe' = Pipe
    BY <1>2, <2>1 DEF Quiet, PrefixInv
  <2>2. CASE \E e \in Seq(Token) : Pipe = Pipe' \o e
    <3> PICK e \in Seq(Token) : Pipe = Pipe' \o e
      BY <2>2
    <3> QED BY <1>0, <1>2, PrefixDropped DEF Quiet, PrefixInv
  <2>3. CASE \E k \in {"ack", "zlp"} : Pipe' = Pipe \o <<Mark(k)>>
    <3> PICK k \in {"ack", "zlp"} : Pipe' = Pipe \o <<Mark(k)>>
      BY <2>3
    <3>1. k \in Marks
      BY DEF Marks
    <3>2. FluxBefore(Pipe \o <<Mark(k)>>) = FluxBefore(Pipe)
      BY <1>0, <3>1, PrefixMarked
    <3>3. FluxBefore(Pipe') = FluxBefore(Pipe)
      BY <3>2
    <3> QED BY <1>2, <3>3 DEF Quiet, PrefixInv
  <2> QED BY <1>2, <2>1, <2>2, <2>3, QuietPipe
<1>3. CASE CmdCapture
  BY <1>1, <1>3, CapturePipe
<1>4. CASE ReadPump
  <2> PICK filler \in BOOLEAN :
             PumpOverflow(filler) \/ PumpFinish(filler) \/ PumpContinue(filler)
    BY <1>4 DEF ReadPump
  <2>1. CASE PumpContinue(filler)
    BY <1>1, <2>1, ContinuePipe
  <2>2. CASE PumpFinish(filler)
    BY <2>2, PrefixFinish
  <2>3. CASE PumpOverflow(filler)
    <3> DEFINE e == Stream(Encoded(filler))
    <3>1. Pipe' = Sent /\ log' = log \o e /\ e \in Seq(Token)
      BY <2>3, OverflowPipe, PumpLogs DEF Known
    <3>2. Sent \in Seq(Token) /\ ring \in Seq(Token) /\ Pipe = Sent \o ring
      BY SentLaws, TypedParts DEF Known
    <3> HIDE DEF e
    <3>3. Starts(FluxBefore(Sent), FluxOf(log))
      BY <1>0, <3>2, PrefixDropped DEF PrefixInv
    <3>4. /\ FluxOf(log') = FluxOf(log) \o FluxOf(e)
          /\ FluxOf(log) \in Seq(Token) /\ FluxOf(e) \in Seq(Token) /\ FluxBefore(Sent) \in Seq(Token)
      BY <1>0, <3>1, <3>2, FluxJoined, FluxBeforeJoined
    <3>5. Starts(FluxBefore(Sent), FluxOf(log) \o FluxOf(e))
      BY <3>3, <3>4, StartsLaws
    <3> QED BY <3>1, <3>4, <3>5 DEF PrefixInv
  <2> QED BY <2>1, <2>2, <2>3
<1>5. CASE DrainLast
  <2>1. Pipe' = Pipe \o <<Mark("nul")>> /\ log' = log /\ "nul" \in Marks
    BY <1>5, DrainLastPipe DEF Marks
  <2>2. FluxBefore(Pipe') = FluxBefore(Pipe)
    BY <1>0, <2>1, PrefixMarked
  <2> QED BY <2>1, <2>2 DEF PrefixInv
<1>6. CASE HostReads
  <2> DEFINE rest == pkt \o ring
             got == Stream(tx)
  <2>1. /\ Pipe = (rx \o tx) \o rest /\ Pipe' = (rx \o got) \o rest
        /\ rest \in Seq(Token) /\ tx \in Seq(Token) /\ got \in Seq(Token) /\ rx \in Seq(Token)
        /\ log' = log
    BY <1>6, ReadPipe DEF Known, Recorded
  <2>2. FluxBefore(got) = FluxBefore(tx) /\ FluxOf(got) = FluxOf(tx) /\ (Ends(got) = {} <=> Ends(tx) = {})
    BY <2>1, FluxBeforeStream, StreamKeeps, HoldsJoined, EndsHeld
  <2> HIDE DEF rest, got
  <2>3. /\ rx \o tx \in Seq(Token) /\ rx \o got \in Seq(Token)
        /\ FluxOf(rx \o tx) = FluxOf(rx \o got) /\ FluxBefore(rx \o tx) = FluxBefore(rx \o got)
    <3>1. rx \o tx \in Seq(Token) /\ rx \o got \in Seq(Token)
      BY <2>1, Joined
    <3>2. FluxOf(rx \o tx) = FluxOf(rx) \o FluxOf(tx) /\ FluxOf(rx \o got) = FluxOf(rx) \o FluxOf(got)
      BY <2>1, FluxJoined
    <3>3. /\ FluxBefore(rx \o tx) = IF Ends(rx) = {} THEN FluxOf(rx) \o FluxBefore(tx) ELSE FluxBefore(rx)
          /\ FluxBefore(rx \o got) = IF Ends(rx) = {} THEN FluxOf(rx) \o FluxBefore(got) ELSE FluxBefore(rx)
      BY <2>1, FluxBeforeJoined
    <3> QED BY <2>2, <3>1, <3>2, <3>3
  <2>4. Ends(rx \o tx) = {} <=> Ends(rx \o got) = {}
    <3>1. Holds(rx \o tx, "end") <=> Holds(rx, "end") \/ Holds(tx, "end")
      BY <2>1, HoldsJoined
    <3>2. Holds(rx \o got, "end") <=> Holds(rx, "end") \/ Holds(got, "end")
      BY <2>1, HoldsJoined
    <3> QED BY <2>2, <3>1, <3>2, EndsHeld
  <2>5. FluxBefore(Pipe') = FluxBefore(Pipe)
    <3>1. FluxBefore((rx \o tx) \o rest) = IF Ends(rx \o tx) = {} THEN FluxOf(rx \o tx) \o FluxBefore(rest) ELSE FluxBefore(rx \o tx)
      BY <2>1, <2>3, FluxBeforeJoined
    <3>2. FluxBefore((rx \o got) \o rest) = IF Ends(rx \o got) = {} THEN FluxOf(rx \o got) \o FluxBefore(rest) ELSE FluxBefore(rx \o got)
      BY <2>1, <2>3, FluxBeforeJoined
    <3> QED BY <2>1, <2>3, <2>4, <3>1, <3>2
  <2> QED BY <2>1, <2>5 DEF PrefixInv
<1> QED BY <1>2, <1>3, <1>4, <1>5, <1>6, Steps

LEMMA PrefixAlways == Spec => []PrefixInv
<1>1. Init => PrefixInv
  <2> SUFFICES ASSUME Init PROVE PrefixInv
    OBVIOUS
  <2>1. rx = <<>> /\ log = <<>> /\ ring = <<>> /\ pkt = <<>> /\ tx = <<>>
    BY DEF Init
  <2>2. Pipe = <<>>
    BY <2>1, EmptyType, JoinedToNone DEF Pipe, Held
  <2>3. Ends(<<>>) = {}
    BY HoldsNone, EndsHeld
  <2> QED BY <2>1, <2>2, <2>3, FluxBeforeAll, FluxOfNone, EmptyType, StartsLaws DEF PrefixInv
<1> QED BY <1>1, PrefixStep, KnownAlways, StreamAlways, PTL DEF Spec

-----------------------------------------------------------------------------
(* The capture implements the abstract session, step by step. *)

\* A step that changes nothing a session has.
LEMMA SessionStutters ==
  ASSUME active' = active, log' = log, rx' = rx, (rolling = "capture") = (rolling = "capture")'
  PROVE  UNCHANGED Session!vars
BY DEF Session!vars, Sealed

\* The tape is let go by whoever ends the capture.
LEMMA TapeLetGo ==
  ASSUME Owns, PulseStop
  PROVE  rolling' # "capture"
BY DEF Owns, CaptureOwnsTape, PulseStop

LEMMA SessionAborts ==
  ASSUME Known, StreamInv, AbortSilent, log' = log, rx' = rx
  PROVE  [Session!Next]_Session!vars
<1>1. CASE active
  <2>1. active' = FALSE /\ rolling' # "capture"
    BY <1>1, TapeLetGo DEF AbortSilent, StopCapture, Known
  <2>2. ~Sealed'
    <3>1. ~Sealed
      BY <1>1, EndsHeld DEF StreamInv, Intact, Sealed
    <3> QED BY <3>1 DEF Sealed
  <2>3. IsPrefix(FluxOf(log), FluxOf(log))
    <3>1. FluxOf(log) \in Seq(Token)
      BY FluxJoined DEF Known, Recorded
    <3> QED BY <3>1, StartsLaws
  <2>4. Session!Finish
    BY <1>1, <2>1, <2>2, <2>3 DEF Session!Finish, Session!IsPrefix, IsPrefix
  <2> QED BY <2>4 DEF Session!Next
<1>2. CASE ~active
  <2>1. rolling' = rolling
    BY <1>2 DEF AbortSilent, driveVars
  <2>2. active' = active
    BY <1>2, TypedParts DEF AbortSilent, StopCapture, Known, FlagsOK
  <2> QED BY <2>1, <2>2, SessionStutters
<1> QED BY <1>1, <1>2

LEMMA SessionPumps ==
  ASSUME Known, StreamInv, NEW filler \in BOOLEAN,
         PumpOverflow(filler) \/ PumpFinish(filler) \/ PumpContinue(filler)
  PROVE  Session!Next
<1> DEFINE e == Stream(Encoded(filler))
           one == <<EndMark(FluxCountNow, EndReason)>>
<1>1. log \in Seq(Token) /\ e \in Seq(Token) /\ one \in Seq(Token)
  BY PumpLogs, PumpedEnd, SingleType DEF Known, Recorded
<1>2. rx' = rx /\ log' \in {log \o e, (log \o e) \o one}
  <2>1. CASE PumpOverflow(filler)
    BY <2>1 DEF PumpOverflow, Pumping
  <2>2. CASE PumpFinish(filler)
    BY <2>2 DEF PumpFinish, Pumping
  <2>3. CASE PumpContinue(filler)
    BY <2>3 DEF PumpContinue, Pumping
  <2> QED BY <2>1, <2>2, <2>3
<1> HIDE DEF e, one
<1>3. IsPrefix(FluxOf(log), FluxOf(log'))
  <2>1. /\ log \o e \in Seq(Token) /\ FluxOf(log \o e) = FluxOf(log) \o FluxOf(e)
        /\ FluxOf(log) \in Seq(Token) /\ FluxOf(e) \in Seq(Token) /\ FluxOf(one) \in Seq(Token)
    BY <1>1, Joined, FluxJoined
  <2>2. FluxOf((log \o e) \o one) = FluxOf(log \o e) \o FluxOf(one)
    BY <1>1, <2>1, FluxJoined
  <2>3. Starts(FluxOf(log), FluxOf(log \o e))
    BY <2>1, StartsLaws
  <2>4. Starts(FluxOf(log), FluxOf((log \o e) \o one))
    <3> DEFINE x == FluxOf(log)
               y == FluxOf(log \o e)
               z == FluxOf(one)
    <3>1. x \in Seq(Token) /\ y \in Seq(Token) /\ z \in Seq(Token) /\ Starts(x, y)
      BY <2>1, <2>3, Joined
    <3> HIDE DEF x, y, z
    <3>2. Starts(x, y \o z)
      BY <3>1, StartsLaws
    <3> QED BY <2>2, <3>2 DEF x, y, z
  <2>5. FluxOf(log') \in Seq(Token) /\ Starts(FluxOf(log), FluxOf(log'))
    <3>1. log' \in Seq(Token)
      BY <1>1, <1>2, <2>1, Joined, ZenonT(60)
    <3> QED BY <1>2, <2>3, <2>4, <3>1, FluxJoined
  <2> QED BY <2>1, <2>5, StartsLaws
<1>4. active
  BY PumpFacts DEF PumpOverflow, PumpFinish, PumpContinue
<1>5. CASE PumpContinue(filler)
  <2>1. active' = active /\ rolling' = rolling
    BY <1>5 DEF PumpContinue, driveVars
  <2>2. Session!Produce
    BY <1>2, <1>3, <1>4, <2>1 DEF Session!Produce, Session!IsPrefix, IsPrefix
  <2> QED BY <2>2 DEF Session!Next
<1>6. CASE PumpFinish(filler) \/ PumpOverflow(filler)
  <2>1. active' = FALSE
    BY <1>6 DEF PumpFinish, PumpOverflow, AbortSilent, StopCapture
  <2>2. rolling' # "capture"
    BY <1>4, <1>6, TapeLetGo DEF PumpFinish, PumpOverflow, AbortSilent, Known
  <2>3. Session!Finish
    BY <1>2, <1>3, <1>4, <2>1, <2>2 DEF Session!Finish, Session!IsPrefix, IsPrefix
  <2> QED BY <2>3 DEF Session!Next
<1> QED BY <1>5, <1>6

LEMMA SessionReads ==
  ASSUME Known, Known', PrefixInv', HostReads
  PROVE  Session!Next
<1>1. /\ rx' = rx \o Stream(tx) /\ log' = log /\ active' = active /\ rolling' = rolling
  BY DEF HostReads, capVars, driveVars
<1>2. rx \in Seq(Token) /\ Stream(tx) \in Seq(Token) /\ rx' \in Seq(Token) /\ log' \in Seq(Token)
  BY TypedParts, StreamKeeps DEF Known, Recorded
<1>3. Starts(FluxBefore(rx), FluxBefore(rx'))
  BY <1>1, <1>2, FluxBeforeStarts
<1>4. Starts(FluxBefore(rx'), FluxOf(log'))
  <2>1. Held' \in Seq(Token) /\ Pipe' = rx' \o Held'
    BY PipeLaws DEF PipeIsJoined, Pipe
  <2> DEFINE p == rx'
             h == Held'
             l == log'
  <2>2. p \in Seq(Token) /\ h \in Seq(Token) /\ l \in Seq(Token) /\ Starts(FluxBefore(p \o h), FluxOf(l))
    BY <1>2, <2>1 DEF PrefixInv
  <2> HIDE DEF p, h, l
  <2>3. Starts(FluxBefore(p), FluxOf(l))
    BY <2>2, PrefixDropped
  <2> QED BY <2>3 DEF p, l
<1>5. /\ FluxBefore(rx) \in Seq(Token) /\ FluxBefore(rx') \in Seq(Token)
      /\ FluxOf(log') \in Seq(Token)
  BY <1>2, FluxBeforeJoined, FluxJoined
<1>6. IsPrefix(FluxBefore(rx), FluxBefore(rx')) /\ IsPrefix(FluxBefore(rx'), FluxOf(log'))
  BY <1>3, <1>4, <1>5, StartsLaws
<1>7. Session!Deliver
  BY <1>1, <1>6 DEF Session!Deliver, Session!IsPrefix, IsPrefix, FluxBefore, Sealed
<1> QED BY <1>7 DEF Session!Next

LEMMA SessionStarts ==
  ASSUME CmdCapture
  PROVE  Session!Next
<1>1. ~active /\ active' = TRUE
  BY DEF CmdCapture
<1>2. FluxOf(log') = <<>> /\ FluxOf(BeforeEnd(rx')) = <<>>
  <2>1. Ends(<<>>) = {}
    BY HoldsNone, EndsHeld
  <2>2. FluxBefore(<<>>) = <<>>
    BY <2>1, FluxBeforeAll, FluxOfNone
  <2> QED BY <2>2, CapturePipe, FluxOfNone DEF FluxBefore
<1>3. Session!Start
  BY <1>1, <1>2 DEF Session!Start
<1> QED BY <1>3 DEF Session!Next

\* A capture is a session: it produces while it runs, gives up the tape in the step in
\* which it ends, seals or leaves its stream open, and hands over a prefix.
THEOREM ImplementsSessionAlways == Spec => ImplementsSession
<1>1. Init => Session!Init
  <2> SUFFICES ASSUME Init PROVE Session!Init
    OBVIOUS
  <2>1. active = FALSE /\ rolling = "none" /\ log = <<>> /\ rx = <<>>
    BY DEF Init
  <2>2. Ends(<<>>) = {}
    BY HoldsNone, EndsHeld
  <2>3. FluxOf(log) = <<>> /\ FluxOf(BeforeEnd(rx)) = <<>> /\ ~Sealed
    BY <2>1, <2>2, FluxOfNone DEF BeforeEnd, Sealed
  <2> QED BY <2>1, <2>3 DEF Session!Init
<1>2. Known /\ Known' /\ StreamInv /\ PrefixInv' /\ [Next]_vars => [Session!Next]_Session!vars
  <2> SUFFICES ASSUME Known, Known', StreamInv, PrefixInv', [Next]_vars
               PROVE  [Session!Next]_Session!vars
    OBVIOUS
  <2>1. CASE WatchdogFires \/ ClearComms \/ SetConfiguration \/ UsbReset
    <3>1. AbortSilent /\ log' = log /\ rx' = rx
      BY <2>1 DEF WatchdogFires, ClearComms, SetConfiguration, UsbReset, Configure
    <3> QED BY <3>1, SessionAborts
  <2>2. CASE ReadPump
    BY <2>2, SessionPumps DEF ReadPump
  <2>3. CASE CmdCapture
    BY <2>3, SessionStarts
  <2>4. CASE HostReads
    BY <2>4, SessionReads
  <2>5. CASE \/ Drain \/ DrainLast \/ SendZlp \/ CmdQuery \/ CmdSelect
             \/ (\E c \in Commands : HostSends(c))
             \/ DriveFlux \/ DriveIndex \/ DriveReachesData \/ Tick \/ UNCHANGED vars
    <3>1. active' = active /\ log' = log /\ rx' = rx /\ rolling' = rolling
      BY <2>5
      DEF Drain, DrainLast, SendZlp, CmdQuery, CmdSelect, HostSends, DriveFlux, DriveIndex,
          DriveReachesData, Tick, vars, capVars, driveVars
    <3> QED BY <3>1, SessionStutters
  <2>6. CASE CmdPulses
    <3>1. active' = active /\ log' = log /\ rx' = rx /\ ~active
          /\ rolling' \in {rolling, "none", "command"}
      BY <2>6 DEF CmdPulses, PulseStop, PulseMotion, capVars, driveVars
    <3>2. rolling # "capture"
      BY <3>1 DEF Known, Owns, CaptureOwnsTape
    <3> QED BY <3>1, <3>2, SessionStutters
  <2>7. CASE DriveHalts
    <3>1. active' = active /\ log' = log /\ rx' = rx /\ rolling' = "none"
      BY <2>7 DEF DriveHalts, capVars
    <3>2. Session!Halt
      BY <3>1 DEF Session!Halt, Sealed
    <3> QED BY <3>2 DEF Session!Next
  <2> QED BY <2>1, <2>2, <2>3, <2>4, <2>5, <2>6, <2>7
          DEF Next, Process, RunCommand, Host, Bus, Drive
<1> QED BY <1>1, <1>2, KnownAlways, StreamAlways, PrefixAlways, PTL
        DEF Spec, ImplementsSession, Session!Spec
=============================================================================
