--------------------------- MODULE MCFloppyCommands ---------------------------
(***************************************************************************)
(* The parts of floppy.c besides the capture, for TLC: the streams, the drives' *)
(* bus, and the clock with its two users.  They do not share state: a behaviour  *)
(* is one part's, chosen in the initial state.  The streams have short, merged,   *)
(* split and astable flux, a bad opcode in the middle, more bytes than the        *)
(* buffers hold, and nothing.                                              *)
(***************************************************************************)
EXTENDS StreamCommands

CONSTANTS Units, Kinds, MaxCyl, MaxAsked, Beyond, W, K, Slack, Fine, Coarse, Early, IndexPeriod, Mask, Ops, Asks,
          MaxLate, MaxSince


VARIABLES part, bus, unitNr, unit, drive, answer, now, stamp, tm, index, op, main

DB == INSTANCE DriveBus

\* Shugart's units share the motor line of unit 0.  floppy_seek_initialise() finds track 0
\* from any cylinder, and cylinder 1 from any that a flippy drive is sought to.
ASSUME BusAssumption ==
  /\ Units \subseteq Nat /\ 0 \in Units /\ Kinds \in [Units -> SUBSET DB!AllKinds] /\ MaxAsked \in Int
  /\ MaxCyl \in 1 .. 255 /\ Beyond \in Nat /\ Beyond < DB!FarIn
CK == INSTANCE Clock

\* The counters and the timers keep up: a stamp is renewed before the low bits wrap twice
\* and no deadline is half the range away, with what an interrupt or the main loop may be late.
ASSUME ClockAssumption ==
  /\ CK!Half \in Nat /\ CK!StkTop \in Nat \ {0} /\ CK!StampPeriod \in Nat \ {0}
  /\ CK!Top = 2 * CK!Half /\ \E m \in 1 .. CK!Half : CK!Half = m * CK!StkTop
  /\ Slack \in Nat /\ MaxLate \in Nat
  /\ CK!StampPeriod + 2 * MaxLate + Slack < CK!StkTop
  /\ Coarse \in Nat \ {0} /\ Early \in Nat /\ Fine \in Nat /\ Coarse * (Early + 1) <= Fine
  /\ IndexPeriod \in Nat /\ Slack < IndexPeriod /\ Slack < CK!StampPeriod
  /\ 2 * IndexPeriod + MaxLate < CK!Half
  /\ Mask \in 0 .. IndexPeriod /\ MaxSince \in Nat /\ Mask <= MaxSince
  /\ \A ask \in Asks :
       ask[1] \subseteq Ops /\ ask[2] \in Nat /\ ask[2] + 2 * MaxLate + 1 < CK!Half

busVars == <<bus, unitNr, unit, drive, answer>>
clockVars == <<now, stamp, tm, index, op, main>>
allVars == <<part, vars, busVars, clockVars>>

NoBus == bus = "none" /\ unitNr = -1 /\ unit = <<>> /\ drive = <<>> /\ answer = <<>>
NoClock == now = 0 /\ stamp = 0 /\ tm = <<>> /\ index = <<>> /\ op = <<>> /\ main = <<>>

MCInit ==
  \/ part = "streams" /\ Init /\ NoBus /\ NoClock
  \/ part = "bus" /\ DB!Init /\ fw = Idle /\ host = NoStream /\ seen = NothingSeen /\ NoClock
  \/ part \in {"delays", "pulses"} /\ CK!Init /\ tm.wide = (part = "pulses") /\ Init /\ NoBus

MCNext ==
  \/ part = "streams" /\ Next /\ UNCHANGED <<part, busVars, clockVars>>
  \/ part = "bus" /\ DB!Next /\ UNCHANGED <<part, vars, clockVars>>
  \/ part = "delays" /\ (CK!Timers \/ CK!OpDelay) /\ UNCHANGED <<part, vars, busVars>>
  \/ part = "pulses" /\ (CK!Timers \/ CK!IndexPulse) /\ UNCHANGED <<part, vars, busVars>>

OfStreams(action) == part = "streams" /\ action /\ UNCHANGED <<part, busVars, clockVars>>
MCSpec ==
  /\ MCInit /\ [][MCNext]_allVars
  /\ WF_allVars(OfStreams(Device)) /\ WF_allVars(OfStreams(Host)) /\ WF_allVars(OfStreams(DmaPulse))

(***************************************************************************)
(* The properties of the parts, each for the behaviours of its part.       *)
(***************************************************************************)
\* A write with a status of 0 has read its stream to the end and put every flux change
\* of it on the track at its time, or less than a pulse before (floppy_write,
\* _wdata_decode_flux), unless the index that the host asked for cut it.
StreamIsWritten == TimeIsKept /\ OkayIsComplete

\* A drive's head is where the device believes it, and a drive that the watchdog or a
\* reset has quieted stays quiet (floppy_seek, quiesce_drives).
DrivesAreKnown ==
  part = "bus" => DB!BeliefIsTrue /\ DB!QuietIsQuiet /\ DB!NoclickEndsAtZero

\* Across the wrap of the counter and late interrupts the clock is right, timers go off
\* when they should, delays are waited for and INDEX pulses are timed (time.c, timer.c).
TimeIsTold ==
  part \in {"delays", "pulses"} =>
    CK!ClockIsRight /\ CK!TimersAreKept /\ CK!DelaysAreKept /\ CK!PulsesAreTimed

\* One drive of any kind, a plain one, and one that is not there.
MCKinds ==
  [u \in Units |-> CASE u = 0 -> {"plain", "loose", "flippy", "stuck", "dead"}
                     [] u = 1 -> {"plain"} [] OTHER -> {"dead"}]

\* Ending a write, and a change of side before one.
MCAsks == {<<{"seek", "write"}, 3>>, <<{"write"}, 1>>}

MCStreams == {
  <<Nul>>,
  <<Flux(2), Flux(5), Flux(2), Nul>>,
  <<Flux(1), Flux(2), Space(9), Flux(2), Flux(1), Nul>>,
  <<Flux(2), Flux(2), Flux(2), Space(7), Astable(3), Flux(4), Nul>>,
  <<Flux(2), BadOp, Flux(4), Nul>>,
  <<Flux(2), Flux(2), Flux(2), Flux(2), Flux(4), Flux(4), Flux(2), Flux(2), Flux(4), Nul>> }
=============================================================================
