---------------------------- MODULE TapeCapture ----------------------------
(***************************************************************************)
(* The device side of a tape capture: the firmware's read engine           *)
(* (firmware/src/floppy.c) with the QIC capture graft (qic/qic.c), the USB  *)
(* endpoints it talks through, and the drive that answers its pulses.       *)
(*                                                                         *)
(* One action is one pass of floppy_process() (the firmware's main loop is  *)
(* not preemptive), one USB event, or one thing the drive does.  The drive  *)
(* and the host are the environment.                                       *)
(*                                                                         *)
(* Simplifications.                                                        *)
(*  - u_buf is the sequence of tokens between u_cons and u_prod.  A token   *)
(*    (one flux interval, one INDEX opcode with its SEGMENT marker, one     *)
(*    marker, one dead-time SPACE) fills one unit of the ring, a USB packet *)
(*    carries Mps units, so byte_count is flux_count.                       *)
(*  - Time is counted in ticks; the four timers of a capture keep their     *)
(*    order (holdoff, idle, watchdog, no-start), not their ratios.       *)
(*  - The n-th transition after arming is named n and stands for the        *)
(*    interval it ends.  The checksum adds these names, so the checksum of  *)
(*    a whole capture is the sum of 1 .. flux_count and needs no variable.  *)
(*  - Only the verbs a capture depends on are told apart; every other verb  *)
(*    is a "query": it answers and changes nothing modelled here.           *)
(***************************************************************************)
EXTENDS Integers, Sequences, SequencesExt

CONSTANTS
  Cap,       \* U_BUF_SZ, in units
  Mps,       \* usb_bulk_mps, in units
  PumpMax,   \* transitions the DMA ring collects between two pumps
  MaxFlux,   \* bound: transitions the drive sends in one capture
  Commands,  \* the commands this host sends
  Holdoff,   \* QIC_CUE_HOLDOFF_MS, in ticks
  IdleEnd,   \* QIC_IDLE_END_MS
  Watchdog,  \* delay_params.watchdog
  NoStart    \* QIC_NO_START_MS

ASSUME SizesAssumption ==
  /\ Cap \in Nat \ {0} /\ Mps \in Nat \ {0} /\ PumpMax \in Nat \ {0}
  /\ MaxFlux \in Nat

\* The factory delays (floppy.c) and the capture timeouts (qic.c).
ASSUME TimersAssumption ==
  /\ Holdoff \in Nat \ {0} /\ IdleEnd \in Nat /\ Watchdog \in Nat /\ NoStart \in Nat
  /\ Holdoff <= IdleEnd /\ IdleEnd < Watchdog /\ Watchdog + Holdoff <= NoStart

VARIABLES
  floppyState,   \* floppy_state
  active, needStart, segmentSeen, fluxCount, budget,   \* qic_cap
  armedAge, fluxAge,   \* ticks since qic_cap.armed_at, qic_cap.last_flux_at
  wdArmed, wdAge,      \* watchdog.armed, ticks since watchdog_kick()
  fluxStatus,    \* flux_op.status
  selected,      \* a unit is selected (unit_nr # -1)
  ring,          \* u_buf[u_cons .. u_prod-1]
  pkt,           \* usb_packet, <<>> when not ready
  tx,            \* the packet in EP_TX, <<>> when the endpoint is ready
  cmd,           \* the command in EP_RX or already read into u_buf
  pendFlux,      \* number of transitions in the DMA ring (dma.cons .. prod)
  pendIndex,     \* index.count # read.nr_index
  drive,         \* what the drive is doing
  rolling,       \* who set the tape moving without a Stop Tape since
  log,           \* history: flux and END tokens written since arming
  rx             \* history: the same tokens, and the NUL, as the host got them

capVars   == <<active, needStart, segmentSeen, fluxCount, budget, armedAge, fluxAge>>
wdVars    == <<wdArmed, wdAge>>
usbVars   == <<pkt, tx, cmd>>
dmaVars   == <<pendFlux, pendIndex>>
driveVars == <<drive, rolling>>
vars == <<floppyState, capVars, wdVars, fluxStatus, selected, ring, usbVars,
          dmaVars, driveVars, log, rx>>

-----------------------------------------------------------------------------
(* Tokens of the stream, and commands. *)

Reasons == {"NORMAL", "EOT", "WATCHDOG"}
Marks   == {"ack", "start", "segment", "gap", "nul", "zlp"}
Token   == [k : Marks, v : {0}, why : {"none"}]
           \cup [k : {"flux"}, v : Nat \ {0}, why : {"none"}]
           \cup [k : {"end"}, v : Nat, why : Reasons]

Mark(k)         == [k |-> k, v |-> 0, why |-> "none"]
Flux(n)         == [k |-> "flux", v |-> n, why |-> "none"]
EndMark(n, why) == [k |-> "end", v |-> n, why |-> why]

NoCmd      == [op |-> "none", motion |-> FALSE, budget |-> 0]
Verb(op)   == [op |-> op, motion |-> FALSE, budget |-> 0]
Verbs      == {Verb(op) : op \in {"query", "motion", "stop", "select", "deselect", "busreset"}}
CommandSet == Verbs \cup [op : {"capture"}, motion : BOOLEAN, budget : Nat]

ASSUME CommandsAssumption == Commands \subseteq CommandSet

\* "off": not ready.  "ready": ready, and the last motion command did not run.
\* "lead", "data": under motion, before and on the recorded part of the tape.
\* "done": ready again after a run.
DriveStates == {"off", "ready", "lead", "data", "done"}
Moving == drive \in {"lead", "data"}

Min2(a, b) == IF a < b THEN a ELSE b

\* The tokens of some kinds, in order.
Kept(s, kinds) ==
  LET kept[n \in 0 .. Len(s)] ==
        IF n = 0 THEN <<>>
        ELSE IF s[n].k \in kinds THEN Append(kept[n - 1], s[n]) ELSE kept[n - 1]
  IN  kept[Len(s)]

\* The tokens the histories keep: flux, END and the NUL.
Stream(s) == Kept(s, {"flux", "end", "nul"})
FluxOf(s) == Kept(s, {"flux"})

-----------------------------------------------------------------------------
Init ==
  /\ floppyState = "inactive"
  /\ active = FALSE /\ needStart = FALSE /\ segmentSeen = FALSE
  /\ fluxCount = 0 /\ budget = 0 /\ armedAge = 0 /\ fluxAge = 0
  /\ wdArmed = FALSE /\ wdAge = 0
  /\ fluxStatus = "okay" /\ selected = FALSE
  /\ ring = <<>> /\ pkt = <<>> /\ tx = <<>> /\ cmd = NoCmd
  /\ pendFlux = 0 /\ pendIndex = FALSE
  /\ drive \in {"off", "ready"} /\ rolling = "none"
  /\ log = <<>> /\ rx = <<>>

-----------------------------------------------------------------------------
(* Pieces of the handlers. *)

\* watchdog_arm(), and every watchdog_kick() of an armed watchdog.
ArmWatchdog == wdArmed' = TRUE /\ wdAge' = 0

\* qic_pulses(18): Stop Tape.  Only a selected drive hears it; a moving one
\* obeys, or runs on to the end of the tape (the bench drive did).
PulseStop ==
  /\ rolling' = IF selected THEN "none" ELSE rolling
  /\ drive' \in IF selected /\ Moving THEN {"done", drive} ELSE {drive}

\* qic_pulses(n) with a motion command: the drive obeys or refuses.
PulseMotion(who) ==
  \/ /\ selected /\ drive # "off"
     /\ drive' = "lead" /\ rolling' = who
  \/ UNCHANGED driveVars

\* The capture is over: DMA and timers off (floppy_flux_end), qic_cap.active
\* cleared.  The other fields of qic_cap are dead until the next arming.
StopCapture ==
  /\ active' = FALSE /\ needStart' = FALSE /\ segmentSeen' = FALSE
  /\ fluxCount' = 0 /\ budget' = 0 /\ armedAge' = 0 /\ fluxAge' = 0
  /\ pendFlux' = 0 /\ pendIndex' = FALSE

\* qic_capture_abort_silent() after floppy_flux_end(): Stop Tape, no END.
AbortWithoutStop ==   \* mutant
  UNCHANGED driveVars /\ StopCapture
AbortSilent ==
  /\ IF active THEN PulseStop ELSE UNCHANGED driveVars
  /\ StopCapture

\* floppy_configure(), but for the watchdog.  A command ST_command_wait already
\* read into u_buf is forgotten, one still in the endpoint is not.
Configure ==
  /\ AbortSilent
  /\ floppyState' = "command_wait"
  /\ ring' = <<>> /\ pkt' = <<>>
  /\ cmd' \in IF floppyState = "command_wait" THEN {cmd, NoCmd} ELSE {cmd}
  /\ UNCHANGED <<fluxStatus, log, rx>>

\* The ring after one more unit: u_buf[U_MASK(u_prod++)] = x.  Past its
\* capacity the unit lands on the oldest one not yet sent.
Put(r, x) ==
  IF Len(r) < Cap THEN Append(r, x)
  ELSE Append([r EXCEPT ![Len(r) + 1 - Cap] = x], x)

\* avail > U_BUF_SZ.
OverflowsLate(r) == Len(r) > Cap + 1   \* mutant
Overflows(r)     == Len(r) > Cap

\* The tail of floppy_read(): stage a full packet if avail units justify one,
\* hand a staged packet to the endpoint if it is free.
SendOverStaged(r, avail) ==   \* mutant: a staged packet is staged over
  LET full   == avail >= Mps
      staged == IF full THEN SubSeq(r, 1, Mps) ELSE pkt
      write  == staged # <<>> /\ tx = <<>>
  IN  /\ ring' = IF full THEN SubSeq(r, Mps + 1, Len(r)) ELSE r
      /\ tx'   = IF write THEN staged ELSE tx
      /\ pkt'  = IF write THEN <<>> ELSE staged
SendFrom(r, avail) ==
  LET full   == pkt = <<>> /\ avail >= Mps
      staged == IF full THEN SubSeq(r, 1, Mps) ELSE pkt
      write  == staged # <<>> /\ tx = <<>>
  IN  /\ ring' = IF full THEN SubSeq(r, Mps + 1, Len(r)) ELSE r
      /\ tx'   = IF write THEN staged ELSE tx
      /\ pkt'  = IF write THEN <<>> ELSE staged

-----------------------------------------------------------------------------
(* floppy_process(): the watchdog check. *)

ExpiredInCapture == active /\ wdArmed /\ wdAge >= Watchdog   \* mutant
Expired          == wdArmed /\ wdAge >= Watchdog

\* floppy_configure(), then quiesce_drives(): deselect, disarm.
WatchdogFires ==
  /\ Expired
  /\ Configure
  /\ selected' = FALSE
  /\ wdArmed' = FALSE /\ wdAge' = 0
  /\ UNCHANGED tx

-----------------------------------------------------------------------------
(* floppy_process() in ST_command_wait: process_command() runs a command    *)
(* once the endpoint can take its answer.                                   *)

Answer ==
  /\ floppyState = "command_wait" /\ ~Expired
  /\ cmd # NoCmd /\ tx = <<>>
  /\ cmd' = NoCmd
  /\ tx' = <<Mark("ack")>>
  /\ ring' = <<>>
  /\ ArmWatchdog

\* Any verb that reads or sets nothing a capture depends on.
CmdQuery ==
  /\ Answer /\ cmd.op = "query"
  /\ UNCHANGED <<floppyState, capVars, fluxStatus, selected, pkt, dmaVars, driveVars, log, rx>>

\* qic_cmd_pulses(), sent a motion command or Stop Tape.
CmdPulses ==
  /\ Answer /\ cmd.op \in {"motion", "stop"}
  /\ ~active
  /\ IF cmd.op = "stop" THEN PulseStop ELSE PulseMotion("command")
  /\ UNCHANGED <<floppyState, capVars, fluxStatus, selected, pkt, dmaVars, log, rx>>

\* CMD_SELECT and CMD_DESELECT; CMD_SET_BUS_TYPE and CMD_RESET quiesce the
\* drives, and floppy_end_command() arms the watchdog again.
CmdSelect ==
  /\ Answer /\ cmd.op \in {"select", "deselect", "busreset"}
  /\ selected' = (cmd.op = "select")
  /\ UNCHANGED <<floppyState, capVars, fluxStatus, pkt, dmaVars, driveVars, log, rx>>

\* floppy_read_prep(): the read engine starts empty.
ReadPrepStaleStatus ==   \* mutant
  /\ pendFlux' = 0 /\ pendIndex' = FALSE /\ pkt' = <<>>
  /\ floppyState' = "read_flux"
  /\ UNCHANGED fluxStatus
ReadPrep ==
  /\ pendFlux' = 0 /\ pendIndex' = FALSE /\ pkt' = <<>>
  /\ floppyState' = "read_flux" /\ fluxStatus' = "okay"

\* qic_cmd_capture(): motion pulses, then qic_capture_arm() and
\* floppy_read_prep().  The histories start over with the stream.
CmdCapture ==
  /\ Answer /\ cmd.op = "capture"
  /\ ~active
  /\ IF cmd.motion THEN PulseMotion("capture") ELSE UNCHANGED driveVars
  /\ active' = TRUE /\ needStart' = TRUE /\ segmentSeen' = FALSE
  /\ fluxCount' = 0 /\ budget' = cmd.budget
  /\ armedAge' = 0 /\ fluxAge' = 0
  /\ ReadPrep
  /\ log' = <<>> /\ rx' = <<>>
  /\ UNCHANGED selected

-----------------------------------------------------------------------------
(* floppy_process() in ST_read_flux: one pump of floppy_read(). *)

\* What rdata_encode_flux() writes, behind the deferred SESSION_START: the
\* INDEX edge, the transitions, and filler if nothing came for a while.
Encoded(filler) ==
     (IF needStart THEN <<Mark("start")>> ELSE <<>>)
  \o (IF pendIndex THEN <<Mark("segment")>> ELSE <<>>)
  \o [i \in 1 .. pendFlux |-> Flux(fluxCount + i)]
  \o (IF filler THEN <<Mark("gap")>> ELSE <<>>)

\* qic_cap and the watchdog after the encoder has run.
FluxCountNow   == fluxCount + pendFlux
FluxAgeNow     == IF pendFlux > 0 THEN 0 ELSE fluxAge
SegmentSeenNow == segmentSeen \/ (pendIndex /\ armedAge >= Holdoff)
WdAgeKickedByFlux == IF pendIndex \/ pendFlux > 0 THEN 0 ELSE wdAge   \* mutant
WdAgeNow       == IF pendIndex THEN 0 ELSE wdAge

\* qic_capture_check_motion(), on the values the encoder left.
MotionEnd ==
  IF ~SegmentSeenNow
  THEN IF armedAge >= NoStart THEN "WATCHDOG" ELSE "none"
  ELSE IF FluxAgeNow >= IdleEnd THEN "EOT" ELSE "none"

BudgetReached == budget # 0 /\ FluxCountNow >= budget

\* The reason in END: the tape's, or NORMAL for a reached budget.
EndReason         == IF MotionEnd # "none" THEN MotionEnd ELSE "NORMAL"

\* What every pump leaves alone.
Pumping ==
  /\ floppyState = "read_flux" /\ ~Expired
  /\ UNCHANGED <<selected, cmd, rx, wdArmed>>

\* More in the ring than it holds: Stop Tape, drop everything unsent.
PumpOverflow(filler) ==
  /\ Pumping
  /\ Overflows(ring \o Encoded(filler))
  /\ AbortSilent
  /\ wdAge' = IF active THEN 0 ELSE WdAgeNow
  /\ fluxStatus' = "overflow" /\ floppyState' = "read_flux_drain"
  /\ log' = log \o Stream(Encoded(filler))
  /\ SendFrom(<<>>, 0)

\* The tape stopped, or the budget is reached: qic_capture_finish() stops the
\* tape and writes END behind the flux.  avail was taken before END.
PumpFinish(filler) ==
  LET r   == ring \o Encoded(filler)
      end == EndMark(FluxCountNow, EndReason)
  IN  /\ Pumping
      /\ ~Overflows(r)
      /\ MotionEnd # "none" \/ BudgetReached
      /\ PulseStop
      /\ StopCapture
      /\ wdAge' = 0
      /\ floppyState' = "read_flux_drain"
      /\ log' = log \o Stream(Encoded(filler)) \o <<end>>
      /\ SendFrom(Put(r, end), Len(r))
      /\ UNCHANGED fluxStatus

\* The pass goes on.
PumpContinue(filler) ==
  LET r == ring \o Encoded(filler)
  IN  /\ Pumping
      /\ ~Overflows(r) /\ MotionEnd = "none" /\ ~BudgetReached
      /\ needStart' = FALSE /\ segmentSeen' = SegmentSeenNow
      /\ fluxCount' = FluxCountNow
      /\ fluxAge' = FluxAgeNow /\ wdAge' = WdAgeNow
      /\ pendFlux' = 0 /\ pendIndex' = FALSE
      /\ log' = log \o Stream(Encoded(filler))
      /\ SendFrom(r, Len(r))
      /\ UNCHANGED <<floppyState, active, budget, armedAge, fluxStatus, driveVars>>

-----------------------------------------------------------------------------
(* floppy_process() in ST_read_flux_drain and ST_zlp. *)

\* floppy_read() while a packet is staged, or the ring or the endpoint is busy.
Drain ==
  /\ floppyState = "read_flux_drain" /\ ~Expired
  /\ Len(ring) >= Mps \/ pkt # <<>> \/ tx # <<>>
  /\ SendFrom(ring, Len(ring))
  /\ UNCHANGED <<floppyState, capVars, wdVars, fluxStatus, selected, cmd, dmaVars, driveVars, log, rx>>

\* The last packet, with the NUL.  One that fills a USB packet needs a
\* zero-length packet behind it.
DrainLast ==
  /\ floppyState = "read_flux_drain" /\ ~Expired
  /\ Len(ring) < Mps /\ pkt = <<>> /\ tx = <<>>
  /\ tx' = Append(ring, Mark("nul"))
  /\ ring' = <<>>
  /\ floppyState' = IF Len(ring) + 1 = Mps THEN "zlp" ELSE "command_wait"
  /\ ArmWatchdog
  /\ UNCHANGED <<capVars, fluxStatus, selected, pkt, cmd, dmaVars, driveVars, log, rx>>

SendZlp ==
  /\ floppyState = "zlp" /\ ~Expired
  /\ tx = <<>>
  /\ tx' = <<Mark("zlp")>>
  /\ floppyState' = "command_wait"
  /\ UNCHANGED <<capVars, wdVars, fluxStatus, selected, ring, pkt, cmd, dmaVars, driveVars, log, rx>>

-----------------------------------------------------------------------------
(* The host and the bus above floppy_process(). *)

HostSends(c) ==
  /\ floppyState # "inactive" /\ cmd = NoCmd
  /\ cmd' = c
  /\ UNCHANGED <<floppyState, capVars, wdVars, fluxStatus, selected, ring, pkt, tx, dmaVars, driveVars, log, rx>>

HostReads ==
  /\ tx # <<>>
  /\ tx' = <<>>
  /\ rx' = rx \o Stream(tx)
  /\ UNCHANGED <<floppyState, capVars, wdVars, fluxStatus, selected, ring, pkt, cmd, dmaVars, driveVars, log>>

\* SET_LINE_CODING to BAUD_CLEAR_COMMS: floppy_configure().
ClearComms ==
  /\ floppyState # "inactive"
  /\ ArmWatchdog /\ Configure
  /\ UNCHANGED <<selected, tx>>

\* SET_CONFIGURATION: the endpoints start empty, then floppy_configure().
SetConfiguration ==
  /\ ArmWatchdog /\ Configure
  /\ tx' = <<>>
  /\ UNCHANGED selected

\* A USB bus reset: floppy_reset(), then the endpoint state is cleared.
UsbReset ==
  /\ AbortSilent
  /\ floppyState' = "inactive" /\ selected' = FALSE
  /\ wdArmed' = FALSE /\ wdAge' = 0
  /\ tx' = <<>> /\ cmd' = NoCmd /\ ring' = <<>> /\ pkt' = <<>>
  /\ UNCHANGED <<fluxStatus, log, rx>>

-----------------------------------------------------------------------------
(* The drive, and time. *)

\* A drive that is not selected drives no line of the bus.
Sampling == floppyState = "read_flux" /\ selected

\* A transition: tape data, or a stray one from the head settling.
DriveFlux ==
  /\ Sampling /\ Moving
  /\ pendFlux < PumpMax /\ FluxCountNow < MaxFlux
  /\ pendFlux' = pendFlux + 1
  /\ UNCHANGED <<floppyState, capVars, wdVars, fluxStatus, selected, ring, usbVars, pendIndex, driveVars, log, rx>>

\* IRQ_INDEX_changed(): one per segment under motion, and the cue pulses of a
\* ready, selected drive.
DriveIndex ==
  /\ Sampling /\ drive \in {"ready", "done", "data"}
  /\ ~pendIndex /\ pendIndex' = TRUE
  /\ UNCHANGED <<floppyState, capVars, wdVars, fluxStatus, selected, ring, usbVars, pendFlux, driveVars, log, rx>>

\* Logical Forward leaves the blank leader.
DriveReachesData ==
  /\ drive = "lead" /\ drive' = "data"
  /\ UNCHANGED <<floppyState, capVars, wdVars, fluxStatus, selected, ring, usbVars, dmaVars, rolling, log, rx>>

\* The tape halts by itself: logical end of track, or a fault.
DriveHalts ==
  /\ Moving
  /\ drive' \in {"done", "off"} /\ rolling' = "none"
  /\ UNCHANGED <<floppyState, capVars, wdVars, fluxStatus, selected, ring, usbVars, dmaVars, log, rx>>

Tick ==
  /\ wdAge'    = IF wdArmed THEN Min2(wdAge + 1, Watchdog) ELSE 0
  /\ armedAge' = IF active THEN Min2(armedAge + 1, NoStart) ELSE 0
  /\ fluxAge'  = IF active THEN Min2(fluxAge + 1, IdleEnd) ELSE 0
  /\ UNCHANGED <<floppyState, active, needStart, segmentSeen, fluxCount, budget,
                 wdArmed, fluxStatus, selected, ring, usbVars, dmaVars, driveVars, log, rx>>

-----------------------------------------------------------------------------
ReadPump == \E filler \in BOOLEAN :
  PumpOverflow(filler) \/ PumpFinish(filler) \/ PumpContinue(filler)

\* What floppy_process() does by itself, and with a command.
Process    == WatchdogFires \/ ReadPump \/ Drain \/ DrainLast \/ SendZlp
RunCommand == CmdQuery \/ CmdPulses \/ CmdSelect \/ CmdCapture

Host  == (\E c \in Commands : HostSends(c)) \/ HostReads \/ ClearComms
Bus   == SetConfiguration \/ UsbReset
Drive == DriveFlux \/ DriveIndex \/ DriveReachesData \/ DriveHalts

Next == Process \/ RunCommand \/ Host \/ Bus \/ Drive \/ Tick

Spec == Init /\ [][Next]_vars

\* main() polls for ever and time passes.  Nothing is promised of the host, the
\* bus or the drive: each may fall silent at any point.
FairSpec == Spec /\ WF_vars(Process) /\ WF_vars(Tick)

-----------------------------------------------------------------------------
(* Properties. *)

StatesOK ==
  /\ floppyState \in {"inactive", "command_wait", "zlp", "read_flux", "read_flux_drain"}
  /\ fluxStatus \in {"okay", "overflow"}
  /\ cmd \in Commands \cup {NoCmd}
  /\ drive \in DriveStates /\ rolling \in {"none", "capture", "command"}

FlagsOK ==
  /\ active \in BOOLEAN /\ needStart \in BOOLEAN /\ segmentSeen \in BOOLEAN
  /\ wdArmed \in BOOLEAN /\ selected \in BOOLEAN /\ pendIndex \in BOOLEAN

CountsOK ==
  /\ fluxCount \in Nat /\ budget \in Nat /\ pendFlux \in 0 .. PumpMax
  /\ armedAge \in 0 .. NoStart /\ fluxAge \in 0 .. IdleEnd
  /\ wdAge \in 0 .. Watchdog

BuffersOK == ring \in Seq(Token) /\ pkt \in Seq(Token) /\ tx \in Seq(Token)

TypeOK == StatesOK /\ FlagsOK /\ CountsOK /\ BuffersOK

\* Nothing outgrows its buffer: END is the only unit the ring ever takes past
\* its capacity, and no packet is longer than the endpoint's.
BuffersFit ==
  /\ Len(ring) <= IF floppyState = "read_flux_drain" THEN Cap + 1 ELSE Cap
  /\ Len(pkt) <= Mps /\ Len(tx) <= Mps

Ends(s)  == {i \in 1 .. Len(s) : s[i].k = "end"}
Sealed   == Ends(log) # {}
Finished == \E i \in 1 .. Len(rx) : rx[i].k = "nul"

\* The stream as far as the first END.
BeforeEnd(s) == IF Ends(s) = {} THEN s
                ELSE SubSeq(s, 1, (CHOOSE i \in Ends(s) : \A j \in Ends(s) : i <= j) - 1)

\* ParsedStream.end: the last END the host parsed.
LastEnd(s) == s[CHOOSE i \in Ends(s) : \A j \in Ends(s) : j <= i]

SumOf(s) == FoldSeq(LAMBDA t, acc : acc + t.v, 0, s)

\* ParsedStream.verified: END agrees with the count and the checksum of the
\* flux the host parsed.
VerifiedByEndAlone(s) == Ends(s) # {}   \* mutant
Verified(s) ==
  /\ Ends(s) # {}
  /\ LET n == LastEnd(s).v
     IN  n = Len(FluxOf(s)) /\ SumOf(FluxOf(s)) = (n * (n + 1)) \div 2

\* While a capture is armed it has the device to itself, and a tape that a
\* capture set moving is under an armed capture until a Stop Tape was sent to a
\* drive that hears it: no path (end of pass, overflow, watchdog, clear-comms,
\* bus reset) releases the drive first.
CaptureOwnsTape ==
  /\ active => floppyState = "read_flux" /\ wdArmed
  /\ rolling = "capture" => active /\ selected

\* A stream the host can verify against END holds every transition that was
\* encoded, in order: neither the ring nor the packets lost any unnoticed.
VerifiedIsComplete == Verified(rx) => FluxOf(rx) = FluxOf(log)

\* A stream that ended with the NUL has an END unless the device says it
\* overflowed, and GET_FLUX_STATUS says so only then.
StatusTellsTheTruth == Finished => (Ends(rx) = {} <=> fluxStatus = "overflow")

\* With the factory watchdog the no-start rule never ends a run: whenever a
\* pump gets to check it, the watchdog would have torn the capture down before.
NoStartNeverSeals ==
  floppyState = "read_flux" /\ ~Expired => MotionEnd # "WATCHDOG"

\* Why: an INDEX that kicks the watchdog later than the cue holdoff is also a
\* segment, so a capture without one has not been kicked since.
KickedEarly ==
  active /\ ~segmentSeen
    => \/ wdAge >= Watchdog
       \/ wdAge + Holdoff > armedAge

\* The abstract capture session.  What the host was handed up to END counts as
\* delivered.
Session == INSTANCE CaptureSession WITH
  phase     <- IF active THEN "running" ELSE IF Sealed THEN "sealed" ELSE "open",
  held      <- rolling = "capture",
  produced  <- FluxOf(log),
  delivered <- FluxOf(BeforeEnd(rx))
ImplementsSession == Session!Spec

\* Whatever the host, the bus and the drive do or stop doing, a capture ends
\* (the tape stopped with it, CaptureOwnsTape), and the device comes back to
\* where it takes commands, even if the host never reads the rest of the stream.
DeviceComesBack ==
  floppyState \in {"read_flux", "read_flux_drain", "zlp"}
    ~> floppyState \in {"command_wait", "inactive"}

============================================================================
