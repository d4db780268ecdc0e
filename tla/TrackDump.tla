----------------------------- MODULE TrackDump -----------------------------
(***************************************************************************)
(* `tw dump`: the host's loop over the tracks of a cartridge                *)
(* (tape/dump.py, with the dispatch and the status latch of                 *)
(* qic117/drive.py), the drive it moves, and the capture each pass runs.    *)
(*                                                                         *)
(* The capture is what TapeCapture shows of it: while it runs the host gets *)
(* flux, it ends by itself sealed EOT, overflowed or torn down, and a       *)
(* sealed one may not verify (END landed on unsent flux).                   *)
(*                                                                         *)
(* Simplifications.                                                        *)
(*  - One host step is one command of the drive layer, with the report      *)
(*    exchanges it makes; polling for Ready is the step that sees Ready or  *)
(*    gives up.                                                            *)
(*  - A segment is its number in the order the track is read; the capture   *)
(*    file is the sequence of segments the drive found in it.               *)
(*  - The factory reports and provenance of the header are left out, and so *)
(*    is --check.                                                          *)
(*  - Time is counted while the host reads the stream.  INDEX opcodes and    *)
(*    markers only make a capture louder, and are not counted as bytes.      *)
(***************************************************************************)
EXTENDS Integers, Sequences, FiniteSets, SequencesExt

CONSTANTS
  Tracks,       \* the tracks to dump, in order
  Segments,     \* segments on a track
  Cues,         \* cue pulses a refused Logical Forward leaves in a capture
  MaxMissed,    \* bound: segments the drive misses, in all passes together
  MaxTrouble,   \* bound: faults, refusals and cartridge changes
  LongGap,      \* time without flux after which the pump writes a SPACE (400 us)
  Packet,       \* tokens that fill a bulk packet, at most (64)
  Silence       \* the host's read timeout (2 s)

ASSUME DumpAssumption ==
  /\ Tracks \in Seq(Nat) /\ Segments \in Nat \ {0}
  /\ Cues \in Nat \ {0} /\ MaxMissed \in Nat /\ MaxTrouble \in Nat

\* A packet of nothing but filler is on the wire before a read times out.
ASSUME SilenceAssumption ==
  /\ LongGap \in Nat \ {0} /\ Packet \in Nat \ {0} /\ Silence \in Nat \ {0}
  /\ Packet * LongGap < Silence

VARIABLES
  pc,            \* where dump_tracks() is
  todo,          \* tracks not yet accepted; its head is being dumped
  results,       \* results of this dump, in order
  lines,         \* dump.jsonl: the results written
  file,          \* the capture file of the pass: see NoFile
  cap,           \* the device's capture
  wire,          \* the stream's timing: see Fresh
  fluxAck,       \* flux_op.status as GET_FLUX_STATUS gives it
  ready, referenced, newCart, err,   \* the drive's status; err is latched
  pos, motion, head,                 \* the tape's place and motion, the head's track
  at,            \* next segment under the head during Logical Forward
  swapped,       \* history: cartridge changed since the dump last saw it
  missedSoFar, trouble               \* counters of the bounds

driveVars  == <<ready, referenced, newCart, err, pos, motion, head, at, swapped>>
boundVars  == <<missedSoFar, trouble>>
streamVars == <<file, cap, wire, fluxAck>>
logVars    == <<todo, results, lines>>
vars == <<pc, logVars, streamVars, driveVars, boundVars>>

\* The pure health check, on segment numbers as INDEX ticks.
Health == INSTANCE PassHealth WITH CueHoldoff <- 0

-----------------------------------------------------------------------------
\* What the capture file of a pass holds: the track its header names and the
\* one the head was on, whether the drive ran, the segments found, the reason of
\* END, and whether END spared the flux before it.
NoFile == [track |-> -1, head |-> -1, ran |-> FALSE, segs |-> <<>>, end |-> "none", whole |-> TRUE]

\* Time since the host last got a byte, tokens in the ring that fill no packet
\* yet, and time since the pump wrote the last of them.
Fresh == [quiet |-> 0, held |-> 0, age |-> 0]

\* Direction.for_track: even tracks run toward EOT.
Forward(t)   == t % 2 = 0
StartEnd(t)  == IF Forward(t) THEN "bot" ELSE "eot"
Track        == Head(todo)

\* FATAL_ERRORS is broken tape; every other code is benign.
Errors == {"benign", "fatal"}

Init ==
  /\ pc = "status" /\ todo = Tracks /\ results = <<>> /\ lines = <<>>
  /\ file = NoFile /\ cap = "idle" /\ wire = Fresh /\ fluxAck = "okay"
  /\ ready = TRUE /\ referenced \in BOOLEAN /\ newCart = FALSE /\ err = "none"
  /\ pos \in {"bot", "mid", "eot"} /\ motion = "still"
  /\ head \in {Tracks[i] : i \in DOMAIN Tracks} /\ at = 1
  /\ swapped = FALSE
  /\ missedSoFar = 0 /\ trouble = 0

-----------------------------------------------------------------------------
(* The drive layer. *)

\* Qic117Drive.status(): the latches are read and cleared, but only when Ready.
StatusClears ==
  /\ newCart' = IF ready THEN FALSE ELSE newCart
  /\ err' = IF ready THEN "none" ELSE err

\* A command the drive takes only when Ready, with no latch pending.
Accepts == ready /\ ~newCart /\ err = "none"

\* A motion command: a drive that takes it is not Ready until it is done.
Order(m) ==
  \/ /\ Accepts
     /\ motion' = m /\ ready' = FALSE
     /\ UNCHANGED err
  \/ /\ ~Accepts
     /\ err' = IF err = "none" THEN "benign" ELSE err
     /\ UNCHANGED <<motion, ready>>

-----------------------------------------------------------------------------
(* dump_tracks(), one track. *)

Done  == pc = "status" /\ todo = <<>>
Ended == {"stopped", "gaveUp", "failed"}

\* The check before each track; `if not (st.ready and st.referenced) or st.error`.
CheckDrive ==
  /\ pc = "status" /\ todo # <<>>
  /\ pc' = IF ready /\ referenced /\ err = "none" THEN "wind" ELSE "stopped"
  /\ StatusClears
  /\ swapped' = FALSE
  /\ UNCHANGED <<logVars, streamVars, ready, referenced, pos, motion, head, at, boundVars>>

\* wind_to_track_start(): Physical Reverse for an even track, Forward for an odd.
SendWind ==
  /\ pc = "wind" /\ pc' = "winding"
  /\ Order(IF Forward(Track) THEN "toBot" ELSE "toEot")
  /\ UNCHANGED <<logVars, streamVars, referenced, newCart, pos, head, at, swapped, boundVars>>

\* ... and the status the drive reports once Ready.
WoundUnchecked ==   \* mutant: the status after the wind is not looked at
  /\ pc = "winding" /\ ready /\ pc' = "seek"
  /\ StatusClears
  /\ UNCHANGED <<logVars, streamVars, ready, referenced, pos, motion, head, at, swapped, boundVars>>
Wound ==
  /\ pc = "winding" /\ ready
  /\ pc' = IF err = "none" /\ pos = StartEnd(Track) THEN "seek" ELSE "stopped"
  /\ StatusClears
  /\ UNCHANGED <<logVars, streamVars, ready, referenced, pos, motion, head, at, swapped, boundVars>>

\* SEEK_HEAD_TO_TRACK with its argument.
SendSeek ==
  /\ pc = "seek" /\ pc' = "seeking"
  /\ Order("seek")
  /\ UNCHANGED <<logVars, streamVars, referenced, newCart, pos, head, at, swapped, boundVars>>

\* command() waits for Ready; dump_tracks() does not look at what it returns.
Sought ==
  /\ pc = "seeking" /\ ready /\ pc' = "capture"
  /\ StatusClears
  /\ UNCHANGED <<logVars, streamVars, ready, referenced, pos, motion, head, at, swapped, boundVars>>

\* The drive takes Logical Forward: it reads from wherever the tape is.
StartsForward ==
  /\ Accepts /\ referenced
  /\ motion' = "forward" /\ ready' = FALSE
  /\ \/ pos = StartEnd(Track) /\ at' = 1
     \/ pos = "mid" /\ at' \in 2 .. Segments + 1
     \/ pos \notin {StartEnd(Track), "mid"} /\ at' = Segments + 1
  /\ pos' = "mid"
  /\ UNCHANGED err

RefusesForward ==
  /\ ~(Accepts /\ referenced)
  /\ err' = IF err = "none" THEN "benign" ELSE err
  /\ UNCHANGED <<motion, ready, at, pos>>

\* link.capture(), then the file is opened over whatever it was.
Capture ==
  /\ pc = "capture" /\ pc' = "stream"
  /\ \/ StartsForward  /\ file' = [NoFile EXCEPT !.track = Track, !.head = head, !.ran = TRUE]
     \/ RefusesForward /\ file' = [NoFile EXCEPT !.track = Track, !.head = head]
  /\ cap' = "running" /\ wire' = Fresh /\ fluxAck' = "okay"
  /\ UNCHANGED <<logVars, referenced, newCart, head, swapped, boundVars>>

\* chunks(): the stream is over when a read comes back empty, which is when no
\* byte came for its whole timeout.
Drained ==
  /\ pc = "stream" /\ wire.quiet = Silence
  /\ pc' = "fluxStatus" /\ wire' = Fresh
  /\ UNCHANGED <<logVars, file, cap, fluxAck, driveVars, boundVars>>

ReadFluxStatus ==
  /\ pc = "fluxStatus" /\ pc' = "settle"
  /\ UNCHANGED <<logVars, streamVars, driveVars, boundVars>>

\* What the analysis of the file and the status after the pass give.
ResultOf(f, errAfter) ==
  [track |-> f.track, ackOk |-> fluxAck = "okay", end |-> f.end,
   verified |-> f.end # "none" /\ f.whole,
   found |-> Len(f.segs), missing |-> Health!MissingSegments(f.segs),
   errAfter |-> errAfter, decoded |-> FALSE, sectors |-> 0, good |-> 0]

BestOfFirst(rs) == IF rs = <<>> THEN 0 ELSE rs[1].found   \* mutant
Best(rs) == IF rs = <<>> THEN 0
            ELSE CHOOSE n \in {rs[i].found : i \in DOMAIN rs} :
                   \A i \in DOMAIN rs : rs[i].found <= n

\* wait_ready(30), the result, its line in dump.jsonl, check_pass().
SettledAtOnce ==   \* mutant: without the wait
  LET res == ResultOf(file, err)
  IN  /\ pc = "settle"
      /\ StatusClears
      /\ results' = Append(results, res) /\ lines' = Append(lines, res)
      /\ IF Health!CheckPass(res, Best(results)) = "none"
         THEN pc' = "status" /\ todo' = Tail(todo)
         ELSE pc' = "stopped" /\ UNCHANGED todo
      /\ cap' = "idle"
      /\ UNCHANGED <<file, wire, fluxAck, ready, referenced, pos, motion, head, at, swapped, boundVars>>
Settled ==
  LET res == ResultOf(file, err)
  IN  /\ pc = "settle" /\ ready
      /\ StatusClears
      /\ results' = Append(results, res) /\ lines' = Append(lines, res)
      /\ IF Health!CheckPass(res, Best(results)) = "none"
         THEN pc' = "status" /\ todo' = Tail(todo)
         ELSE pc' = "stopped" /\ UNCHANGED todo
      /\ cap' = "idle"
      /\ UNCHANGED <<file, wire, fluxAck, ready, referenced, pos, motion, head, at, swapped, boundVars>>

\* wait_ready() gives up: DriveError, out of dump_tracks().
GivesUpBeforePass ==   \* mutant: no time limit after the pass
  /\ pc \in {"winding", "seeking"} /\ ~ready
  /\ pc' = "gaveUp"
  /\ UNCHANGED <<logVars, streamVars, driveVars, boundVars>>
GivesUp ==
  /\ pc \in {"winding", "seeking", "settle"} /\ ~ready
  /\ pc' = "gaveUp"
  /\ UNCHANGED <<logVars, streamVars, driveVars, boundVars>>

\* A LinkError, or Ctrl-C: out of dump_tracks(), wherever it is.
LinkFails ==
  /\ pc \notin Ended /\ ~Done
  /\ pc' = "failed"
  /\ UNCHANGED <<logVars, streamVars, driveVars, boundVars>>

-----------------------------------------------------------------------------
(* The drive and the capture. *)

\* The wind or the seek is done.
WindEnds ==
  /\ motion \in {"toBot", "toEot"}
  /\ motion' = "still" /\ ready' = TRUE
  /\ pos' = IF motion = "toBot" THEN "bot" ELSE "eot"
  /\ UNCHANGED <<pc, logVars, streamVars, referenced, newCart, err, head, at, swapped, boundVars>>

SeekEnds ==
  /\ motion = "seek"
  /\ motion' = "still" /\ ready' = TRUE /\ head' = Track
  /\ UNCHANGED <<pc, logVars, streamVars, referenced, newCart, err, pos, at, swapped, boundVars>>

\* During Logical Forward the drive finds the next segment, or misses it.  The
\* capture records INDEX while it runs.
FindsSegment ==
  /\ motion = "forward" /\ at <= Segments /\ at' = at + 1
  /\ \/ /\ file' = IF cap = "running" THEN [file EXCEPT !.segs = Append(@, at)] ELSE file
        /\ UNCHANGED missedSoFar
     \/ /\ missedSoFar < MaxMissed /\ missedSoFar' = missedSoFar + 1
        /\ UNCHANGED file
  /\ UNCHANGED <<pc, logVars, cap, wire, fluxAck, ready, referenced, newCart, err, pos, motion, head,
                 swapped, trouble>>

\* Logical Forward halts at logical EOT.
ForwardEnds ==
  /\ motion = "forward" /\ at > Segments
  /\ motion' = "still" /\ ready' = TRUE
  /\ UNCHANGED <<pc, logVars, streamVars, referenced, newCart, err, pos, head, at, swapped, boundVars>>

\* A fault halts any motion, with an error latched.
Fault ==
  /\ motion # "still" /\ trouble < MaxTrouble /\ trouble' = trouble + 1
  /\ motion' = "still" /\ ready' = TRUE /\ err' \in Errors
  /\ pos' = IF motion = "seek" THEN pos ELSE "mid"
  /\ UNCHANGED <<pc, logVars, streamVars, referenced, newCart, head, at, swapped, missedSoFar>>

\* Somebody takes the cartridge out, and puts one in.
SwapCartridge ==
  /\ trouble < MaxTrouble /\ trouble' = trouble + 1
  /\ motion' = "still" /\ ready' \in BOOLEAN /\ newCart' = TRUE
  /\ referenced' \in BOOLEAN /\ pos' \in {"bot", "mid", "eot"}
  /\ swapped' = TRUE
  /\ UNCHANGED <<pc, logVars, streamVars, err, head, at, missedSoFar>>

\* rdata_encode_flux(): a token for the flux the drive gave, or dead time once
\* there has been none for long.
FluxOnly(flux, age) == flux   \* mutant: without the long gap
Encodes(flux, age) == flux \/ age + 1 >= LongGap

\* Time passes in the host's read.  The pump of a running capture turns, and
\* what fills a packet reaches the host.
Waits ==
  /\ pc = "stream" /\ wire.quiet < Silence
  /\ \E flux \in BOOLEAN :
       LET wrote == cap = "running" /\ Encodes(flux, wire.age)
           held  == IF wrote THEN wire.held + 1 ELSE wire.held
           sent  == held >= Packet
       IN  /\ flux => motion = "forward"
           /\ wire' = [quiet |-> IF sent THEN 0 ELSE wire.quiet + 1,
                       held  |-> IF sent THEN 0 ELSE held,
                       age   |-> IF wrote \/ cap # "running" THEN 0 ELSE wire.age + 1]
  /\ UNCHANGED <<pc, logVars, file, cap, fluxAck, driveVars, boundVars>>

\* The tape stands still and the capture has seen a segment (or, from a drive
\* that refused, cue pulses): the idle rule seals it EOT, and the last packet
\* takes what is left.  Without an INDEX the watchdog tears it down, and sends
\* nothing more.  END may have landed on unsent flux.
CaptureIdleEnds ==
  /\ cap = "running" /\ motion = "still"
  /\ \/ /\ cap' = "eot" /\ (file.segs # <<>> \/ ~file.ran)
        /\ wire' = Fresh
        /\ \E w \in BOOLEAN :
             file' = [file EXCEPT !.end = "EOT", !.whole = w,
                                  !.segs = IF file.ran THEN @ ELSE [i \in 1 .. Cues |-> i]]
     \/ cap' = "torn" /\ file.segs = <<>> /\ UNCHANGED <<file, wire>>
  /\ UNCHANGED <<pc, logVars, fluxAck, driveVars, boundVars>>

\* The ring overflows, or no INDEX comes for the watchdog's time: Stop Tape,
\* which the drive obeys or (as on the bench) ignores.
CaptureBreaks ==
  /\ cap = "running" /\ motion = "forward"
  /\ trouble < MaxTrouble /\ trouble' = trouble + 1
  /\ \/ cap' = "overflow" /\ fluxAck' = "overflow" /\ wire' = Fresh
     \/ cap' = "torn" /\ UNCHANGED <<fluxAck, wire>>
  /\ \/ motion' = "still" /\ ready' = TRUE
     \/ UNCHANGED <<motion, ready>>
  /\ UNCHANGED <<pc, logVars, file, referenced, newCart, err, pos, head, at, swapped, missedSoFar>>

-----------------------------------------------------------------------------
Pass == CheckDrive \/ SendWind \/ Wound \/ SendSeek \/ Sought \/ Capture
        \/ Drained \/ ReadFluxStatus \/ Settled
Device == Waits \/ CaptureIdleEnds \/ CaptureBreaks
Motion == WindEnds \/ SeekEnds \/ FindsSegment \/ ForwardEnds

Next == Pass \/ GivesUp \/ LinkFails \/ Device \/ Motion \/ Fault \/ SwapCartridge

Spec == Init /\ [][Next]_vars

\* The host's loop runs, its reads time out, a poll for Ready ends one way or the other, and a
\* capture whose tape stands still is ended by the device (TapeCapture's
\* DeviceComesBack).  A motion may last for ever, but for Logical Forward, which
\* runs out of tape.
FairSpec == Spec /\ WF_vars(Pass) /\ WF_vars(GivesUp) /\ WF_vars(CaptureIdleEnds)
                 /\ WF_vars(FindsSegment \/ ForwardEnds) /\ WF_vars(Waits)

-----------------------------------------------------------------------------
(* Properties. *)

Running  == {"status", "wind", "winding", "seek", "seeking", "capture", "stream", "fluxStatus", "settle"}
TrackSet == {Tracks[i] : i \in DOMAIN Tracks}

TypeOK ==
  /\ pc \in Running \cup Ended
  /\ todo \in Seq(TrackSet) /\ Len(results) = Len(lines)
  /\ cap \in {"idle", "running", "eot", "torn", "overflow"}
  /\ wire \in [quiet : 0 .. Silence, held : 0 .. Packet - 1, age : 0 .. LongGap - 1]
  /\ fluxAck \in {"okay", "overflow"}
  /\ {ready, referenced, newCart, swapped} \subseteq BOOLEAN
  /\ err \in Errors \cup {"none"}
  /\ pos \in {"bot", "mid", "eot"} /\ head \in TrackSet
  /\ motion \in {"still", "toBot", "toEot", "seek", "forward"}
  /\ at \in 1 .. Segments + 1
  /\ missedSoFar \in 0 .. MaxMissed /\ trouble \in 0 .. MaxTrouble

\* Logical Forward reads from the end of the tape where its track begins: what
\* was checked after the wind still holds when the capture is armed, unless
\* somebody changed the cartridge.
ReadsFromTrackStart ==
  [][motion' = "forward" /\ motion # "forward" /\ ~swapped => at' = 1]_vars

\* Silence is the end: when a read has come back empty the device is not
\* capturing, however little the drive gives it, so that no QIC-117 command or
\* status report goes out during Logical Forward, where it would swallow segments.
NothingIntoCapture ==
  cap = "running" => pc \in {"stream", "failed"}

\* An accepted pass never found less than nine tenths of what any accepted
\* pass before it found, and lost no flux that it holds: results and file agree.
NoWeakPassAccepted ==
  \A i, j \in 1 .. Len(Tracks) - Len(todo) :
    /\ i < j => 10 * results[j].found >= 9 * results[i].found
    /\ results[j].end = "EOT" /\ results[j].verified /\ results[j].ackOk

\* A dump that ends in good order, or stops itself, leaves the tape at rest.
OrderlyEndIsStill == Done \/ pc = "stopped" => motion = "still"

\* Whatever the drive does, dump_tracks() ends.
DumpEnds == <>(Done \/ pc \in Ended)

=============================================================================
