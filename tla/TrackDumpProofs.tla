-------------------------- MODULE TrackDumpProofs --------------------------
(***************************************************************************)
(* For every list of tracks, any number of segments, and any number of     *)
(* faults, cartridge changes and missed segments, of a dump (TrackDump):    *)
(*   - a read comes back empty only from a capture that is over, so that no *)
(*     command goes out while the device captures;                         *)
(*   - a dump that ends in order leaves the tape at rest;                  *)
(*   - Logical Forward starts at its track's own end;                      *)
(*   - no accepted pass is weaker than the rules allow;                    *)
(* of a pass (IndexLine): what it found is judged for what it is;           *)
(* and of the bytes of a pass (FluxStream): they read back, whole and cut.  *)
(*                                                                         *)
(* The first rests on Audible: the silence so far is no longer than the     *)
(* tokens that wait for their packet took to write.                         *)
(* The second and the third rest on Resting: a ready drive stands still,    *)
(* and it does between any two commands of the loop, so that nothing but a   *)
(* change of the cartridge undoes what was checked after the wind.          *)
(* For the fourth, Judged says that the results of a running dump are those *)
(* of its accepted tracks, and that one of them is the best.                *)
(*                                                                         *)
(* A pass rests on PassKnown: some list of the segments found, in order,    *)
(* has the pulses the code keeps (Tells).  Most gaps are of one period, so  *)
(* the median is one up to the jitter (MedianIs), each gap then hides what  *)
(* it should (HiddenIs), and the sum telescopes (CountIs).                  *)
(*                                                                         *)
(* A stream rests on StreamIs: what was written so far, read from its start, *)
(* tells what happened so far, and cut anywhere the beginning of it.  Each   *)
(* thing that is put behind it keeps that (StreamSample, StreamEdge,        *)
(* StreamDead, StreamMarker, and StreamEnds for END and its NUL), so that a  *)
(* pump does (StreamEncodes).  Timely is what keeps dead time from standing  *)
(* before an interval that could be read as its tail.                       *)
(***************************************************************************)
EXTENDS TrackDump, IndexLine, FluxStream, SequenceTheorems, FiniteSetTheorems, WellFoundedInduction, TLAPS

Files == [track : Int, head : Int, ran : BOOLEAN, segs : Seq(Nat), end : {"none", "EOT"},
          whole : BOOLEAN]

\* The types, and that there is a track to dump wherever the code takes the first.
Typed ==
  /\ TypeOK
  /\ file \in Files
  /\ lines = results
  /\ \E R : results \in Seq(R)
  /\ pc \in Running \ {"status"} => todo # <<>>
  /\ motion = "seek" => todo # <<>>

\* A drive that is ready stands still, and it was ready before each command.
Resting ==
  /\ ready => motion = "still"
  /\ pc \in {"status", "wind", "seek", "capture", "stopped"} => motion = "still"
  /\ pc = "seeking" => motion \in {"still", "seek"}

\* Until the capture is armed the tape is where the wind left it.
AtStart == pc \in {"seek", "seeking", "capture"} /\ ~swapped => pos = StartEnd(Track)

Accepted == Len(Tracks) - Len(todo)

\* Each token held back took at most LongGap to come, and the next is on its way.
Audible ==
  cap = "running" /\ pc = "stream" => wire.quiet <= wire.held * LongGap + wire.age

HasBest(rs) == \E b \in DOMAIN rs : \A i \in DOMAIN rs : rs[i].found <= rs[b].found

\* Every result of a running dump is of an accepted track, and one of them is the best.
Judged ==
  /\ pc \in Running => Len(results) = Accepted
  /\ Accepted \in 0 .. Len(results)
  /\ \A i \in DOMAIN results : results[i].found \in Nat
  /\ results # <<>> => HasBest(results)
  /\ NoWeakPassAccepted

-----------------------------------------------------------------------------
(* Types. *)

LEMMA TypedInit == Init => Typed
<1> SUFFICES ASSUME Init PROVE Typed
  OBVIOUS
<1>1. Tracks \in Seq(TrackSet)
  BY DumpAssumption DEF TrackSet
<1>2. file \in Files
  BY DEF Init, NoFile, Files
<1>3. results \in Seq({})
  BY DEF Init
<1>4. head \in TrackSet
  BY DEF Init, TrackSet
<1>5. 1 \in 1 .. Segments + 1 /\ 0 \in 0 .. MaxMissed /\ 0 \in 0 .. MaxTrouble
  BY DumpAssumption
<1>6. wire \in [quiet : 0 .. Silence, held : 0 .. Packet - 1, age : 0 .. LongGap - 1]
  BY SilenceAssumption DEF Init, Fresh
<1>7. TypeOK
  BY <1>1, <1>4, <1>5, <1>6 DEF Init, TypeOK, Running, Ended, Errors
<1> QED BY <1>2, <1>3, <1>7 DEF Init, Typed

\* The first track of those to do is a track.
LEMMA TrackTyped ==
  ASSUME Typed, todo # <<>>
  PROVE  Track \in TrackSet /\ Tail(todo) \in Seq(TrackSet)
BY DEF Typed, TypeOK, Track

LEMMA TracksAreNumbers == TrackSet \subseteq Nat
BY DumpAssumption DEF TrackSet

\* Arming leaves a file with nothing in it.
LEMMA NewFile ==
  ASSUME NEW t \in Int, NEW h \in Int
  PROVE  /\ [NoFile EXCEPT !.track = t, !.head = h, !.ran = TRUE] \in Files
         /\ [NoFile EXCEPT !.track = t, !.head = h] \in Files
<1>1. NoFile \in Files
  BY DEF NoFile, Files
<1> QED BY <1>1, Zenon DEF Files

\* Segments that are added to a file, or the END that it is given.
LEMMA GrownFile ==
  ASSUME NEW f \in Files, NEW s \in Seq(Nat)
  PROVE  [f EXCEPT !.segs = s] \in Files
BY DEF Files

LEMMA SealedFile ==
  ASSUME NEW f \in Files, NEW s \in Seq(Nat), NEW w \in BOOLEAN
  PROVE  [f EXCEPT !.end = "EOT", !.whole = w, !.segs = s] \in Files
BY Zenon DEF Files

\* A stream's timing when it starts, and after a read of a unit of time.
LEMMA FreshTyped == Fresh \in [quiet : 0 .. Silence, held : 0 .. Packet - 1, age : 0 .. LongGap - 1]
BY SilenceAssumption DEF Fresh

\* A turn of the pump leaves less than a packet, and silence only grows by its time.
LEMMA WaitsKeeps ==
  ASSUME Typed, Waits
  PROVE  /\ wire' \in [quiet : 0 .. Silence, held : 0 .. Packet - 1, age : 0 .. LongGap - 1]
         /\ Audible => Audible'
<1>1. PICK q \in 0 .. Silence, h \in 0 .. Packet - 1, a \in 0 .. LongGap - 1 :
         wire = [quiet |-> q, held |-> h, age |-> a]
  BY DEF Typed, TypeOK
<1>2. PICK flux \in BOOLEAN :
         LET wrote == cap = "running" /\ Encodes(flux, wire.age)
             held  == IF wrote THEN wire.held + 1 ELSE wire.held
             sent  == held >= Packet
         IN  wire' = [quiet |-> IF sent THEN 0 ELSE wire.quiet + 1,
                      held  |-> IF sent THEN 0 ELSE held,
                      age   |-> IF wrote \/ cap # "running" THEN 0 ELSE wire.age + 1]
  BY DEF Waits
<1>3. q < Silence
  BY <1>1 DEF Waits
<1>7. wire.quiet = q /\ wire.held = h /\ wire.age = a
  BY <1>1
<1>8. h < Packet
  BY SilenceAssumption
<1>4. CASE cap = "running" /\ Encodes(flux, a)
  <2>1. wire' = IF h + 1 >= Packet THEN [quiet |-> 0, held |-> 0, age |-> 0]
                ELSE [quiet |-> q + 1, held |-> h + 1, age |-> 0]
    BY <1>2, <1>7, <1>4
  <2>2. (h + 1) * LongGap = h * LongGap + LongGap /\ h * LongGap \in Int
    BY SilenceAssumption
  <2>3. q <= h * LongGap + a => q + 1 <= (h + 1) * LongGap + 0
    BY <2>2, SilenceAssumption
  <2>4. 0 <= 0 * LongGap + 0
    BY SilenceAssumption
  <2>5. CASE h + 1 >= Packet
    BY <1>1, <2>1, <2>4, <2>5, SilenceAssumption DEF Audible
  <2>6. CASE ~(h + 1 >= Packet)
    <3>1. q + 1 \in 0 .. Silence /\ h + 1 \in 0 .. Packet - 1 /\ 0 \in 0 .. LongGap - 1
      BY <1>3, <2>6, SilenceAssumption
    <3>2. wire' = [quiet |-> q + 1, held |-> h + 1, age |-> 0]
      BY <2>1, <2>6
    <3>3. wire'.quiet = q + 1 /\ wire'.held = h + 1 /\ wire'.age = 0
      BY <3>2
    <3>4. wire.quiet = q /\ wire.held = h /\ wire.age = a
      BY <1>1
    <3>5. pc' = pc /\ cap' = cap
      BY DEF Waits
    <3>6. Audible => Audible'
      BY <2>3, <3>3, <3>4, <3>5 DEF Audible
    <3> QED BY <3>1, <3>2, <3>6
  <2> QED BY <2>5, <2>6
<1>5. CASE cap = "running" /\ ~Encodes(flux, a)
  <2>1. wire' = [quiet |-> q + 1, held |-> h, age |-> a + 1]
    <3>1. ~Encodes(flux, wire.age)
      BY <1>5, <1>7
    <3>2. wire' = [quiet |-> IF wire.held >= Packet THEN 0 ELSE wire.quiet + 1,
                   held  |-> IF wire.held >= Packet THEN 0 ELSE wire.held,
                   age   |-> wire.age + 1]
      BY ONLY <1>2, <1>5, <3>1, Zenon
    <3>3. ~(h >= Packet)
      BY <1>8, SilenceAssumption
    <3> QED BY ONLY <1>7, <3>2, <3>3
  <2>2. a + 1 \in 0 .. LongGap - 1
    BY <1>5, SilenceAssumption DEF Encodes
  <2>3. h * LongGap \in Int
    BY SilenceAssumption
  <2>4. wire'.quiet = q + 1 /\ wire'.held = h /\ wire'.age = a + 1
    BY <2>1
  <2>5. wire.quiet = q /\ wire.held = h /\ wire.age = a
    BY <1>1
  <2>6. Audible => Audible'
    <3>1. pc' = pc /\ cap' = cap
      BY DEF Waits
    <3>2. q <= h * LongGap + a => q + 1 <= h * LongGap + (a + 1)
      BY <2>3
    <3> QED BY <2>4, <2>5, <3>1, <3>2 DEF Audible
  <2>7. q + 1 \in 0 .. Silence
    BY <1>3, SilenceAssumption
  <2> QED BY <2>1, <2>2, <2>6, <2>7
<1>6. CASE cap # "running"
  <2>1. wire' = [quiet |-> q + 1, held |-> h, age |-> 0]
    <3>1. wire' = [quiet |-> IF wire.held >= Packet THEN 0 ELSE wire.quiet + 1,
                   held  |-> IF wire.held >= Packet THEN 0 ELSE wire.held, age |-> 0]
      BY ONLY <1>2, <1>6, Zenon
    <3>2. ~(h >= Packet)
      BY <1>8, SilenceAssumption
    <3> QED BY ONLY <1>7, <3>1, <3>2
  <2>2. q + 1 \in 0 .. Silence /\ 0 \in 0 .. LongGap - 1
    BY <1>3, SilenceAssumption
  <2>3. cap' # "running"
    BY <1>6 DEF Waits
  <2> QED BY <2>1, <2>2, <2>3 DEF Audible
<1> QED BY <1>1, <1>4, <1>5, <1>6

\* Where Logical Forward begins to read.
LEMMA StartsTyped ==
  ASSUME Typed, StartsForward
  PROVE  /\ at' \in 1 .. Segments + 1
         /\ pos = StartEnd(Track) => at' = 1
<1>1. 1 \in 1 .. Segments + 1 /\ Segments + 1 \in 1 .. Segments + 1
      /\ 2 .. Segments + 1 \subseteq 1 .. Segments + 1
  BY DumpAssumption
<1>2. StartEnd(Track) # "mid"
  BY DEF StartEnd
<1> QED BY <1>1, <1>2 DEF StartsForward

LEMMA TypedStep == Typed /\ Resting /\ [Next]_vars => Typed'
<1> SUFFICES ASSUME Typed, Resting, [Next]_vars PROVE Typed'
  OBVIOUS
<1> USE DEF TypeOK, Running, Ended
<1>1. CASE CheckDrive
  BY <1>1 DEF CheckDrive, StatusClears, Typed, logVars, streamVars, boundVars
<1>2. CASE SendWind
  BY <1>2 DEF SendWind, Order, Typed, Errors, logVars, streamVars, boundVars
<1>3. CASE Wound
  BY <1>3 DEF Wound, StatusClears, Typed, logVars, streamVars, boundVars
<1>4. CASE SendSeek
  BY <1>4 DEF SendSeek, Order, Typed, Errors, logVars, streamVars, boundVars
<1>5. CASE Sought
  BY <1>5 DEF Sought, StatusClears, Typed, logVars, streamVars, boundVars
<1>6. CASE Capture
  <2>1. Track \in Int /\ head \in Int
    BY <1>6, TrackTyped, TracksAreNumbers DEF Capture, Typed
  <2>2. file' \in Files
    BY <1>6, <2>1, NewFile DEF Capture
  <2>3. at' \in 1 .. Segments + 1
    BY <1>6, StartsTyped DEF Capture, RefusesForward, Typed
  <2>4. err' \in Errors \cup {"none"} /\ ready' \in BOOLEAN
    BY <1>6 DEF Capture, StartsForward, RefusesForward, Typed, Errors
  <2>5. pos' \in {"bot", "mid", "eot"} /\ motion' \in {"still", "toBot", "toEot", "seek", "forward"}
        /\ (motion' = "seek" => motion = "seek")
    BY <1>6 DEF Capture, StartsForward, RefusesForward, Typed
  <2> QED BY <1>6, <2>2, <2>3, <2>4, <2>5, FreshTyped DEF Capture, Typed, logVars, boundVars
<1>7. CASE Drained
  BY <1>7, FreshTyped DEF Drained, Typed, logVars, streamVars, driveVars, boundVars
<1>8. CASE ReadFluxStatus
  BY <1>8 DEF ReadFluxStatus, Typed, logVars, streamVars, driveVars, boundVars
<1>9. CASE Settled
  <2> DEFINE res == ResultOf(file, err)
  <2>1. results' = Append(results, res) /\ lines' = Append(lines, res)
    BY <1>9 DEF Settled
  <2>2. PICK R : results \in Seq(R)
    BY DEF Typed
  <2>3. results \in Seq(R \cup {res})
    BY <2>2
  <2>4. results' \in Seq(R \cup {res})
    BY <2>1, <2>3
  <2>5. lines' = results'
    BY <2>1 DEF Typed
  <2>6. todo' \in Seq(TrackSet) /\ pc' \in {"status", "stopped"} /\ motion' # "seek"
    BY <1>9, TrackTyped DEF Settled, Typed, Resting
  <2> QED BY <1>9, <2>4, <2>5, <2>6 DEF Settled, StatusClears, Typed, boundVars
<1>10. CASE GivesUp
  BY <1>10 DEF GivesUp, Typed, logVars, streamVars, driveVars, boundVars
<1>11. CASE LinkFails
  BY <1>11 DEF LinkFails, Typed, logVars, streamVars, driveVars, boundVars
<1>12. CASE CaptureIdleEnds
  <2>1. [i \in 1 .. Cues |-> i] \in Seq(Nat)
    BY DumpAssumption
  <2>2. file.segs \in Seq(Nat)
    BY DEF Typed, Files
  <2> DEFINE segs == IF file.ran THEN file.segs ELSE [i \in 1 .. Cues |-> i]
  <2>3. \A w \in BOOLEAN : [file EXCEPT !.end = "EOT", !.whole = w, !.segs = segs] \in Files
    <3>1. segs \in Seq(Nat)
      BY <2>1, <2>2
    <3> HIDE DEF segs
    <3> QED BY <3>1, SealedFile DEF Typed
  <2>4. \/ \E w \in BOOLEAN : file' = [file EXCEPT !.end = "EOT", !.whole = w, !.segs = segs]
        \/ file' = file
    BY <1>12, Zenon DEF CaptureIdleEnds
  <2>5. file' \in Files /\ cap' \in {"eot", "torn"}
    <3>1. cap' \in {"eot", "torn"}
      BY <1>12 DEF CaptureIdleEnds
    <3> QED BY <2>3, <2>4, <3>1, Zenon DEF Typed
  <2>6. wire' \in {wire, Fresh}
    BY <1>12 DEF CaptureIdleEnds
  <2> QED BY <1>12, <2>5, <2>6, FreshTyped DEF CaptureIdleEnds, Typed, logVars, driveVars, boundVars
<1>13. CASE CaptureBreaks
  <2>1. trouble' \in 0 .. MaxTrouble
    BY <1>13, DumpAssumption DEF CaptureBreaks, Typed
  <2>2. ready' \in BOOLEAN /\ motion' \in {"still", motion}
    BY <1>13 DEF CaptureBreaks, Typed
  <2>3. cap' \in {"torn", "overflow"} /\ fluxAck' \in {"okay", "overflow"}
    BY <1>13 DEF CaptureBreaks, Typed
  <2>4. wire' \in {wire, Fresh}
    BY <1>13 DEF CaptureBreaks
  <2> QED BY <1>13, <2>1, <2>2, <2>3, <2>4, FreshTyped DEF CaptureBreaks, Typed, logVars
<1>14. CASE WindEnds
  BY <1>14 DEF WindEnds, Typed, logVars, streamVars, boundVars
<1>15. CASE SeekEnds
  BY <1>15, TrackTyped DEF SeekEnds, Typed, logVars, streamVars, boundVars
<1>16. CASE FindsSegment
  <2>1. at \in Nat
    BY DumpAssumption DEF Typed
  <2>2. Append(file.segs, at) \in Seq(Nat)
    BY <2>1 DEF Files, Typed
  <2>3. file' \in Files
    BY <1>16, <2>2, GrownFile DEF FindsSegment, Typed
  <2>4. at' \in 1 .. Segments + 1 /\ missedSoFar' \in 0 .. MaxMissed
    <3>1. at \in 1 .. Segments + 1 /\ missedSoFar \in 0 .. MaxMissed
      BY DEF Typed
    <3>2. /\ at <= Segments /\ at' = at + 1
          /\ missedSoFar' # missedSoFar => missedSoFar < MaxMissed /\ missedSoFar' = missedSoFar + 1
      BY <1>16 DEF FindsSegment
    <3> QED BY ONLY <3>1, <3>2, DumpAssumption
  <2> QED BY <1>16, <2>3, <2>4 DEF FindsSegment, Typed, logVars
<1>17. CASE ForwardEnds
  BY <1>17 DEF ForwardEnds, Typed, logVars, streamVars, boundVars
<1>18. CASE Fault
  BY <1>18, DumpAssumption DEF Fault, Typed, Errors, logVars, streamVars
<1>19. CASE SwapCartridge
  BY <1>19, DumpAssumption DEF SwapCartridge, Typed, logVars, streamVars
<1>20. CASE Waits
  BY <1>20, WaitsKeeps DEF Waits, Typed, logVars, driveVars, boundVars
<1>21. CASE UNCHANGED vars
  BY <1>21 DEF Typed, vars, logVars, streamVars, driveVars, boundVars, TrackSet
<1> QED BY <1>1, <1>2, <1>3, <1>4, <1>5, <1>6, <1>7, <1>8, <1>9, <1>10, <1>11, <1>12, <1>13, <1>14,
           <1>15, <1>16, <1>17, <1>18, <1>19, <1>20, <1>21 DEF Next, Pass, Device, Motion

-----------------------------------------------------------------------------
(* Between two commands the tape rests, and stays where it was wound to. *)

LEMMA RestingStep == Typed /\ Resting /\ [Next]_vars => Resting'
<1> SUFFICES ASSUME Typed, Resting, [Next]_vars PROVE Resting'
  OBVIOUS
<1> USE DEF Resting
<1>1. CASE CheckDrive
  BY <1>1 DEF CheckDrive
<1>2. CASE SendWind
  BY <1>2 DEF SendWind, Order
<1>3. CASE Wound
  BY <1>3 DEF Wound
<1>4. CASE SendSeek
  BY <1>4 DEF SendSeek, Order
<1>5. CASE Sought
  BY <1>5 DEF Sought
<1>6. CASE Capture
  BY <1>6 DEF Capture, StartsForward, RefusesForward
<1>7. CASE Drained \/ ReadFluxStatus \/ GivesUp \/ LinkFails
  BY <1>7 DEF Drained, ReadFluxStatus, GivesUp, LinkFails, driveVars
<1>8. CASE Settled
  BY <1>8 DEF Settled
<1>9. CASE CaptureIdleEnds
  BY <1>9 DEF CaptureIdleEnds, driveVars
<1>10. CASE CaptureBreaks
  BY <1>10 DEF CaptureBreaks
<1>11. CASE WindEnds \/ SeekEnds \/ ForwardEnds
  BY <1>11 DEF WindEnds, SeekEnds, ForwardEnds
<1>12. CASE FindsSegment
  BY <1>12 DEF FindsSegment
<1>13. CASE Fault
  BY <1>13 DEF Fault
<1>14. CASE SwapCartridge
  BY <1>14 DEF SwapCartridge
<1>15. CASE Waits
  BY <1>15 DEF Waits, driveVars
<1>16. CASE UNCHANGED vars
  BY <1>16 DEF vars, driveVars
<1> QED BY <1>1, <1>2, <1>3, <1>4, <1>5, <1>6, <1>7, <1>8, <1>9, <1>10, <1>11, <1>12, <1>13, <1>14,
           <1>15, <1>16 DEF Next, Pass, Device, Motion

LEMMA AtStartStep == Typed /\ Resting /\ AtStart /\ [Next]_vars => AtStart'
<1> SUFFICES ASSUME Typed, Resting, AtStart, [Next]_vars PROVE AtStart'
  OBVIOUS
<1> USE DEF AtStart, Resting, Track, logVars
<1>1. CASE Wound
  BY <1>1 DEF Wound
<1>2. CASE SendSeek \/ Sought
  BY <1>2 DEF SendSeek, Sought
<1>3. CASE CheckDrive \/ SendWind \/ Capture \/ Settled
  BY <1>3 DEF CheckDrive, SendWind, Capture, Settled
<1>4. CASE Drained \/ ReadFluxStatus \/ GivesUp \/ LinkFails
  BY <1>4 DEF Drained, ReadFluxStatus, GivesUp, LinkFails, Ended, driveVars
<1>5. CASE Waits \/ CaptureIdleEnds \/ CaptureBreaks
  BY <1>5 DEF Waits, CaptureIdleEnds, CaptureBreaks, driveVars
<1>6. CASE WindEnds
  BY <1>6 DEF WindEnds
<1>7. CASE SeekEnds \/ ForwardEnds \/ FindsSegment
  BY <1>7 DEF SeekEnds, ForwardEnds, FindsSegment
<1>8. CASE Fault
  BY <1>8 DEF Fault
<1>9. CASE SwapCartridge
  BY <1>9 DEF SwapCartridge
<1>10. CASE UNCHANGED vars
  BY <1>10 DEF vars, driveVars
<1> QED BY <1>1, <1>2, <1>3, <1>4, <1>5, <1>6, <1>7, <1>8, <1>9, <1>10 DEF Next, Pass, Device, Motion

\* A step that sets Logical Forward going does so from the track's own end.
LEMMA ForwardStep ==
  ASSUME Typed, AtStart, [Next]_vars, motion' = "forward", motion # "forward", ~swapped
  PROVE  at' = 1
<1>1. Capture
  BY DEF Next, Pass, Device, Motion, CheckDrive, SendWind, Wound, SendSeek, Sought, Drained,
         ReadFluxStatus, Settled, GivesUp, LinkFails, Waits, CaptureIdleEnds, CaptureBreaks, WindEnds,
         SeekEnds, FindsSegment, ForwardEnds, Fault, SwapCartridge, Order, vars, driveVars
<1>2. pos = StartEnd(Track)
  BY <1>1 DEF AtStart, Capture
<1>3. StartsForward
  BY <1>1 DEF Capture, RefusesForward
<1> QED BY <1>2, <1>3, StartsTyped

-----------------------------------------------------------------------------
(* A running capture is heard before a read gives up on it. *)

LEMMA AudibleStep == Typed /\ Audible /\ [Next]_vars => Audible'
<1> SUFFICES ASSUME Typed, Audible, [Next]_vars PROVE Audible'
  OBVIOUS
<1> USE DEF Audible
<1>1. CASE CheckDrive \/ SendWind \/ Wound \/ SendSeek \/ Sought
  BY <1>1 DEF CheckDrive, SendWind, Wound, SendSeek, Sought
<1>2. CASE Capture
  BY <1>2, SilenceAssumption DEF Capture, Fresh
<1>3. CASE Drained \/ ReadFluxStatus \/ Settled \/ GivesUp \/ LinkFails
  BY <1>3 DEF Drained, ReadFluxStatus, Settled, GivesUp, LinkFails
<1>4. CASE Waits
  BY <1>4, WaitsKeeps
<1>5. CASE CaptureIdleEnds \/ CaptureBreaks
  BY <1>5 DEF CaptureIdleEnds, CaptureBreaks
<1>6. CASE WindEnds \/ SeekEnds \/ FindsSegment \/ ForwardEnds \/ Fault \/ SwapCartridge
  BY <1>6 DEF WindEnds, SeekEnds, FindsSegment, ForwardEnds, Fault, SwapCartridge, streamVars
<1>7. CASE UNCHANGED vars
  BY <1>7 DEF vars, streamVars
<1> QED BY <1>1, <1>2, <1>3, <1>4, <1>5, <1>6, <1>7 DEF Next, Pass, Device, Motion

\* The longest silence of a running capture is a packet of filler.
LEMMA EmptyReadIsTheEnd ==
  ASSUME Typed, Audible, Drained
  PROVE  cap # "running"
<1> SUFFICES ASSUME cap = "running" PROVE FALSE
  OBVIOUS
<1>1. PICK q \in 0 .. Silence, h \in 0 .. Packet - 1, a \in 0 .. LongGap - 1 :
         wire = [quiet |-> q, held |-> h, age |-> a]
  BY DEF Typed, TypeOK
<1>2. q = Silence /\ q <= h * LongGap + a
  BY <1>1 DEF Drained, Audible
<1>3. h * LongGap <= (Packet - 1) * LongGap
  BY SilenceAssumption
<1>4. (Packet - 1) * LongGap = Packet * LongGap - LongGap /\ Packet * LongGap \in Int /\ h * LongGap \in Int
  BY SilenceAssumption
<1> QED BY <1>2, <1>3, <1>4, SilenceAssumption

LEMMA NothingStep == Typed /\ Audible /\ NothingIntoCapture /\ [Next]_vars => NothingIntoCapture'
<1> SUFFICES ASSUME Typed, Audible, NothingIntoCapture, [Next]_vars PROVE NothingIntoCapture'
  OBVIOUS
<1> USE DEF NothingIntoCapture
<1>1. CASE CheckDrive \/ SendWind \/ Wound \/ SendSeek \/ Sought
  BY <1>1 DEF CheckDrive, SendWind, Wound, SendSeek, Sought, streamVars
<1>2. CASE Capture \/ Settled
  BY <1>2 DEF Capture, Settled
<1>3. CASE Drained
  BY <1>3, EmptyReadIsTheEnd DEF Drained
<1>4. CASE ReadFluxStatus \/ GivesUp \/ LinkFails
  BY <1>4 DEF ReadFluxStatus, GivesUp, LinkFails, streamVars
<1>5. CASE Waits \/ CaptureIdleEnds \/ CaptureBreaks
  BY <1>5 DEF Waits, CaptureIdleEnds, CaptureBreaks
<1>6. CASE WindEnds \/ SeekEnds \/ FindsSegment \/ ForwardEnds \/ Fault \/ SwapCartridge
  BY <1>6 DEF WindEnds, SeekEnds, FindsSegment, ForwardEnds, Fault, SwapCartridge, streamVars
<1>7. CASE UNCHANGED vars
  BY <1>7 DEF vars, streamVars
<1> QED BY <1>1, <1>2, <1>3, <1>4, <1>5, <1>6, <1>7 DEF Next, Pass, Device, Motion

-----------------------------------------------------------------------------
(* What is accepted. *)

\* The best of the results is found by none of them to be less.
LEMMA BestIsMost ==
  ASSUME NEW rs, NEW b \in DOMAIN rs, rs # <<>>,
         \A i \in DOMAIN rs : rs[i].found <= rs[b].found
  PROVE  /\ \A i \in DOMAIN rs : rs[i].found <= Best(rs)
         /\ \E i \in DOMAIN rs : Best(rs) = rs[i].found
<1> DEFINE IsBest(n) == \A i \in DOMAIN rs : rs[i].found <= n
           Founds == {rs[i].found : i \in DOMAIN rs}
<1>1. \E n \in Founds : IsBest(n)
  OBVIOUS
<1>2. Best(rs) = CHOOSE n \in Founds : IsBest(n)
  BY DEF Best
<1>3. Best(rs) \in Founds /\ IsBest(Best(rs))
  <2> HIDE DEF IsBest, Founds
  <2> QED BY <1>1, <1>2
<1> QED BY <1>3

\* What check_pass() lets through.
LEMMA PassesCheck ==
  ASSUME NEW res, NEW best \in Nat, res.found \in Nat, Health!CheckPass(res, best) = "none"
  PROVE  /\ res.ackOk /\ res.end = "EOT" /\ res.verified
         /\ 10 * res.found >= 9 * best
BY DEF Health!CheckPass

\* Nothing but the end of a pass is a result.
LEMMA ResultsKept ==
  ASSUME [Next]_vars, ~Settled
  PROVE  /\ todo' = todo /\ results' = results
         /\ pc' \in Running => pc \in Running
<1> USE DEF logVars, Running, Ended
<1>1. CASE CheckDrive \/ SendWind \/ Wound \/ SendSeek \/ Sought \/ Capture
  BY <1>1 DEF CheckDrive, SendWind, Wound, SendSeek, Sought, Capture
<1>2. CASE Drained \/ ReadFluxStatus \/ GivesUp \/ LinkFails
  BY <1>2 DEF Drained, ReadFluxStatus, GivesUp, LinkFails
<1>3. CASE Waits \/ CaptureIdleEnds \/ CaptureBreaks \/ Fault \/ SwapCartridge
  BY <1>3 DEF Waits, CaptureIdleEnds, CaptureBreaks, Fault, SwapCartridge
<1>4. CASE WindEnds \/ SeekEnds \/ FindsSegment \/ ForwardEnds
  BY <1>4 DEF WindEnds, SeekEnds, FindsSegment, ForwardEnds
<1>5. CASE UNCHANGED vars
  BY <1>5 DEF vars
<1> QED BY <1>1, <1>2, <1>3, <1>4, <1>5 DEF Next, Pass, Device, Motion

\* The end of a pass: one more result, and if it passes the check it is not far below the best.
LEMMA SettledJudged ==
  ASSUME Typed, Judged, Settled
  PROVE  Judged'
<1> DEFINE res == ResultOf(file, err)
           n == Len(results)
<1>1. /\ pc = "settle" /\ results' = Append(results, res)
      /\ \/ Health!CheckPass(res, Best(results)) = "none" /\ pc' = "status" /\ todo' = Tail(todo)
         \/ pc' = "stopped" /\ todo' = todo
  BY DEF Settled
<1>2. PICK R : results \in Seq(R)
  BY DEF Typed
<1>3. /\ n \in Nat /\ DOMAIN results = 1 .. n
      /\ Len(results') = n + 1 /\ DOMAIN results' = 1 .. n + 1
      /\ \A i \in 1 .. n : results'[i] = results[i]
      /\ results'[n + 1] = res
      /\ n + 1 \in 1 .. n + 1 /\ 1 .. n \subseteq 1 .. n + 1
  <2> HIDE DEF res
  <2>1. results \in Seq(R \cup {res})
    BY <1>2
  <2> QED BY <1>1, <2>1
<1>4. todo # <<>> /\ Len(todo) \in Nat \ {0} /\ Len(Tail(todo)) = Len(todo) - 1 /\ Len(Tracks) \in Nat
  BY <1>1, DumpAssumption DEF Typed, TypeOK, Running
<1>5. n = Accepted /\ \A i \in 1 .. n : results[i].found \in Nat
  BY <1>1, <1>3 DEF Judged, Running
<1>6. res.found \in Nat
  BY DEF ResultOf, Typed, Files
<1>7. /\ Best(results) \in Nat
      /\ \A i \in 1 .. n : results[i].found <= Best(results)
  <2>1. CASE results = <<>>
    BY <1>3, <2>1 DEF Best
  <2>2. CASE results # <<>>
    <3>1. PICK b \in DOMAIN results : \A i \in DOMAIN results : results[i].found <= results[b].found
      BY <2>2 DEF Judged, HasBest
    <3>2. /\ \A i \in DOMAIN results : results[i].found <= Best(results)
          /\ \E i \in DOMAIN results : Best(results) = results[i].found
      BY <2>2, <3>1, BestIsMost
    <3> QED BY <1>3, <1>5, <3>2
  <2> QED BY <2>1, <2>2
<1> HIDE DEF res
<1>8. \A i \in 1 .. n + 1 : results'[i].found \in Nat
  BY <1>3, <1>5, <1>6
<1>9. HasBest(results')
  <2>1. CASE \A i \in 1 .. n : results[i].found <= res.found
    <3>1. \A i \in 1 .. n + 1 : results'[i].found <= results'[n + 1].found
      BY <1>3, <1>6, <2>1
    <3> QED BY <1>3, <3>1 DEF HasBest
  <2>2. CASE ~(\A i \in 1 .. n : results[i].found <= res.found)
    <3>1. PICK k \in 1 .. n : ~(results[k].found <= res.found)
      BY <2>2
    <3>2. PICK b \in 1 .. n : \A i \in 1 .. n : results[i].found <= results[b].found
      <4>1. results # <<>>
        BY <1>3, <3>1
      <4> QED BY <1>3, <4>1 DEF Judged, HasBest
    <3>3. res.found <= results[b].found
      BY <1>5, <1>6, <3>1, <3>2
    <3>4. \A i \in 1 .. n + 1 : results'[i].found <= results'[b].found
      BY <1>3, <3>2, <3>3, SMTT(60)
    <3> QED BY <1>3, <3>4 DEF HasBest
  <2> QED BY <2>1, <2>2
<1>10. CASE pc' = "stopped" /\ todo' = todo
  <2>1. Accepted' = n
    BY <1>5, <1>10 DEF Accepted
  <2>2. NoWeakPassAccepted'
    BY <1>3, <1>5, <1>10 DEF Judged, NoWeakPassAccepted, Accepted
  <2>3. Accepted' \in 0 .. Len(results') /\ pc' \notin Running
    BY <1>3, <1>10, <2>1 DEF Running
  <2> QED BY <1>3, <1>8, <1>9, <2>2, <2>3 DEF Judged
<1>11. CASE Health!CheckPass(res, Best(results)) = "none" /\ pc' = "status" /\ todo' = Tail(todo)
  <2>1. Accepted' = n + 1
    BY <1>4, <1>5, <1>11 DEF Accepted
  <2>2. /\ res.ackOk /\ res.end = "EOT" /\ res.verified
        /\ 10 * res.found >= 9 * Best(results)
    BY <1>6, <1>7, <1>11, PassesCheck
  <2>3. ASSUME NEW i \in 1 .. n + 1, NEW j \in 1 .. n + 1
        PROVE  /\ i < j => 10 * results'[j].found >= 9 * results'[i].found
               /\ results'[j].end = "EOT" /\ results'[j].verified /\ results'[j].ackOk
    <3>1. CASE j = n + 1
      <4>1. results'[j] = res
        BY <1>3, <3>1
      <4>2. i < j => results'[i] = results[i] /\ results[i].found <= Best(results)
                     /\ results[i].found \in Nat
        BY <1>3, <1>5, <1>7, <3>1
      <4> QED BY <1>6, <1>7, <2>2, <4>1, <4>2, SMTT(60)
    <3>2. CASE j \in 1 .. n
      <4>1. i < j => i \in 1 .. n
        BY <1>3, <3>2
      <4>2. \A k \in 1 .. n : k < j => 10 * results[j].found >= 9 * results[k].found
        BY <1>5, <3>2 DEF Judged, NoWeakPassAccepted, Accepted
      <4>3. results[j].end = "EOT" /\ results[j].verified /\ results[j].ackOk
        BY <1>5, <3>2 DEF Judged, NoWeakPassAccepted, Accepted
      <4> QED BY <1>3, <3>2, <4>1, <4>2, <4>3
    <3> QED BY <1>3, <3>1, <3>2
  <2>4. NoWeakPassAccepted'
    BY <2>1, <2>3 DEF NoWeakPassAccepted, Accepted
  <2>5. Accepted' \in 0 .. Len(results') /\ Len(results') = Accepted'
    BY <1>3, <2>1
  <2> QED BY <1>3, <1>8, <1>9, <2>4, <2>5 DEF Judged
<1> QED BY <1>1, <1>10, <1>11

LEMMA JudgedStep == Typed /\ Judged /\ [Next]_vars => Judged'
<1> SUFFICES ASSUME Typed, Judged, [Next]_vars PROVE Judged'
  OBVIOUS
<1>1. CASE Settled
  BY <1>1, SettledJudged
<1>2. CASE ~Settled
  <2>1. todo' = todo /\ results' = results /\ (pc' \in Running => pc \in Running)
    BY <1>2, ResultsKept
  <2> QED BY <2>1 DEF Judged, Accepted, NoWeakPassAccepted
<1> QED BY <1>1, <1>2

LEMMA RestInit == Init => Resting /\ AtStart /\ Judged /\ Audible /\ NothingIntoCapture
<1> SUFFICES ASSUME Init PROVE Resting /\ AtStart /\ Judged /\ Audible /\ NothingIntoCapture
  OBVIOUS
<1>1. Resting /\ AtStart /\ Audible /\ NothingIntoCapture
  BY DEF Init, Resting, AtStart, Audible, NothingIntoCapture
<1>2. Len(results) = 0 /\ DOMAIN results = {} /\ Accepted = 0
  BY DumpAssumption DEF Init, Accepted
<1>3. NoWeakPassAccepted
  BY <1>2 DEF NoWeakPassAccepted, Accepted
<1> QED BY <1>1, <1>2, <1>3 DEF Init, Judged

-----------------------------------------------------------------------------
(* The health check of one pass.  Induction over the numbers up to m takes  *)
(* a set: the provers cannot instantiate a theorem that takes a predicate.  *)

LEMMA NatSetInduction ==
  ASSUME NEW N, N \subseteq Nat, 0 \in N, \A n \in N : n + 1 \in N
  PROVE  N = Nat
<1> SUFFICES ASSUME Nat \ N # {} PROVE FALSE
  OBVIOUS
<1> DEFINE R == OpToRel(<, Nat)
<1>1. IsWellFoundedOn(R, Nat)
  BY NatLessThanWellFounded
<1>2. Nat \ N \subseteq Nat
  OBVIOUS
<1>3. PICK least \in Nat \ N : \A y \in Nat \ N : ~(<<y, least>> \in R)
  <2> HIDE DEF R
  <2> QED BY <1>1, <1>2, WFMin
<1>4. least \in Nat /\ least \notin N /\ \A y \in Nat \ N : ~(y < least)
  BY <1>3 DEF OpToRel
<1> HIDE DEF R
<1>5. least # 0
  BY <1>4
<1>6. least - 1 \in Nat /\ least - 1 < least /\ (least - 1) + 1 = least
  BY <1>4, <1>5
<1>7. least - 1 \in N
  BY <1>4, <1>6
<1> QED BY <1>4, <1>6, <1>7

LEMMA UpToInduction ==
  ASSUME NEW m \in Nat, NEW N, 0 \in N, \A n \in 0 .. m - 1 : n \in N => n + 1 \in N
  PROVE  \A n \in 0 .. m : n \in N
<1> DEFINE M == {n \in Nat : n <= m => n \in N}
<1>1. 0 \in M
  OBVIOUS
<1>2. \A n \in M : n + 1 \in M
  <2> TAKE n \in M
  <2>1. n \in Nat /\ (n <= m => n \in N)
    OBVIOUS
  <2>2. ASSUME n + 1 <= m PROVE n + 1 \in N
    <3>1. n \in 0 .. m - 1 /\ n <= m
      BY <2>1, <2>2
    <3> QED BY <2>1, <3>1
  <2> QED BY <2>1, <2>2
<1>3. M = Nat
  <2> HIDE DEF M
  <2>1. M \subseteq Nat
    BY DEF M
  <2> QED BY <1>1, <1>2, <2>1, NatSetInduction
<1> QED BY <1>3


-----------------------------------------------------------------------------
(* The pulses that are segments. *)

KeptIn(f, ts) ==
  f = [n \in 0 .. Len(ts) |->
         IF n = 0 THEN <<>>
         ELSE IF ts[n] >= CueHoldoff THEN Append(f[n - 1], ts[n]) ELSE f[n - 1]]

KeptAt(f, ts, n) ==
  f[n] = IF n = 0 THEN <<>>
         ELSE IF ts[n] >= CueHoldoff THEN Append(f[n - 1], ts[n]) ELSE f[n - 1]

LEMMA KeptEverywhere ==
  ASSUME NEW ts \in Seq(Nat), NEW f, KeptIn(f, ts)
  PROVE  \A n \in 0 .. Len(ts) : KeptAt(f, ts, n)
<1> DEFINE e(n) == IF n = 0 THEN <<>>
                  ELSE IF ts[n] >= CueHoldoff THEN Append(f[n - 1], ts[n]) ELSE f[n - 1]
<1>1. f = [n \in 0 .. Len(ts) |-> e(n)]
  BY DEF KeptIn
<1>2. \A n \in 0 .. Len(ts) : f[n] = e(n)
  <2> HIDE DEF e
  <2> QED BY <1>1
<1> QED BY <1>2 DEF KeptAt

\* The recursion has one value.
LEMMA KeptOnce ==
  ASSUME NEW ts \in Seq(Nat), NEW f, NEW g, KeptIn(f, ts), KeptIn(g, ts)
  PROVE  f[Len(ts)] = g[Len(ts)]
<1> DEFINE m == Len(ts)
           N == {n \in 0 .. m : f[n] = g[n]}
<1>1. m \in Nat
  OBVIOUS
<1>2. \A n \in 0 .. m : KeptAt(f, ts, n) /\ KeptAt(g, ts, n)
  BY KeptEverywhere
<1>3. 0 \in N
  <2>1. 0 \in 0 .. m
    BY <1>1
  <2> QED BY <1>2, <2>1 DEF KeptAt
<1>4. \A n \in 0 .. m - 1 : n \in N => n + 1 \in N
  <2> TAKE n \in 0 .. m - 1
  <2>1. n + 1 \in 0 .. m /\ n + 1 # 0 /\ (n + 1) - 1 = n
    BY <1>1
  <2> QED BY <1>2, <2>1 DEF KeptAt
<1>5. \A n \in 0 .. m : n \in N
  <2> HIDE DEF N, m
  <2> QED BY <1>1, <1>3, <1>4, UpToInduction
<1> QED BY <1>1, <1>5

LEMMA PulsesAre ==
  ASSUME NEW ts \in Seq(Nat), NEW f, KeptIn(f, ts)
  PROVE  SegmentPulses(ts) = f[Len(ts)]
<1> DEFINE kept == CHOOSE g : KeptIn(g, ts)
<1>1. SegmentPulses(ts) = kept[Len(ts)]
  BY DEF SegmentPulses, KeptIn
<1>2. KeptIn(kept, ts)
  OBVIOUS
<1> HIDE DEF kept
<1> QED BY <1>1, <1>2, KeptOnce

\* One pulse more.
LEMMA KeptGrows ==
  ASSUME NEW ts \in Seq(Nat), NEW f, KeptIn(f, ts), NEW t \in Nat
  PROVE  \E g : /\ KeptIn(g, Append(ts, t))
                /\ g[Len(ts) + 1] = IF t >= CueHoldoff THEN Append(f[Len(ts)], t) ELSE f[Len(ts)]
<1> DEFINE m == Len(ts)
           us == Append(ts, t)
           last == IF t >= CueHoldoff THEN Append(f[m], t) ELSE f[m]
           g == [n \in 0 .. m + 1 |-> IF n = m + 1 THEN last ELSE f[n]]
           e(n) == IF n = 0 THEN <<>>
                   ELSE IF us[n] >= CueHoldoff THEN Append(g[n - 1], us[n]) ELSE g[n - 1]
<1>1. /\ m \in Nat /\ Len(us) = m + 1 /\ us[m + 1] = t
      /\ \A n \in 1 .. m : us[n] = ts[n]
  OBVIOUS
<1>2. \A n \in 0 .. m : KeptAt(f, ts, n)
  BY KeptEverywhere
<1>3. (\A n \in 0 .. m : g[n] = f[n]) /\ g[m + 1] = last
  BY <1>1
<1>4. \A n \in 0 .. m + 1 : g[n] = e(n)
  <2> HIDE DEF g, us, last
  <2> TAKE n \in 0 .. m + 1
  <2>1. CASE n = 0
    <3>1. 0 \in 0 .. m
      BY <1>1
    <3>2. f[0] = <<>>
      BY <1>2, <3>1 DEF KeptAt
    <3> QED BY <1>3, <2>1, <3>1, <3>2
  <2>2. CASE n = m + 1
    <3>1. n # 0 /\ n - 1 = m /\ m \in 0 .. m
      BY <1>1, <2>2
    <3> QED BY <1>1, <1>3, <2>2, <3>1 DEF last
  <2>3. CASE n \in 1 .. m
    <3>1. n \in 0 .. m /\ n - 1 \in 0 .. m /\ n # 0
      BY <1>1, <2>3
    <3>2. KeptAt(f, ts, n)
      BY <1>2, <3>1
    <3> QED BY <1>1, <1>3, <2>3, <3>1, <3>2 DEF KeptAt
  <2> QED BY <1>1, <2>1, <2>2, <2>3
<1>5. g = [n \in 0 .. Len(us) |-> e(n)]
  <2>1. g = [n \in 0 .. m + 1 |-> g[n]]
    OBVIOUS
  <2> HIDE DEF g, e, us
  <2> QED BY <1>1, <1>4, <2>1
<1>6. KeptIn(g, us)
  <2> HIDE DEF g, us
  <2> QED BY <1>5 DEF KeptIn
<1> HIDE DEF g
<1> QED BY <1>3, <1>6

LEMMA KeptEmpty ==
  \E f : KeptIn(f, <<>>) /\ f[Len(<<>>)] = <<>>
<1> DEFINE f == [n \in 0 .. 0 |-> <<>>]
<1>1. \A n \in 0 .. 0 : n = 0
  OBVIOUS
<1>2. Len(<<>>) = 0
  OBVIOUS
<1>3. f = [n \in 0 .. 0 |->
             IF n = 0 THEN <<>>
             ELSE IF <<>>[n] >= CueHoldoff THEN Append(f[n - 1], <<>>[n]) ELSE f[n - 1]]
  BY <1>1
<1>4. f[0] = <<>>
  OBVIOUS
<1> HIDE DEF f
<1> QED BY <1>2, <1>3, <1>4 DEF KeptIn

-----------------------------------------------------------------------------
(* The segments a gap hides.  Gap and median are whole periods up to the    *)
(* jitter of two pulses; the hypothesis of the theorem is that the error of *)
(* the longest gap, measured in medians, is less than half a median.        *)

Steady == 2 * Jitter * (2 * MaxHidden + 5) < Period

\* The quotient is the only one.
LEMMA OneQuotient ==
  ASSUME NEW b \in Nat \ {0}, NEW q \in Int, NEW k \in Int, NEW r \in 0 .. b - 1,
         NEW e \in 0 .. b - 1, b * q + r = b * k + e
  PROVE  q = k /\ r = e
<1>1. PICK bq \in Int : bq = b * q
  OBVIOUS
<1>2. PICK bk \in Int : bk = b * k
  OBVIOUS
<1>3. bq + r = bk + e
  BY <1>1, <1>2
<1>4. CASE q > k
  <2>1. q - k >= 1 /\ q - k \in Nat
    BY <1>4
  <2>2. b * (q - k) >= b
    BY <2>1
  <2>3. b * (q - k) = bq - bk
    BY <1>1, <1>2
  <2> QED BY <1>3, <2>2, <2>3
<1>5. CASE q < k
  <2>1. k - q >= 1 /\ k - q \in Nat
    BY <1>5
  <2>2. b * (k - q) >= b
    BY <2>1
  <2>3. b * (k - q) = bk - bq
    BY <1>1, <1>2
  <2> QED BY <1>3, <2>2, <2>3
<1>6. CASE q = k
  BY <1>1, <1>2, <1>3, <1>6
<1> QED BY <1>4, <1>5, <1>6

LEMMA RoundedIs ==
  ASSUME NEW a \in Nat, NEW b \in Nat \ {0}, NEW k \in Nat,
         2 * (a - k * b) < b, 0 - b < 2 * (a - k * b)
  PROVE  Rounded(a, b) = k
<1>1. PICK kb \in Nat : kb = k * b
  OBVIOUS
<1>2. PICK e \in Int : e = a - kb
  BY <1>1
<1>3. a = kb + e /\ 2 * e < b /\ 0 - b < 2 * e
  BY <1>1, <1>2
<1>4. PICK q \in Int : q = a \div b
  OBVIOUS
<1>5. PICK r \in Int : r = a % b
  OBVIOUS
<1>6. a = b * q + r /\ r \in 0 .. b - 1
  BY <1>4, <1>5
<1>7. CASE e >= 0
  <2>1. q = k /\ r = e
    <3>1. a = b * k + e /\ e \in 0 .. b - 1
      BY <1>1, <1>3, <1>7
    <3> QED BY <1>6, <3>1, OneQuotient
  <2>2. 2 * r < b
    BY <1>3, <2>1
  <2> QED BY <1>4, <1>5, <2>1, <2>2 DEF Rounded
<1>8. CASE e < 0
  <2>1. q = k - 1 /\ r = b + e
    <3>1. a = b * (k - 1) + (b + e) /\ b + e \in 0 .. b - 1
      BY <1>1, <1>3, <1>8
    <3>2. k - 1 \in Int
      OBVIOUS
    <3> QED BY <1>6, <3>1, <3>2, OneQuotient
  <2>2. 2 * r > b
    BY <1>3, <2>1
  <2> QED BY <1>4, <1>5, <2>1, <2>2 DEF Rounded
<1> QED BY <1>7, <1>8

\* A gap of k periods hides k - 1 segments.
LEMMA HiddenIs ==
  ASSUME Steady, NEW k \in 1 .. MaxHidden + 1, NEW g \in Nat, NEW m \in Nat,
         g - k * Period \in -(2 * Jitter) .. 2 * Jitter,
         m - Period \in -(2 * Jitter) .. 2 * Jitter
  PROVE  Hidden(g, m) = k - 1
<1>1. PICK d \in Int : d = g - k * Period
  BY PulseAssumption
<1>2. PICK e \in Int : e = m - Period
  BY PulseAssumption
<1>3. PICK jm \in Nat : jm = Jitter * MaxHidden
  BY PulseAssumption
<1>4. /\ Period \in Nat /\ Jitter \in Nat /\ MaxHidden \in Nat /\ k \in Nat
      /\ 4 * jm + 10 * Jitter < Period
      /\ d \in -(2 * Jitter) .. 2 * Jitter /\ e \in -(2 * Jitter) .. 2 * Jitter
      /\ m = Period + e
  BY <1>1, <1>2, <1>3, PulseAssumption DEF Steady
<1>5. CASE k = 1
  <2>1. g = Period + d
    BY <1>1, <1>4, <1>5
  <2>2. ~(2 * g > 3 * m)
    BY <1>4, <2>1
  <2> QED BY <1>5, <2>2 DEF Hidden
<1>6. CASE k >= 2
  <2>1. PICK kp \in Nat : kp = k * Period
    BY <1>4
  <2>2. kp >= 2 * Period
    BY <1>4, <1>6, <2>1
  <2>3. 2 * g > 3 * m
    BY <1>1, <1>4, <2>1, <2>2
  <2>4. PICK ke \in Int : ke = k * e
    BY <1>4
  <2>5. ke <= 2 * jm + 2 * Jitter /\ -(2 * jm + 2 * Jitter) <= ke
    <3>1. PICK j2 \in Nat : j2 = 2 * Jitter
      BY <1>4
    <3>2. e <= j2 /\ -j2 <= e
      BY <1>4, <3>1
    <3>3. k * e <= k * j2 /\ -(k * j2) <= k * e
      BY <1>4, <3>1, <3>2
    <3>4. k * j2 <= (MaxHidden + 1) * j2
      BY <1>4, <3>1
    <3>5. (MaxHidden + 1) * j2 = 2 * jm + 2 * Jitter
      BY <1>3, <1>4, <3>1
    <3>6. PICK kj \in Nat : kj = k * j2
      BY <1>4, <3>1
    <3> QED BY <1>4, <2>4, <3>3, <3>4, <3>5, <3>6
  <2>6. k * m = kp + ke
    BY <1>4, <2>1, <2>4
  <2>7. g - k * m = d - ke
    BY <1>1, <1>4, <2>1, <2>6
  <2>8. 2 * (g - k * m) < m /\ 0 - m < 2 * (g - k * m)
    BY <1>4, <2>5, <2>7
  <2>9. m \in Nat \ {0}
    BY <1>4
  <2>10. Rounded(g, m) = k
    BY <1>4, <2>8, <2>9, RoundedIs
  <2> QED BY <2>3, <2>10 DEF Hidden
<1> QED BY <1>4, <1>5, <1>6

-----------------------------------------------------------------------------
(* The median, and the sum over the gaps. *)

Below(gaps, v) == {i \in DOMAIN gaps : gaps[i] < v}
UpTo(gaps, v) == {i \in DOMAIN gaps : gaps[i] <= v}

LEMMA HalvesCount ==
  ASSUME NEW gaps \in Seq(Nat), NEW v
  PROVE  /\ IsFiniteSet(Below(gaps, v)) /\ Cardinality(Below(gaps, v)) \in Nat
         /\ IsFiniteSet(UpTo(gaps, v)) /\ Cardinality(UpTo(gaps, v)) \in Nat
<1>1. IsFiniteSet(DOMAIN gaps)
  BY FS_Interval, LenProperties
<1>2. Below(gaps, v) \in SUBSET DOMAIN gaps /\ UpTo(gaps, v) \in SUBSET DOMAIN gaps
  BY DEF Below, UpTo
<1> QED BY <1>1, <1>2, FS_Subset, FS_CardinalityType

\* There is an upper median wherever most gaps are at most some number.
LEMMA MedianExists ==
  ASSUME NEW gaps \in Seq(Nat), NEW hi \in Nat,
         Cardinality(UpTo(gaps, hi)) > Len(gaps) \div 2
  PROVE  \E v \in {gaps[i] : i \in DOMAIN gaps} :
           /\ Cardinality(Below(gaps, v)) <= Len(gaps) \div 2
           /\ Cardinality(UpTo(gaps, v)) > Len(gaps) \div 2
<1> DEFINE half == Len(gaps) \div 2
           A == {v \in Nat : Cardinality(UpTo(gaps, v)) > half}
           R == OpToRel(<, Nat)
<1>1. half \in Nat /\ \A i \in DOMAIN gaps : gaps[i] \in Nat
  <2>1. Len(gaps) \in Nat
    BY LenProperties
  <2> QED BY <2>1
<1>2. IsWellFoundedOn(R, Nat)
  BY NatLessThanWellFounded
<1>3. A \subseteq Nat /\ A # {}
  OBVIOUS
<1>4. PICK v \in A : \A y \in A : ~(<<y, v>> \in R)
  <2> HIDE DEF R, A
  <2> QED BY <1>2, <1>3, WFMin
<1>5. v \in Nat /\ Cardinality(UpTo(gaps, v)) > half /\ \A y \in A : ~(y < v)
  BY <1>3, <1>4 DEF OpToRel
<1> HIDE DEF R, half
<1>6. Cardinality(Below(gaps, v)) <= half
  <2>1. CASE v = 0
    <3>1. Below(gaps, v) = {}
      BY <1>1, <2>1 DEF Below
    <3> QED BY <1>1, <3>1, FS_EmptySet
  <2>2. CASE v # 0
    <3>1. PICK u \in Nat : u = v - 1
      BY <1>5, <2>2
    <3>2. u \notin A
      BY <1>5, <3>1
    <3>3. ~(Cardinality(UpTo(gaps, u)) > half)
      BY <3>2
    <3>4. Below(gaps, v) = UpTo(gaps, u)
      BY <1>1, <1>5, <3>1 DEF Below, UpTo
    <3> QED BY <1>1, <3>3, <3>4, HalvesCount
  <2> QED BY <2>1, <2>2
<1>7. v \in {gaps[i] : i \in DOMAIN gaps}
  <2> SUFFICES ASSUME v \notin {gaps[i] : i \in DOMAIN gaps} PROVE FALSE
    OBVIOUS
  <2>1. Below(gaps, v) = UpTo(gaps, v)
    BY <1>1, <1>5 DEF Below, UpTo
  <2> QED BY <1>1, <1>5, <1>6, <2>1, HalvesCount
<1> QED BY <1>5, <1>6, <1>7 DEF half

\* The median lies where most gaps lie.
LEMMA MedianIs ==
  ASSUME NEW gaps \in Seq(Nat), NEW W \in SUBSET DOMAIN gaps, NEW lo \in Int, NEW hi \in Nat,
         2 * Cardinality(W) > Len(gaps),
         \A i \in DOMAIN gaps : lo <= gaps[i],
         \A i \in W : gaps[i] <= hi
  PROVE  Median(gaps) \in Nat /\ lo <= Median(gaps) /\ Median(gaps) <= hi
<1> DEFINE half == Len(gaps) \div 2
           Middle(v) == Cardinality(Below(gaps, v)) <= half /\ Cardinality(UpTo(gaps, v)) > half
           values == {gaps[i] : i \in DOMAIN gaps}
<1>1. /\ \A i \in DOMAIN gaps : gaps[i] \in Nat
      /\ IsFiniteSet(DOMAIN gaps) /\ Len(gaps) \in Nat
  <2>1. Len(gaps) \in Nat /\ DOMAIN gaps = 1 .. Len(gaps)
    BY LenProperties
  <2>2. IsFiniteSet(DOMAIN gaps)
    BY <2>1, FS_Interval
  <2> QED BY <2>1, <2>2, ElementOfSeq
<1>2. IsFiniteSet(W) /\ Cardinality(W) \in Nat
  BY <1>1, FS_Subset, FS_CardinalityType
<1>3. half \in Nat /\ Cardinality(W) > half
  BY <1>1, <1>2
<1>4. Cardinality(UpTo(gaps, hi)) > half
  <2>1. W \in SUBSET UpTo(gaps, hi)
    BY DEF UpTo
  <2>2. Cardinality(W) <= Cardinality(UpTo(gaps, hi))
    BY <2>1, HalvesCount, FS_Subset
  <2> QED BY <1>2, <1>3, <2>2, HalvesCount
<1>5. \E v \in values : Middle(v)
  BY <1>4, MedianExists
<1>6. Median(gaps) = CHOOSE v \in values : Middle(v)
  BY DEF Median, Below, UpTo
<1>7. Median(gaps) \in values /\ Middle(Median(gaps))
  <2> HIDE DEF Middle, values
  <2> QED BY <1>5, <1>6
<1>8. PICK v : v = Median(gaps)
  OBVIOUS
<1>9. v \in Nat /\ lo <= v
  BY <1>1, <1>7, <1>8
<1>10. v <= hi
  <2> SUFFICES ASSUME v > hi PROVE FALSE
    BY <1>9
  <2>1. \A i \in W : gaps[i] < v
    BY <1>1, <1>9
  <2>2. W \in SUBSET Below(gaps, v)
    BY <2>1 DEF Below
  <2>3. Cardinality(W) <= Cardinality(Below(gaps, v))
    BY <2>2, HalvesCount, FS_Subset
  <2>4. Cardinality(Below(gaps, v)) <= half
    BY <1>7, <1>8
  <2> HIDE DEF half
  <2> QED BY <1>2, <1>3, <2>3, <2>4, HalvesCount
<1> QED BY <1>8, <1>9, <1>10

SumIn(f, gaps, m) ==
  f = [n \in 0 .. Len(gaps) |-> IF n = 0 THEN 0 ELSE f[n - 1] + Hidden(gaps[n], m)]

\* A function that adds up as the sum does is the sum.
LEMMA SumIs ==
  ASSUME NEW gaps \in Seq(Nat), NEW m, NEW h, h = [n \in 0 .. Len(gaps) |-> h[n]], h[0] = 0,
         \A n \in 1 .. Len(gaps) : h[n] = h[n - 1] + Hidden(gaps[n], m),
         NEW f, SumIn(f, gaps, m)
  PROVE  f[Len(gaps)] = h[Len(gaps)]
<1> DEFINE len == Len(gaps)
           N == {n \in 0 .. len : f[n] = h[n]}
           e(n) == IF n = 0 THEN 0 ELSE f[n - 1] + Hidden(gaps[n], m)
<1>1. len \in Nat
  OBVIOUS
<1>2. \A n \in 0 .. len : f[n] = e(n)
  <2>1. f = [n \in 0 .. len |-> e(n)]
    BY DEF SumIn
  <2> HIDE DEF e, len
  <2> QED BY <2>1
<1>3. 0 \in N
  <2>1. 0 \in 0 .. len
    BY <1>1
  <2> QED BY <1>2, <2>1
<1>4. \A n \in 0 .. len - 1 : n \in N => n + 1 \in N
  <2> TAKE n \in 0 .. len - 1
  <2>1. n + 1 \in 0 .. len /\ n + 1 \in 1 .. len /\ n + 1 # 0 /\ (n + 1) - 1 = n
    BY <1>1
  <2>2. f[n + 1] = f[n] + Hidden(gaps[n + 1], m)
    BY <1>2, <2>1
  <2>3. h[n + 1] = h[n] + Hidden(gaps[n + 1], m)
    BY <2>1
  <2> QED BY <2>1, <2>2, <2>3
<1>5. \A n \in 0 .. len : n \in N
  <2> HIDE DEF N, len
  <2> QED BY <1>1, <1>3, <1>4, UpToInduction
<1> QED BY <1>1, <1>5

LEMMA SumFound ==
  ASSUME NEW gaps \in Seq(Nat), NEW m, NEW h, h = [n \in 0 .. Len(gaps) |-> h[n]], h[0] = 0,
         \A n \in 1 .. Len(gaps) : h[n] = h[n - 1] + Hidden(gaps[n], m)
  PROVE  (CHOOSE f : SumIn(f, gaps, m))[Len(gaps)] = h[Len(gaps)]
<1> DEFINE f == CHOOSE g : SumIn(g, gaps, m)
           e(n) == IF n = 0 THEN 0 ELSE h[n - 1] + Hidden(gaps[n], m)
<1>1. \A n \in 0 .. Len(gaps) : h[n] = e(n)
  <2>1. \A n \in 0 .. Len(gaps) : n = 0 \/ (n \in 1 .. Len(gaps) /\ n # 0)
    OBVIOUS
  <2> QED BY <2>1
<1>2. h = [n \in 0 .. Len(gaps) |-> e(n)]
  <2> HIDE DEF e
  <2> QED BY <1>1
<1>3. SumIn(h, gaps, m)
  BY <1>2 DEF SumIn
<1>4. SumIn(f, gaps, m)
  BY <1>3
<1> HIDE DEF f
<1>5. f[Len(gaps)] = h[Len(gaps)]
  BY <1>4, SumIs
<1> QED BY <1>5 DEF f

-----------------------------------------------------------------------------
(* A pass: the segments found, in order, and their pulses. *)

\* q lists the segments of found, and ts their pulses.
Tells(q, ts, found) ==
  /\ q \in Seq(Nat) /\ ts \in Seq(Nat) /\ Len(ts) = Len(q)
  /\ \A i \in 1 .. Len(q) : /\ q[i] \in found
                            /\ ts[i] - (Leader + Period * q[i]) \in -Jitter .. Jitter
  /\ \A i, j \in 1 .. Len(q) : i < j => q[i] < q[j]
  /\ \A s \in found : \E i \in 1 .. Len(q) : q[i] = s

\* What the code makes of the pulses is such a list, and no longer run is missed.
PassKnown ==
  /\ LineTypeOK
  /\ \A a \in Nat : ~(a .. a + MaxHidden \subseteq missed)
  /\ \E f, q : /\ KeptIn(f, ticks)
               /\ Tells(q, f[Len(ticks)], FoundOnes)

LEMMA TellsNothing == Tells(<<>>, <<>>, {})
BY DEF Tells

LEMMA TellsMore ==
  ASSUME NEW q, NEW ts, NEW found \in SUBSET Nat, NEW s \in Nat, NEW t \in Nat,
         Tells(q, ts, found), \A r \in found : r < s,
         t - (Leader + Period * s) \in -Jitter .. Jitter
  PROVE  Tells(Append(q, s), Append(ts, t), found \cup {s})
<1> DEFINE n == Len(q)
           p == Append(q, s)
           us == Append(ts, t)
<1>1. q \in Seq(Nat) /\ ts \in Seq(Nat) /\ Len(ts) = n /\ n \in Nat
  BY DEF Tells
<1>2. /\ p \in Seq(Nat) /\ us \in Seq(Nat) /\ Len(p) = n + 1 /\ Len(us) = n + 1
      /\ p[n + 1] = s /\ us[n + 1] = t
      /\ \A i \in 1 .. n : p[i] = q[i] /\ us[i] = ts[i]
  BY <1>1
<1>3. \A i \in 1 .. n + 1 : i \in 1 .. n \/ i = n + 1
  BY <1>1
<1> HIDE DEF p, us
<1>4. \A i \in 1 .. n + 1 : /\ p[i] \in found \cup {s}
                            /\ us[i] - (Leader + Period * p[i]) \in -Jitter .. Jitter
  BY <1>2, <1>3, Zenon DEF Tells
<1>5. \A i, j \in 1 .. n + 1 : i < j => p[i] < p[j]
  <2> TAKE i, j \in 1 .. n + 1
  <2> SUFFICES ASSUME i < j PROVE p[i] < p[j]
    OBVIOUS
  <2>1. i \in 1 .. n
    BY <1>1
  <2>2. CASE j = n + 1
    <3>1. q[i] \in found
      BY <2>1 DEF Tells
    <3> QED BY <1>2, <2>1, <2>2, <3>1
  <2>3. CASE j \in 1 .. n
    BY <1>2, <2>1, <2>3 DEF Tells
  <2> QED BY <1>3, <2>2, <2>3
<1>6. \A r \in found \cup {s} : \E i \in 1 .. n + 1 : p[i] = r
  <2> TAKE r \in found \cup {s}
  <2>1. CASE r = s
    <3>1. n + 1 \in 1 .. n + 1
      BY <1>1
    <3> QED BY <1>2, <2>1, <3>1
  <2>2. CASE r \in found
    <3>1. PICK i \in 1 .. n : q[i] = r
      BY <2>2 DEF Tells
    <3>2. i \in 1 .. n + 1
      BY <1>1, <3>1
    <3> QED BY <1>2, <3>1, <3>2
  <2> QED BY <2>1, <2>2
<1>7. Tells(p, us, found \cup {s})
  BY <1>2, <1>4, <1>5, <1>6 DEF Tells
<1> QED BY <1>7 DEF p, us

LEMMA PassKnownInit == LineInit => PassKnown
<1> SUFFICES ASSUME LineInit PROVE PassKnown
  OBVIOUS
<1>1. passed = 0 /\ missed = {} /\ ticks = <<>>
  BY DEF LineInit
<1>2. FoundOnes = {}
  BY <1>1 DEF FoundOnes
<1>3. LineTypeOK
  BY <1>1, PulseAssumption DEF LineTypeOK
<1>4. \A a \in Nat : a \in a .. a + MaxHidden
  BY PulseAssumption
<1>5. \E f, q : KeptIn(f, ticks) /\ Tells(q, f[Len(ticks)], FoundOnes)
  <2>1. PICK f : KeptIn(f, <<>>) /\ f[Len(<<>>)] = <<>>
    BY KeptEmpty
  <2>2. Tells(<<>>, f[Len(ticks)], FoundOnes)
    BY <1>1, <1>2, <2>1, TellsNothing
  <2> QED BY <1>1, <2>1, <2>2
<1> QED BY <1>1, <1>3, <1>4, <1>5 DEF PassKnown

LEMMA PassKnownStep == PassKnown /\ [LineNext]_lineVars => PassKnown'
<1> SUFFICES ASSUME PassKnown, [LineNext]_lineVars PROVE PassKnown'
  OBVIOUS
<1>1. /\ passed \in 0 .. TrackSegments /\ missed \subseteq 1 .. passed /\ ticks \in Seq(Nat)
      /\ TrackSegments \in Nat /\ MaxHidden \in Nat /\ CueHoldoff \in Nat
  BY PulseAssumption DEF PassKnown, LineTypeOK
<1>2. PICK f, q : KeptIn(f, ticks) /\ Tells(q, f[Len(ticks)], FoundOnes)
  BY DEF PassKnown
<1>3. FoundOnes \subseteq 1 .. passed /\ FoundOnes \in SUBSET Nat
  BY <1>1 DEF FoundOnes
<1>4. CASE Cue
  <2>1. PICK t \in 0 .. CueHoldoff - 1 : ticks' = <<t>>
    BY <1>4 DEF Cue
  <2>2. passed = 0 /\ ticks = <<>> /\ passed' = passed /\ missed' = missed
    BY <1>4 DEF Cue
  <2>3. t \in Nat /\ ~(t >= CueHoldoff) /\ ticks' = Append(ticks, t) /\ ticks' \in Seq(Nat)
    BY <1>1, <2>1, <2>2
  <2>4. PICK g : /\ KeptIn(g, Append(ticks, t))
                 /\ g[Len(ticks) + 1] = f[Len(ticks)]
    BY <1>1, <1>2, <2>3, KeptGrows
  <2>5. Len(ticks') = Len(ticks) + 1
    BY <1>1, <2>3
  <2>6. FoundOnes' = FoundOnes
    BY <2>2 DEF FoundOnes
  <2>7. KeptIn(g, ticks') /\ Tells(q, g[Len(ticks')], FoundOnes')
    BY <1>2, <2>3, <2>4, <2>5, <2>6
  <2> QED BY <2>2, <2>3, <2>7 DEF PassKnown, LineTypeOK
<1>5. CASE Found
  <2>1. PICK j \in Jitters : ticks' = Append(ticks, Leader + Period * (passed + 1) + j)
    BY <1>5 DEF Found
  <2>2. passed < TrackSegments /\ passed' = passed + 1 /\ missed' = missed
    BY <1>5 DEF Found
  <2>3. PICK t : t = Leader + Period * (passed + 1) + j
    OBVIOUS
  <2>4. /\ t \in Nat /\ t >= CueHoldoff
        /\ t - (Leader + Period * (passed + 1)) \in -Jitter .. Jitter
    <3>1. j \in -Jitter .. Jitter /\ Period \in Nat /\ Leader \in Nat /\ Jitter \in Nat
          /\ CueHoldoff + Jitter <= Leader + Period
      BY PulseAssumption
    <3>2. PICK pp \in Nat : pp = Period * passed
      BY <1>1, <3>1
    <3>3. Period * (passed + 1) = pp + Period
      BY <1>1, <3>1, <3>2
    <3> QED BY <1>1, <2>3, <3>1, <3>2, <3>3
  <2>5. PICK g : /\ KeptIn(g, Append(ticks, t))
                 /\ g[Len(ticks) + 1] = Append(f[Len(ticks)], t)
    BY <1>1, <1>2, <2>4, KeptGrows
  <2>6. ticks' = Append(ticks, t) /\ ticks' \in Seq(Nat) /\ Len(ticks') = Len(ticks) + 1
    BY <1>1, <2>1, <2>3, <2>4
  <2>7. FoundOnes' = FoundOnes \cup {passed + 1}
    BY <1>1, <2>2 DEF FoundOnes
  <2>8. \A r \in FoundOnes : r < passed + 1
    BY <1>1, <1>3
  <2>9. passed + 1 \in Nat
    BY <1>1
  <2>10. Tells(Append(q, passed + 1), Append(f[Len(ticks)], t), FoundOnes \cup {passed + 1})
    BY <1>2, <1>3, <2>4, <2>8, <2>9, TellsMore
  <2>11. KeptIn(g, ticks') /\ Tells(Append(q, passed + 1), g[Len(ticks')], FoundOnes')
    BY <2>5, <2>6, <2>7, <2>10
  <2>12. LineTypeOK'
    BY <1>1, <2>2, <2>6 DEF LineTypeOK
  <2>13. \A a \in Nat : ~(a .. a + MaxHidden \subseteq missed')
    BY <2>2 DEF PassKnown
  <2> QED BY <2>11, <2>12, <2>13 DEF PassKnown
<1>6. CASE Missed
  <2>1. /\ passed < TrackSegments /\ passed' = passed + 1
        /\ missed' = missed \cup {passed + 1} /\ ticks' = ticks
        /\ ~(passed - MaxHidden + 1 .. passed \subseteq missed)
    BY <1>6 DEF Missed
  <2>2. FoundOnes' = FoundOnes
    BY <1>1, <2>1 DEF FoundOnes
  <2>3. LineTypeOK'
    BY <1>1, <2>1 DEF LineTypeOK
  <2>4. ASSUME NEW a \in Nat, a .. a + MaxHidden \subseteq missed'
        PROVE  FALSE
    <3>1. PICK x \in passed - MaxHidden + 1 .. passed : x \notin missed
      BY <2>1
    <3>2. PICK y \in a .. a + MaxHidden : y \notin missed
      BY DEF PassKnown
    <3>3. y = passed + 1
      BY <2>1, <2>4, <3>2
    <3>4. a + MaxHidden \in missed'
      BY <1>1, <2>4
    <3>5. a + MaxHidden <= passed + 1
      BY <1>1, <2>1, <3>4
    <3>6. x \in a .. a + MaxHidden
      BY <1>1, <3>1, <3>2, <3>3, <3>5
    <3>7. x \in missed' /\ x # passed + 1
      BY <1>1, <2>4, <3>1, <3>6
    <3> QED BY <2>1, <3>1, <3>7
  <2> QED BY <1>2, <2>1, <2>2, <2>3, <2>4 DEF PassKnown
<1>7. CASE UNCHANGED lineVars
  BY <1>7 DEF lineVars, PassKnown, LineTypeOK, FoundOnes
<1> QED BY <1>4, <1>5, <1>6, <1>7 DEF LineNext

-----------------------------------------------------------------------------
(* The count over such a list. *)

LEMMA TellsOrder ==
  ASSUME NEW q, NEW ts, NEW found, Tells(q, ts, found)
  PROVE  \A i \in 1 .. Len(q) : \A j \in 1 .. Len(q) :
           (i < j <=> q[i] < q[j]) /\ (i = j <=> q[i] = q[j])
<1>1. Len(q) \in Nat /\ \A i \in 1 .. Len(q) : q[i] \in Nat
  BY ElementOfSeq, LenProperties DEF Tells
<1> SUFFICES ASSUME NEW i \in 1 .. Len(q), NEW j \in 1 .. Len(q)
             PROVE  (i < j <=> q[i] < q[j]) /\ (i = j <=> q[i] = q[j])
  OBVIOUS
<1>2. (i < j => q[i] < q[j]) /\ (j < i => q[j] < q[i])
  BY DEF Tells
<1> QED BY <1>1, <1>2

\* There is nothing found between two neighbours of the list.
LEMMA NoneBetween ==
  ASSUME NEW q, NEW ts, NEW found \in SUBSET Nat, Tells(q, ts, found), NEW i \in 1 .. Len(q) - 1,
         NEW s \in found
  PROVE  ~(q[i] < s /\ s < q[i + 1])
<1>1. Len(q) \in Nat
  BY LenProperties DEF Tells
<1>2. i \in 1 .. Len(q) /\ i + 1 \in 1 .. Len(q)
  BY <1>1
<1>3. PICK k \in 1 .. Len(q) : q[k] = s
  BY DEF Tells
<1>4. (i < k <=> q[i] < q[k]) /\ (k < i + 1 <=> q[k] < q[i + 1])
  BY <1>2, <1>3, TellsOrder
<1> QED BY <1>2, <1>3, <1>4

\* So a gap is at most MaxHidden + 1 periods, up to the jitter of two pulses.
LEMMA GapIs ==
  ASSUME PassKnown, NEW q, NEW ts, Tells(q, ts, FoundOnes), NEW i \in 1 .. Len(q) - 1
  PROVE  /\ q[i + 1] - q[i] \in 1 .. MaxHidden + 1
         /\ ts[i + 1] - ts[i] - (q[i + 1] - q[i]) * Period \in -(2 * Jitter) .. 2 * Jitter
<1>1. /\ passed \in Nat /\ missed \subseteq 1 .. passed
      /\ MaxHidden \in Nat /\ Jitter \in Nat /\ Period \in Nat /\ Leader \in Nat
  BY PulseAssumption DEF PassKnown, LineTypeOK
<1>2. Len(q) \in Nat /\ FoundOnes \in SUBSET Nat
  BY <1>1, LenProperties DEF Tells, FoundOnes
<1>3. i \in 1 .. Len(q) /\ i + 1 \in 1 .. Len(q) /\ i < i + 1
  BY <1>2
<1>4. PICK a \in FoundOnes : a = q[i]
  BY <1>3 DEF Tells
<1>5. PICK b \in FoundOnes : b = q[i + 1]
  BY <1>3 DEF Tells
<1>6. a \in 1 .. passed /\ b \in 1 .. passed /\ a < b
  BY <1>3, <1>4, <1>5 DEF Tells, FoundOnes
<1>7. b - a <= MaxHidden + 1
  <2> SUFFICES ASSUME b - a > MaxHidden + 1 PROVE FALSE
    BY <1>1, <1>6
  <2>1. a + 1 \in Nat
    BY <1>1, <1>6
  <2>2. PICK x \in a + 1 .. (a + 1) + MaxHidden : x \notin missed
    BY <2>1 DEF PassKnown
  <2>3. x \in 1 .. passed /\ a < x /\ x < b
    BY <1>1, <1>6, <2>2
  <2>4. x \in FoundOnes
    BY <2>2, <2>3 DEF FoundOnes
  <2>5. ~(q[i] < x /\ x < q[i + 1])
    BY <1>2, <2>4, NoneBetween
  <2> QED BY <1>4, <1>5, <2>3, <2>5
<1>8. ts[i + 1] - ts[i] - (b - a) * Period \in -(2 * Jitter) .. 2 * Jitter
  <2>0. ts[i] \in Nat /\ ts[i + 1] \in Nat
    <3>1. ts \in Seq(Nat) /\ i \in 1 .. Len(ts) /\ i + 1 \in 1 .. Len(ts)
      BY <1>3 DEF Tells
    <3> QED BY <3>1, ElementOfSeq
  <2>1. PICK t \in Int : t = ts[i]
    BY <2>0
  <2>2. PICK u \in Int : u = ts[i + 1]
    BY <2>0
  <2>3. /\ t - (Leader + Period * a) \in -Jitter .. Jitter
        /\ u - (Leader + Period * b) \in -Jitter .. Jitter
    BY <1>3, <1>4, <1>5, <2>1, <2>2 DEF Tells
  <2>4. PICK pa \in Int : pa = Period * a
    BY <1>1, <1>6
  <2>5. PICK pb \in Int : pb = Period * b
    BY <1>1, <1>6
  <2>6. (b - a) * Period = pb - pa
    BY <1>1, <1>6, <2>4, <2>5
  <2>7. t - (Leader + pa) \in -Jitter .. Jitter /\ u - (Leader + pb) \in -Jitter .. Jitter
    BY <2>3, <2>4, <2>5
  <2>8. u - t - (pb - pa) \in -(2 * Jitter) .. 2 * Jitter
    <3> QED BY ONLY <1>1, <2>7, t \in Int, u \in Int, pa \in Int, pb \in Int
  <2> QED BY <2>1, <2>2, <2>6, <2>8
<1>9. b - a \in 1 .. MaxHidden + 1
  BY <1>1, <1>6, <1>7
<1> QED BY <1>4, <1>5, <1>8, <1>9

\* The list counts the segments found.
LEMMA FoundCount ==
  ASSUME NEW q, NEW ts, NEW found, Tells(q, ts, found)
  PROVE  IsFiniteSet(found) /\ Cardinality(found) = Len(q)
<1>1. Len(q) \in Nat /\ q \in [1 .. Len(q) -> Nat]
  BY LenProperties DEF Tells
<1>2. q \in [1 .. Len(q) -> found]
  BY <1>1 DEF Tells
<1>3. \A i, j \in 1 .. Len(q) : q[i] = q[j] => i = j
  BY TellsOrder
<1>4. \A s \in found : \E i \in 1 .. Len(q) : q[i] = s
  BY DEF Tells
<1>5. q \in Bijection(1 .. Len(q), found)
  BY <1>2, <1>3, <1>4 DEF Bijection, Injection, Surjection, IsInjective
<1>6. ExistsBijection(1 .. Len(q), found)
  BY <1>5 DEF ExistsBijection
<1> QED BY <1>1, <1>6, FS_CountingElements, FS_NatBijection

\* Counting places in the list counts segments.
LEMMA PlacesCount ==
  ASSUME NEW q, NEW ts, NEW found, Tells(q, ts, found), NEW I \in SUBSET (1 .. Len(q))
  PROVE  /\ IsFiniteSet(I) /\ Cardinality(I) \in Nat
         /\ Cardinality({q[i] : i \in I}) = Cardinality(I)
<1> DEFINE S == {q[i] : i \in I}
           h == [i \in I |-> q[i]]
<1>1. Len(q) \in Nat /\ IsFiniteSet(1 .. Len(q))
  BY LenProperties, FS_Interval DEF Tells
<1>2. IsFiniteSet(I)
  BY <1>1, FS_Subset
<1>3. \A i, j \in I : h[i] = h[j] => i = j
  BY TellsOrder
<1>4. h \in [I -> S] /\ \A s \in S : \E i \in I : h[i] = s
  OBVIOUS
<1> HIDE DEF h
<1>5. h \in Bijection(I, S)
  BY <1>3, <1>4 DEF Bijection, Injection, Surjection, IsInjective
<1>6. ExistsBijection(I, S)
  BY <1>5 DEF ExistsBijection
<1> QED BY <1>2, <1>6, FS_Bijection, FS_CardinalityType

\* What the health check counts is what lies between the first and the last place.
LEMMA InteriorCount ==
  ASSUME PassKnown, NEW q, NEW ts, Tells(q, ts, FoundOnes), q # <<>>
  PROVE  Cardinality(Interior) = q[Len(q)] - q[1] - (Len(q) - 1)
<1>1. passed \in Nat /\ missed \subseteq 1 .. passed
  BY DEF PassKnown, LineTypeOK
<1>2. PICK len \in Nat \ {0} : len = Len(q)
  <2>1. q \in Seq(Nat)
    BY DEF Tells
  <2> QED BY <2>1
<1>3. 1 \in 1 .. len /\ len \in 1 .. len
  BY <1>2
<1>4. PICK a \in FoundOnes : a = q[1]
  BY <1>2, <1>3 DEF Tells
<1>5. PICK b \in FoundOnes : b = q[len]
  BY <1>2, <1>3 DEF Tells
<1>6. a \in 1 .. passed /\ b \in 1 .. passed
  BY <1>4, <1>5 DEF FoundOnes
<1>7. \A s \in FoundOnes : a <= s /\ s <= b
  <2> TAKE s \in FoundOnes
  <2>1. PICK i \in 1 .. len : q[i] = s
    BY <1>2 DEF Tells
  <2>2. s \in 1 .. passed
    BY DEF FoundOnes
  <2>3. i = 1 \/ 1 < i
    BY <1>2, <2>1
  <2>4. i = len \/ i < len
    BY <1>2, <2>1
  <2>5. a = s \/ a < s
    BY <1>2, <1>3, <1>4, <2>1, <2>3, TellsOrder
  <2>6. b = s \/ s < b
    BY <1>2, <1>3, <1>5, <2>1, <2>4, TellsOrder
  <2> QED BY <1>6, <2>2, <2>5, <2>6
<1>8. a <= b
  BY <1>5, <1>7
<1>9. Interior = (a .. b) \ FoundOnes
  <2>1. ASSUME NEW s \in Interior PROVE s \in (a .. b) \ FoundOnes
    <3>1. s \in missed /\ \E x, y \in FoundOnes : x < s /\ s < y
      BY DEF Interior
    <3>2. PICK x \in FoundOnes, y \in FoundOnes : x < s /\ s < y
      BY <3>1
    <3>3. x \in 1 .. passed /\ y \in 1 .. passed /\ s \in 1 .. passed
      BY <1>1, <3>1 DEF FoundOnes
    <3>4. a <= x /\ y <= b
      BY <1>7
    <3>5. s \in a .. b
      BY <1>1, <1>6, <3>2, <3>3, <3>4
    <3> QED BY <3>1, <3>5 DEF FoundOnes
  <2>2. ASSUME NEW s \in (a .. b) \ FoundOnes PROVE s \in Interior
    <3>1. s \in 1 .. passed
      BY <1>1, <1>6
    <3>2. s \in missed
      BY <3>1 DEF FoundOnes
    <3>3. a < s /\ s < b
      BY <1>4, <1>5, <1>6, <3>1
    <3> QED BY <3>2, <3>3 DEF Interior
  <2> QED BY <2>1, <2>2
<1>10. IsFiniteSet(a .. b) /\ Cardinality(a .. b) = b - a + 1
  <2>1. a \in Int /\ b \in Int /\ ~(a > b)
    BY <1>6, <1>8
  <2> QED BY <2>1, FS_Interval
<1>11. (a .. b) \cap FoundOnes = FoundOnes
  BY <1>6, <1>7 DEF FoundOnes
<1>12. Cardinality(FoundOnes) = len
  BY <1>2, FoundCount
<1>13. Cardinality(Interior) = (b - a + 1) - len
  <2>1. PICK S : S = a .. b
    OBVIOUS
  <2>2. Cardinality(S \ FoundOnes) = Cardinality(S) - Cardinality(S \cap FoundOnes)
    BY <1>10, <2>1, FS_Difference
  <2>3. Interior = S \ FoundOnes /\ S \cap FoundOnes = FoundOnes /\ Cardinality(S) = b - a + 1
    BY <1>9, <1>10, <1>11, <2>1
  <2> QED BY <1>12, <2>2, <2>3, Zenon
<1>14. (b - a + 1) - len = b - a - (len - 1)
  BY <1>2, <1>6
<1> QED BY <1>2, <1>4, <1>5, <1>13, <1>14

\* Most gaps are of one period.
Whole(q) == {i \in 1 .. Len(q) - 1 : q[i + 1] - q[i] = 1}

LEMMA MostGapsWhole ==
  ASSUME NEW q, NEW ts, Tells(q, ts, FoundOnes), FoundOnes \in SUBSET Nat, MostlyWhole
  PROVE  /\ Len(q) - 1 >= 3 /\ Len(q) \in Nat
         /\ 2 * Cardinality(Whole(q)) > Len(q) - 1
<1> DEFINE len == Len(q)
           I == 1 .. len - 1
           pairs == {s \in FoundOnes : \E b \in FoundOnes : s < b}
           whole == {s \in pairs : s + 1 \in FoundOnes}
<1>1. len \in Nat /\ q \in Seq(Nat) /\ \A i \in 1 .. len : q[i] \in Nat /\ q[i] \in FoundOnes
  <2>1. len \in Nat /\ q \in Seq(Nat)
    BY LenProperties DEF Tells
  <2>2. \A i \in 1 .. len : q[i] \in FoundOnes
    BY DEF Tells
  <2> QED BY <2>1, <2>2
<1>2. I \in SUBSET (1 .. len) /\ \A i \in I : i + 1 \in 1 .. len
  BY <1>1
<1>3. pairs = {q[i] : i \in I}
  <2>1. ASSUME NEW s \in pairs PROVE s \in {q[i] : i \in I}
    <3>1. PICK b \in FoundOnes : s < b
      OBVIOUS
    <3>2. PICK i \in 1 .. len : q[i] = s
      BY DEF Tells
    <3>3. PICK j \in 1 .. len : q[j] = b
      BY DEF Tells
    <3>4. i < j
      BY <3>1, <3>2, <3>3, TellsOrder
    <3>5. i \in I
      BY <1>1, <3>4
    <3> QED BY <3>2, <3>5
  <2>2. ASSUME NEW i \in I PROVE q[i] \in pairs
    <3>1. i \in 1 .. len /\ i + 1 \in 1 .. len /\ i < i + 1
      BY <1>1
    <3>2. q[i] < q[i + 1]
      BY <3>1 DEF Tells
    <3> QED BY <1>1, <3>1, <3>2
  <2> QED BY <2>1, <2>2
<1>4. whole = {q[i] : i \in Whole(q)}
  <2>1. ASSUME NEW s \in whole PROVE s \in {q[i] : i \in Whole(q)}
    <3>1. s \in {q[i] : i \in I}
      BY <1>3
    <3>2. PICK i \in I : q[i] = s
      BY <3>1
    <3>3. s + 1 \in FoundOnes /\ s \in Nat
      OBVIOUS
    <3>4. i \in 1 .. len /\ i + 1 \in 1 .. len /\ i < i + 1
      BY <1>1
    <3>5. q[i] < q[i + 1]
      BY <3>4 DEF Tells
    <3>6. PICK x \in FoundOnes : x = s + 1
      BY <3>3
    <3>7. ~(q[i] < x /\ x < q[i + 1])
      BY NoneBetween
    <3>8. q[i + 1] - q[i] = 1
      BY <1>1, <3>2, <3>3, <3>4, <3>5, <3>6, <3>7
    <3> QED BY <3>2, <3>8 DEF Whole
  <2>2. ASSUME NEW i \in Whole(q) PROVE q[i] \in whole
    <3>1. i \in I /\ q[i + 1] - q[i] = 1
      BY DEF Whole
    <3>2. q[i] \in pairs
      BY <1>3, <3>1
    <3>3. i \in 1 .. len /\ i + 1 \in 1 .. len
      BY <1>2, <3>1
    <3>4. q[i] + 1 = q[i + 1]
      BY <1>1, <3>1, <3>3
    <3> QED BY <1>1, <3>2, <3>3, <3>4
  <2> QED BY <2>1, <2>2
<1>5. Whole(q) \in SUBSET (1 .. len)
  BY <1>2 DEF Whole
<1>6. Cardinality(pairs) >= 3 /\ 2 * Cardinality(whole) > Cardinality(pairs)
  BY DEF MostlyWhole
<1> HIDE DEF pairs, whole
<1>7. Cardinality(pairs) = Cardinality(I)
  <2> HIDE DEF I, len
  <2> QED BY <1>2, <1>3, PlacesCount DEF len
<1>8. Cardinality(whole) = Cardinality(Whole(q))
  BY <1>4, <1>5, PlacesCount
<1>9. len >= 1
  <2> SUFFICES ASSUME ~(len >= 1) PROVE FALSE
    OBVIOUS
  <2>1. I = {}
    BY <1>1
  <2> QED BY <1>6, <1>7, <2>1, FS_EmptySet
<1>10. Cardinality(I) = len - 1
  <2>1. 1 \in Int /\ len - 1 \in Int /\ (IF 1 > len - 1 THEN 0 ELSE (len - 1) - 1 + 1) = len - 1
    BY <1>1, <1>9
  <2>2. PICK n \in Int : n = len - 1
    BY <2>1
  <2> QED BY <2>1, <2>2, FS_Interval
<1> HIDE DEF I
<1> QED BY <1>1, <1>6, <1>7, <1>8, <1>10

\* The count is the sum of what the gaps hide, and that telescopes.
LEMMA CountIs ==
  ASSUME Steady, PassKnown, NEW q, NEW ts, Tells(q, ts, FoundOnes), MostlyWhole
  PROVE  MissingSegments(ts) = Cardinality(Interior)
<1> DEFINE gaps == GapsOf(ts)
           m == Median(gaps)
<1>1. PICK n \in Nat : n = Len(q) - 1 /\ n >= 3
  <2>1. FoundOnes \in SUBSET Nat
    BY DEF PassKnown, LineTypeOK, FoundOnes
  <2> QED BY <2>1, MostGapsWhole
<1>2. 2 * Cardinality(Whole(q)) > n
  <2>1. FoundOnes \in SUBSET Nat
    BY DEF PassKnown, LineTypeOK, FoundOnes
  <2> QED BY <1>1, <2>1, MostGapsWhole
<1>3. /\ Len(q) = n + 1 /\ Len(ts) = n + 1 /\ q \in Seq(Nat) /\ ts \in Seq(Nat) /\ q # <<>>
      /\ Jitter \in Nat /\ Period \in Nat /\ MaxHidden \in Nat
      /\ 10 * Jitter < Period
  <2>1. q \in Seq(Nat) /\ ts \in Seq(Nat) /\ Len(ts) = Len(q)
    BY DEF Tells
  <2>2. Jitter \in Nat /\ Period \in Nat /\ MaxHidden \in Nat
    BY PulseAssumption
  <2>3. PICK jm \in Nat : jm = Jitter * MaxHidden
    BY <2>2
  <2>4. 4 * jm + 10 * Jitter < Period
    BY <2>2, <2>3 DEF Steady
  <2> QED BY <1>1, <2>1, <2>2, <2>4
<1>4. \A i \in 1 .. n : /\ q[i + 1] - q[i] \in 1 .. MaxHidden + 1
                        /\ ts[i + 1] - ts[i] - (q[i + 1] - q[i]) * Period
                             \in -(2 * Jitter) .. 2 * Jitter
                        /\ q[i] \in Nat /\ q[i + 1] \in Nat /\ ts[i] \in Nat /\ ts[i + 1] \in Nat
  <2> TAKE i \in 1 .. n
  <2>1. i \in 1 .. Len(q) - 1
    BY <1>1
  <2>2. i \in 1 .. Len(q) /\ i + 1 \in 1 .. Len(q)
    BY <1>3
  <2>3. /\ q[i + 1] - q[i] \in 1 .. MaxHidden + 1
        /\ ts[i + 1] - ts[i] - (q[i + 1] - q[i]) * Period \in -(2 * Jitter) .. 2 * Jitter
    BY <2>1, GapIs
  <2>4. q[i] \in Nat /\ q[i + 1] \in Nat /\ ts[i] \in Nat /\ ts[i + 1] \in Nat
    BY <1>3, <2>2
  <2> QED BY <2>3, <2>4
<1>5. DOMAIN gaps = 1 .. n /\ \A i \in 1 .. n : gaps[i] = ts[i + 1] - ts[i]
  BY <1>3 DEF GapsOf
<1>6. ASSUME NEW i \in 1 .. n
      PROVE  gaps[i] \in Nat /\ Period - 2 * Jitter <= gaps[i]
  <2>1. PICK k \in 1 .. MaxHidden + 1 : k = q[i + 1] - q[i]
    BY <1>4
  <2>2. PICK g \in Int : g = ts[i + 1] - ts[i]
    BY <1>4
  <2>3. g - k * Period \in -(2 * Jitter) .. 2 * Jitter
    BY <1>4, <2>1, <2>2
  <2>4. k * Period >= Period
    BY <1>3
  <2>5. PICK kp \in Int : kp = k * Period
    BY <1>3
  <2>6. g >= Period - 2 * Jitter
    BY <1>3, <2>3, <2>4, <2>5
  <2> QED BY <1>3, <1>5, <2>2, <2>6
<1>7. gaps \in Seq(Nat) /\ Len(gaps) = n
  <2>1. gaps = [i \in 1 .. n |-> gaps[i]]
    BY <1>3 DEF GapsOf
  <2>2. gaps \in [1 .. n -> Nat]
    <3> HIDE DEF gaps
    <3> QED BY <1>6, <2>1
  <2> HIDE DEF gaps
  <2>3. gaps \in Seq(Nat)
    BY <2>2
  <2> QED BY <1>5, <2>3, LenProperties
<1> HIDE DEF gaps
<1>8. \A i \in Whole(q) : gaps[i] <= Period + 2 * Jitter
  <2> TAKE i \in Whole(q)
  <2>1. i \in 1 .. n /\ q[i + 1] - q[i] = 1
    BY <1>1 DEF Whole
  <2>2. ts[i + 1] - ts[i] - 1 * Period \in -(2 * Jitter) .. 2 * Jitter
    BY <1>4, <2>1
  <2>3. PICK g \in Int : g = ts[i + 1] - ts[i]
    BY <1>4, <2>1
  <2>4. g - Period \in -(2 * Jitter) .. 2 * Jitter
    BY <1>3, <2>2, <2>3
  <2>5. g <= Period + 2 * Jitter
    BY <1>3, <2>4
  <2> QED BY <1>5, <2>1, <2>3, <2>5
<1>9. m \in Nat /\ Period - 2 * Jitter <= m /\ m <= Period + 2 * Jitter
  <2>1. PICK lo \in Int : lo = Period - 2 * Jitter
    BY <1>3
  <2>2. PICK hi \in Nat : hi = Period + 2 * Jitter
    BY <1>3
  <2>3. Whole(q) \in SUBSET DOMAIN gaps
    BY <1>1, <1>5 DEF Whole
  <2>4. /\ \A i \in DOMAIN gaps : lo <= gaps[i]
        /\ \A i \in Whole(q) : gaps[i] <= hi
    BY <1>5, <1>6, <1>8, <2>1, <2>2
  <2>5. Median(gaps) \in Nat /\ lo <= Median(gaps) /\ Median(gaps) <= hi
    BY <1>2, <1>7, <2>3, <2>4, MedianIs
  <2> QED BY <2>1, <2>2, <2>5
<1> HIDE DEF m
<1>10. ASSUME NEW i \in 1 .. n PROVE Hidden(gaps[i], m) = q[i + 1] - q[i] - 1
  <2>1. PICK k \in 1 .. MaxHidden + 1 : k = q[i + 1] - q[i]
    BY <1>4
  <2>2. PICK g \in Nat : g = gaps[i]
    BY <1>6
  <2>3. g - k * Period \in -(2 * Jitter) .. 2 * Jitter
    BY <1>4, <1>5, <2>1, <2>2
  <2>4. m - Period \in -(2 * Jitter) .. 2 * Jitter
    BY <1>3, <1>9
  <2>5. Hidden(g, m) = k - 1
    BY <1>9, <2>3, <2>4, HiddenIs
  <2> QED BY <2>1, <2>2, <2>5
<1> DEFINE h == [j \in 0 .. n |-> q[j + 1] - q[1] - j]
<1>11. \A j \in 0 .. n : q[j + 1] \in Nat
  <2> TAKE j \in 0 .. n
  <2>1. j + 1 \in 1 .. Len(q)
    BY <1>1, <1>3
  <2> QED BY <1>3, <2>1
<1>12. h = [j \in 0 .. n |-> h[j]] /\ \A j \in 0 .. n : h[j] = q[j + 1] - q[1] - j
  OBVIOUS
<1> HIDE DEF h
<1>13. q[1] \in Nat /\ h[0] = 0 /\ h[n] = q[n + 1] - q[1] - n
  <2>1. 0 \in 0 .. n /\ n \in 0 .. n /\ 0 + 1 = 1
    BY <1>1
  <2>2. q[0 + 1] \in Nat
    BY <1>11, <2>1
  <2>3. h[0] = q[0 + 1] - q[1] - 0
    BY <1>12, <2>1
  <2> QED BY <1>12, <2>1, <2>2, <2>3
<1>14. \A j \in 1 .. n : h[j] = h[j - 1] + Hidden(gaps[j], m)
  <2> TAKE j \in 1 .. n
  <2>1. PICK i \in 0 .. n : i = j - 1
    OBVIOUS
  <2>2. i + 1 = j /\ j \in 0 .. n
    BY <2>1
  <2>3. h[i] = q[j] - q[1] - i
    BY <1>12, <2>2
  <2>4. h[j] = q[j + 1] - q[1] - j
    BY <1>12, <2>2
  <2>5. q[j] \in Nat /\ q[j + 1] \in Nat
    BY <1>4
  <2>6. Hidden(gaps[j], m) = q[j + 1] - q[j] - 1
    BY <1>10
  <2> QED BY <1>13, <2>1, <2>3, <2>4, <2>5, <2>6
<1>15. (CHOOSE f : SumIn(f, gaps, m))[n] = h[n]
  <2>1. h = [j \in 0 .. Len(gaps) |-> h[j]]
    BY <1>7, <1>12
  <2>2. \A j \in 1 .. Len(gaps) : h[j] = h[j - 1] + Hidden(gaps[j], m)
    BY <1>7, <1>14
  <2>3. (CHOOSE f : SumIn(f, gaps, m))[Len(gaps)] = h[Len(gaps)]
    BY <1>7, <1>13, <2>1, <2>2, SumFound
  <2> QED BY <1>7, <2>3
<1>16. MissingSegments(ts) = (CHOOSE f : SumIn(f, gaps, m))[n]
  <2>1. ~(Len(GapsOf(ts)) < 3)
    BY <1>1, <1>7 DEF gaps
  <2>2. MissingSegments(ts) = (CHOOSE f : SumIn(f, GapsOf(ts), Median(GapsOf(ts))))[Len(GapsOf(ts))]
    BY <2>1 DEF MissingSegments, SumIn
  <2> QED BY <1>7, <2>2 DEF gaps, m
<1>17. Cardinality(Interior) = q[Len(q)] - q[1] - (Len(q) - 1)
  BY <1>3, InteriorCount
<1> QED BY <1>1, <1>3, <1>13, <1>15, <1>16, <1>17

\* A pass without a miss is mostly whole, and nothing is missed inside it.
LEMMA WholePass ==
  ASSUME passed \in Nat, missed = {}, passed >= 4
  PROVE  MostlyWhole /\ Cardinality(Interior) = 0
<1> DEFINE pairs == {s \in FoundOnes : \E b \in FoundOnes : s < b}
           whole == {s \in pairs : s + 1 \in FoundOnes}
<1>1. FoundOnes = 1 .. passed
  BY DEF FoundOnes
<1>2. pairs = 1 .. passed - 1
  <2>1. ASSUME NEW s \in 1 .. passed - 1 PROVE s \in pairs
    <3>1. s \in 1 .. passed /\ s + 1 \in 1 .. passed /\ s < s + 1
      OBVIOUS
    <3> QED BY <1>1, <3>1
  <2>2. ASSUME NEW s \in pairs PROVE s \in 1 .. passed - 1
    <3>1. PICK b \in 1 .. passed : s < b
      BY <1>1
    <3>2. s \in 1 .. passed
      BY <1>1
    <3> QED BY <3>1, <3>2
  <2> QED BY <2>1, <2>2
<1>3. whole = pairs
  <2>1. ASSUME NEW s \in pairs PROVE s + 1 \in FoundOnes
    <3>1. s \in 1 .. passed - 1
      BY <1>2
    <3> QED BY <1>1, <3>1
  <2> QED BY <2>1
<1> HIDE DEF pairs, whole
<1>4. Cardinality(pairs) = passed - 1
  <2>1. PICK n \in Int : n = passed - 1 /\ ~(1 > n) /\ n - 1 + 1 = n
    OBVIOUS
  <2> QED BY <1>2, <2>1, FS_Interval
<1>5. Cardinality(pairs) >= 3 /\ 2 * Cardinality(whole) > Cardinality(pairs)
  BY <1>3, <1>4
<1>6. MostlyWhole
  BY <1>5 DEF MostlyWhole, pairs, whole
<1>7. Interior = {}
  BY DEF Interior
<1> QED BY <1>6, <1>7, FS_EmptySet

LEMMA PassKnownJudged == Steady /\ PassKnown => PassIsJudged
<1> SUFFICES ASSUME Steady, PassKnown PROVE PassIsJudged
  OBVIOUS
<1>1. PICK f, q : KeptIn(f, ticks) /\ Tells(q, f[Len(ticks)], FoundOnes)
  BY DEF PassKnown
<1>2. PICK ts : ts = SegmentPulses(ticks)
  OBVIOUS
<1>3. Tells(q, ts, FoundOnes)
  <2>1. ticks \in Seq(Nat)
    BY DEF PassKnown, LineTypeOK
  <2> QED BY <1>1, <1>2, <2>1, PulsesAre
<1>4. /\ passed \in Nat /\ TrackSegments \in Nat /\ missed \subseteq 1 .. passed
      /\ FoundOnes \in SUBSET Nat
  BY PulseAssumption DEF PassKnown, LineTypeOK, FoundOnes
<1>5. Len(ts) = Cardinality(FoundOnes) /\ Len(ts) \in Nat /\ Len(ts) = Len(q)
  <2>1. Cardinality(FoundOnes) = Len(q)
    BY <1>3, FoundCount
  <2>2. Len(ts) = Len(q) /\ ts \in Seq(Nat)
    BY <1>3 DEF Tells
  <2> QED BY <2>1, <2>2, LenProperties
<1>6. MostlyWhole => MissingSegments(ts) = Cardinality(Interior)
  BY <1>3, CountIs
<1>7. MissingIsExact
  BY <1>2, <1>6 DEF MissingIsExact
<1>8. /\ Result.ackOk /\ Result.end = "EOT" /\ Result.verified /\ ~Result.decoded
      /\ Result.found = Len(ts) /\ Result.missing = MissingSegments(ts)
  BY <1>2 DEF Result
<1>9. ASSUME missed = {}, passed = TrackSegments
      PROVE  CheckPass(Result, TrackSegments) = "none"
  <2>1. Len(ts) = TrackSegments
    <3>1. FoundOnes = 1 .. passed
      BY <1>9 DEF FoundOnes
    <3>2. 1 \in Int /\ passed \in Int /\ (IF 1 > passed THEN 0 ELSE passed - 1 + 1) = passed
      BY <1>4
    <3> QED BY <1>5, <1>9, <3>1, <3>2, FS_Interval
  <2>2. MissingSegments(ts) = 0
    <3>1. CASE TrackSegments >= 4
      <4>1. MostlyWhole /\ Cardinality(Interior) = 0
        BY <1>4, <1>9, <3>1, WholePass
      <4> QED BY <1>6, <4>1
    <3>2. CASE ~(TrackSegments >= 4)
      <4>1. Len(GapsOf(ts)) < 3
        <5>1. PICK n \in Nat : n = Len(ts) /\ n - 1 < 3
          BY <1>4, <1>5, <2>1, <3>2
        <5>2. PICK k \in Nat : 1 .. n - 1 = 1 .. k /\ k < 3
          <6>1. CASE n = 0
            <7>1. 1 .. n - 1 = 1 .. 0 /\ 0 < 3
              BY <6>1
            <7> QED BY <7>1
          <6>2. CASE n # 0
            BY <5>1, <6>2
          <6> QED BY <6>1, <6>2
        <5>3. GapsOf(ts) = [i \in 1 .. k |-> ts[i + 1] - ts[i]]
          BY <5>1, <5>2 DEF GapsOf
        <5>4. Len(GapsOf(ts)) = k
          BY <5>3
        <5> QED BY <5>2, <5>4
      <4> QED BY <4>1 DEF MissingSegments
    <3> QED BY <3>1, <3>2
  <2>3. ~(10 * Result.found < 9 * TrackSegments)
    BY <1>4, <1>8, <2>1
  <2>4. ~(20 * Result.missing > IF Result.found > 1 THEN Result.found ELSE 1)
    BY <1>4, <1>8, <2>1, <2>2
  <2> QED BY <1>8, <2>3, <2>4 DEF CheckPass
<1>10. ASSUME MostlyWhole, 20 * Cardinality(Interior) > Cardinality(FoundOnes)
       PROVE  CheckPass(Result, 0) # "none"
  <2>1. Len(q) \in Nat /\ Len(q) - 1 >= 3
    BY <1>3, <1>4, <1>10, MostGapsWhole
  <2>2. Result.found > 1 /\ 20 * Result.missing > Result.found
    BY <1>5, <1>6, <1>8, <1>10, <2>1
  <2> QED BY <2>2 DEF CheckPass
<1>11. ASSUME passed = TrackSegments, 10 * Cardinality(FoundOnes) < 9 * TrackSegments
       PROVE  CheckPass(Result, TrackSegments) # "none"
  <2>1. TrackSegments > 0 /\ 10 * Result.found < 9 * TrackSegments
    BY <1>4, <1>5, <1>8, <1>11
  <2> QED BY <2>1 DEF CheckPass
<1>12. RulesProtectTape
  BY <1>9, <1>10, <1>11 DEF RulesProtectTape
<1> QED BY <1>7, <1>12 DEF PassIsJudged

-----------------------------------------------------------------------------
(* The theorems. *)

\* Every variable has its type, and there is a track to dump wherever the loop
\* takes the first (dump.py's loop over the tracks).
THEOREM DumpTypes == Spec => []TypeOK
<1>1. Init => Typed /\ Resting
  BY TypedInit, RestInit
<1>2. Typed /\ Resting /\ [Next]_vars => (Typed /\ Resting)'
  BY TypedStep, RestingStep
<1>3. Typed => TypeOK
  BY DEF Typed
<1> QED BY <1>1, <1>2, <1>3, PTL DEF Spec

\* A read of chunks() that comes back empty after its timeout is the end of the
\* capture, however little flux the drive gives: no command of the dump reaches a
\* device that still captures (rdata_encode_flux()'s long gap against read_stream()).
THEOREM NothingIntoCaptureAlways == Spec => []NothingIntoCapture
<1> DEFINE Inv == Typed /\ Resting /\ Audible /\ NothingIntoCapture
<1>1. Init => Inv
  BY TypedInit, RestInit
<1>2. Inv /\ [Next]_vars => Inv'
  BY TypedStep, RestingStep, AudibleStep, NothingStep
<1> QED BY <1>1, <1>2, PTL DEF Spec

\* A dump that ends in good order, or stops itself after a weak pass or a bad
\* status, leaves the tape at rest (wait_ready() before each verdict).
THEOREM OrderlyEndIsStillAlways == Spec => []OrderlyEndIsStill
<1>1. Init => Typed /\ Resting
  BY TypedInit, RestInit
<1>2. Typed /\ Resting /\ [Next]_vars => (Typed /\ Resting)'
  BY TypedStep, RestingStep
<1>3. Resting => OrderlyEndIsStill
  BY DEF Resting, OrderlyEndIsStill, Done
<1> QED BY <1>1, <1>2, <1>3, PTL DEF Spec

\* Logical Forward reads from the end of the tape where its track begins, unless
\* somebody changed the cartridge after the last check (wind_to_track_start()).
THEOREM ReadsFromTrackStartAlways == Spec => ReadsFromTrackStart
<1> DEFINE Inv == Typed /\ Resting /\ AtStart
           Starts == motion' = "forward" /\ motion # "forward" /\ ~swapped => at' = 1
<1>1. Init => Inv
  BY TypedInit, RestInit
<1>2. Inv /\ [Next]_vars => Inv'
  BY TypedStep, RestingStep, AtStartStep
<1>3. Inv /\ [Next]_vars => [Starts]_vars
  BY ForwardStep
<1>4. Spec => [][Starts]_vars
  BY <1>1, <1>2, <1>3, PTL DEF Spec
<1> QED BY <1>4 DEF ReadsFromTrackStart

\* However many passes there were and in whatever order, no accepted pass found less
\* than nine tenths of what any accepted pass before it found (check_pass()).
THEOREM NoWeakPassAcceptedAlways == Spec => []NoWeakPassAccepted
<1> DEFINE Inv == Typed /\ Resting /\ Judged
<1>1. Init => Inv
  BY TypedInit, RestInit
<1>2. Inv /\ [Next]_vars => Inv'
  BY TypedStep, RestingStep, JudgedStep
<1>3. Inv => NoWeakPassAccepted
  BY DEF Judged
<1> QED BY <1>1, <1>2, <1>3, PTL DEF Spec

\* Whatever a pass finds of its segments, and however many it misses, the count of those
\* missed inside it is exact and the stop rules are neither blind nor jumpy
\* (missing_segments() and check_pass()).  The hypothesis is that the error of the longest
\* gap, measured in medians, stays below half a median: without it round() is wrong.
THEOREM PassIsJudgedAlways ==
  ASSUME 2 * Jitter * (2 * MaxHidden + 5) < Period
  PROVE  LineSpec => []PassIsJudged
<1>1. LineInit => PassKnown
  BY PassKnownInit
<1>2. PassKnown /\ [LineNext]_lineVars => PassKnown'
  BY PassKnownStep
<1>3. PassKnown => PassIsJudged
  BY PassKnownJudged DEF Steady
<1> QED BY <1>1, <1>2, <1>3, PTL DEF LineSpec

Follows(f, step, base, m) ==
  f = [n \in 0 .. m |-> IF n = 0 THEN base ELSE step[<<f[n - 1], n>>]]

LEMMA RecursionExists ==
  ASSUME NEW m \in Nat, NEW S, NEW base \in S, NEW step \in [S \X (1 .. m) -> S]
  PROVE  \E f \in [0 .. m -> S] : Follows(f, step, base, m)
<1> DEFINE N == {k \in 0 .. m : \E f \in [0 .. k -> S] : Follows(f, step, base, k)}
<1>1. 0 \in N
  <2> DEFINE f == [n \in 0 .. 0 |-> base]
  <2>1. \A n \in 0 .. 0 : n = 0
    OBVIOUS
  <2>2. f \in [0 .. 0 -> S] /\ f = [n \in 0 .. 0 |-> IF n = 0 THEN base ELSE step[<<f[n - 1], n>>]]
    BY <2>1
  <2> HIDE DEF f
  <2>3. Follows(f, step, base, 0)
    BY <2>2 DEF Follows
  <2> QED BY <2>2, <2>3
<1>2. \A k \in 0 .. m - 1 : k \in N => k + 1 \in N
  <2> TAKE k \in 0 .. m - 1
  <2> SUFFICES ASSUME k \in N PROVE k + 1 \in N
    OBVIOUS
  <2>1. k \in Nat /\ k + 1 \in 1 .. m /\ k + 1 \in 0 .. m /\ k \in 0 .. k
    OBVIOUS
  <2>2. PICK f \in [0 .. k -> S] : Follows(f, step, base, k)
    OBVIOUS
  <2>3. \A n \in 0 .. k : f[n] = IF n = 0 THEN base ELSE step[<<f[n - 1], n>>]
    <3>1. f = [n \in 0 .. k |-> IF n = 0 THEN base ELSE step[<<f[n - 1], n>>]]
      BY <2>2 DEF Follows
    <3> QED BY <3>1
  <2> DEFINE next == step[<<f[k], k + 1>>]
             g == [n \in 0 .. (k + 1) |-> IF n = k + 1 THEN next ELSE f[n]]
  <2>4. next \in S
    <3>1. f[k] \in S
      BY <2>1, <2>2
    <3> QED BY <2>1, <3>1
  <2>5. (\A n \in 0 .. k : g[n] = f[n]) /\ g[k + 1] = next
    BY <2>1
  <2>6. g = [n \in 0 .. (k + 1) |-> g[n]]
    OBVIOUS
  <2>7. \A n \in 0 .. (k + 1) : n \in 0 .. k \/ n = k + 1
    BY <2>1
  <2>8. g \in [0 .. (k + 1) -> S]
    <3> HIDE DEF next
    <3> QED BY <2>2, <2>4, <2>7
  <2> HIDE DEF g
  <2>9. \A n \in 0 .. (k + 1) : g[n] = IF n = 0 THEN base ELSE step[<<g[n - 1], n>>]
    <3> TAKE n \in 0 .. (k + 1)
    <3>1. CASE n = 0
      <4>1. 0 \in 0 .. k
        BY <2>1
      <4>2. f[0] = base
        BY <2>3, <4>1
      <4> QED BY <2>5, <3>1, <4>1, <4>2
    <3>2. CASE n = k + 1
      <4>1. n - 1 \in 0 .. k /\ n - 1 = k /\ n # 0
        BY <2>1, <3>2
      <4> QED BY <2>5, <3>2, <4>1
    <3>3. CASE n \in 1 .. k
      <4>1. n \in 0 .. k /\ n - 1 \in 0 .. k /\ n # 0
        BY <2>1, <3>3
      <4> QED BY <2>3, <2>5, <4>1
    <3> QED BY <2>1, <3>1, <3>2, <3>3
  <2>10. Follows(g, step, base, k + 1)
    <3>1. g = [n \in 0 .. (k + 1) |-> IF n = 0 THEN base ELSE step[<<g[n - 1], n>>]]
      BY <2>6, <2>9
    <3> QED BY <3>1 DEF Follows
  <2> QED BY <2>1, <2>8, <2>10
<1>3. \A k \in 0 .. m : k \in N
  <2> HIDE DEF N
  <2> QED BY <1>1, <1>2, UpToInduction
<1> QED BY <1>3


-----------------------------------------------------------------------------
(* Sums. *)

SummedIn(f, s) == f = [n \in 0 .. Len(s) |-> IF n = 0 THEN 0 ELSE f[n - 1] + s[n]]
Summed(s) == CHOOSE f : SummedIn(f, s)

LEMMA SumIsSummed == ASSUME NEW s PROVE Sum(s) = Summed(s)[Len(s)]
BY DEF Sum, Summed, SummedIn

LEMMA SummedExists ==
  ASSUME NEW s \in Seq(Nat)
  PROVE  /\ Summed(s) \in [0 .. Len(s) -> Nat]
         /\ Summed(s)[0] = 0
         /\ \A n \in 1 .. Len(s) : Summed(s)[n] = Summed(s)[n - 1] + s[n]
<1> DEFINE m == Len(s)
           step == [x \in Nat \X (1 .. m) |-> x[1] + s[x[2]]]
<1>1. m \in Nat /\ \A n \in 1 .. m : s[n] \in Nat
  BY LenProperties, ElementOfSeq
<1>2. step \in [Nat \X (1 .. m) -> Nat]
  <2> HIDE DEF m
  <2>1. \A x \in Nat \X (1 .. m) : x[1] \in Nat /\ x[2] \in 1 .. m
    OBVIOUS
  <2> QED BY <1>1, <2>1
<1>3. PICK f \in [0 .. m -> Nat] : Follows(f, step, 0, m)
  <2> HIDE DEF m, step
  <2> QED BY <1>1, <1>2, RecursionExists
<1>4. SummedIn(f, s)
  <2> DEFINE ValueAt(n) == f[n - 1] + s[n]
  <2>1. \A n \in 0 .. m : n # 0 => <<f[n - 1], n>> \in Nat \X (1 .. m)
    <3>1. \A n \in 0 .. m : n # 0 => n - 1 \in 0 .. m /\ n \in 1 .. m
      BY <1>1
    <3> QED BY <1>3, <3>1
  <2>2. \A n \in 0 .. m : n # 0 => step[<<f[n - 1], n>>] = ValueAt(n)
    <3> HIDE DEF m
    <3> QED BY <2>1
  <2>3. f = [n \in 0 .. m |-> IF n = 0 THEN 0 ELSE step[<<f[n - 1], n>>]]
    BY <1>3 DEF Follows
  <2>4. f = [n \in 0 .. m |-> IF n = 0 THEN 0 ELSE ValueAt(n)]
    <3> HIDE DEF m, step, ValueAt
    <3> QED BY <2>2, <2>3
  <2> QED BY <2>4 DEF SummedIn
<1>5. SummedIn(Summed(s), s)
  BY <1>4 DEF Summed
<1> DEFINE g == Summed(s)
<1>6. g = [n \in 0 .. m |-> IF n = 0 THEN 0 ELSE g[n - 1] + s[n]]
  BY <1>5 DEF SummedIn
<1> HIDE DEF g
<1>7. \A n \in 1 .. m : n \in 0 .. m /\ n # 0 /\ n - 1 \in 0 .. m
  BY <1>1
<1>8. g[0] = 0 /\ \A n \in 1 .. m : g[n] = g[n - 1] + s[n]
  <2>1. 0 \in 0 .. m
    BY <1>1
  <2> HIDE DEF m
  <2> QED BY <1>6, <1>7, <2>1
<1>9. \A n \in 0 .. m : g[n] \in Nat
  <2> DEFINE N == {n \in 0 .. m : g[n] \in Nat}
  <2>1. 0 \in N
    BY <1>1, <1>8
  <2>2. \A n \in 0 .. m - 1 : n \in N => n + 1 \in N
    <3> TAKE n \in 0 .. m - 1
    <3>1. n + 1 \in 1 .. m /\ n + 1 \in 0 .. m /\ (n + 1) - 1 = n
      BY <1>1
    <3>2. g[n + 1] = g[n] + s[n + 1] /\ s[n + 1] \in Nat
      BY <1>1, <1>8, <3>1
    <3> QED BY <3>1, <3>2
  <2>3. \A n \in 0 .. m : n \in N
    <3> HIDE DEF N, m
    <3> QED BY <1>1, <2>1, <2>2, UpToInduction
  <2> QED BY <2>3
<1>10. g \in [0 .. m -> Nat]
  <2> HIDE DEF m
  <2> QED BY <1>6, <1>9
<1> QED BY <1>8, <1>10 DEF g

LEMMA SummedAgree ==
  ASSUME NEW s \in Seq(Nat), NEW r \in Seq(Nat), NEW n \in Nat, n <= Len(s), n <= Len(r),
         \A i \in 1 .. n : s[i] = r[i]
  PROVE  Summed(s)[n] = Summed(r)[n]
<1> DEFINE f == Summed(s)
           g == Summed(r)
           N == {k \in 0 .. n : f[k] = g[k]}
<1>1. f[0] = 0 /\ g[0] = 0
  BY SummedExists
<1>2. \A k \in 1 .. n : f[k] = f[k - 1] + s[k] /\ g[k] = g[k - 1] + r[k]
  <2>1. \A k \in 1 .. n : k \in 1 .. Len(s) /\ k \in 1 .. Len(r)
    OBVIOUS
  <2> QED BY <2>1, SummedExists
<1> HIDE DEF f, g
<1>3. 0 \in N
  BY <1>1
<1>4. \A k \in 0 .. n - 1 : k \in N => k + 1 \in N
  <2> TAKE k \in 0 .. n - 1
  <2>1. k + 1 \in 1 .. n /\ k + 1 \in 0 .. n /\ (k + 1) - 1 = k
    OBVIOUS
  <2>2. f[k + 1] = f[k] + s[k + 1] /\ g[k + 1] = g[k] + r[k + 1] /\ s[k + 1] = r[k + 1]
    BY <1>2, <2>1
  <2> QED BY <2>1, <2>2
<1>5. \A k \in 0 .. n : k \in N
  <2> HIDE DEF N
  <2> QED BY <1>3, <1>4, UpToInduction
<1>6. n \in N
  <2> HIDE DEF N
  <2> QED BY <1>5
<1> QED BY <1>6 DEF f, g

LEMMA SumEmpty == Sum(<<>>) = 0
<1>1. <<>> \in Seq(Nat) /\ Len(<<>>) = 0
  OBVIOUS
<1> QED BY <1>1, SumIsSummed, SummedExists

LEMMA SumNat == ASSUME NEW s \in Seq(Nat) PROVE Sum(s) \in Nat
<1>1. Len(s) \in 0 .. Len(s)
  BY LenProperties
<1> QED BY <1>1, SumIsSummed, SummedExists

LEMMA SumAppend ==
  ASSUME NEW s \in Seq(Nat), NEW x \in Nat
  PROVE  Sum(Append(s, x)) = Sum(s) + x
<1> DEFINE r == Append(s, x)
           n == Len(s)
<1>1. r \in Seq(Nat) /\ Len(r) = n + 1 /\ n \in Nat /\ r[n + 1] = x /\ \A i \in 1 .. n : r[i] = s[i]
  OBVIOUS
<1> HIDE DEF r
<1>2. n + 1 \in 1 .. Len(r) /\ (n + 1) - 1 = n
  BY <1>1
<1>3. Summed(r)[n + 1] = Summed(r)[n] + x
  BY <1>1, <1>2, SummedExists
<1>4. Summed(r)[n] = Summed(s)[n]
  <2>1. n <= Len(r) /\ n <= Len(s)
    BY <1>1
  <2> QED BY <1>1, <2>1, SummedAgree
<1>5. Sum(r) = Summed(r)[n + 1] /\ Sum(s) = Summed(s)[n]
  BY <1>1, SumIsSummed
<1> QED BY <1>3, <1>4, <1>5 DEF r

LEMMA SumConcat ==
  ASSUME NEW s \in Seq(Nat), NEW t \in Seq(Nat)
  PROVE  Sum(s \o t) = Sum(s) + Sum(t)
<1> DEFINE b == s \o t
           n == Len(s)
           m == Len(t)
           N == {k \in 0 .. m : Summed(b)[n + k] = Summed(s)[n] + Summed(t)[k]}
<1>1. /\ b \in Seq(Nat) /\ n \in Nat /\ m \in Nat /\ Len(b) = n + m
      /\ \A i \in 1 .. n : b[i] = s[i]
      /\ \A k \in 1 .. m : b[n + k] = t[k]
  OBVIOUS
<1> HIDE DEF b
<1>2. Summed(b)[n] = Summed(s)[n]
  <2>1. n <= Len(b) /\ n <= Len(s)
    BY <1>1
  <2> QED BY <1>1, <2>1, SummedAgree
<1>3. Summed(s)[n] \in Nat
  <2>1. n \in 0 .. Len(s)
    BY <1>1
  <2> QED BY <2>1, SummedExists
<1>4. 0 \in N
  <2>1. Summed(t)[0] = 0 /\ 0 \in 0 .. m /\ n + 0 = n
    BY <1>1, SummedExists
  <2> QED BY <1>2, <1>3, <2>1
<1>5. \A k \in 0 .. m - 1 : k \in N => k + 1 \in N
  <2> TAKE k \in 0 .. m - 1
  <2>1. /\ k + 1 \in 1 .. m /\ k + 1 \in 0 .. m /\ (k + 1) - 1 = k /\ k \in 0 .. m
        /\ n + (k + 1) \in 1 .. Len(b) /\ (n + (k + 1)) - 1 = n + k
    BY <1>1
  <2>2. Summed(b)[n + (k + 1)] = Summed(b)[n + k] + b[n + (k + 1)]
    <3>1. \A j \in 1 .. Len(b) : Summed(b)[j] = Summed(b)[j - 1] + b[j]
      BY <1>1, SummedExists
    <3> QED BY <2>1, <3>1
  <2>3. Summed(t)[k + 1] = Summed(t)[k] + t[k + 1] /\ Summed(t)[k] \in Nat
    <3>1. \A j \in 1 .. m : Summed(t)[j] = Summed(t)[j - 1] + t[j]
      BY SummedExists
    <3>2. Summed(t) \in [0 .. m -> Nat]
      BY SummedExists
    <3> QED BY <2>1, <3>1, <3>2
  <2>4. b[n + (k + 1)] = t[k + 1] /\ t[k + 1] \in Nat
    BY <1>1, <2>1, ElementOfSeq
  <2> QED BY <1>3, <2>1, <2>2, <2>3, <2>4
<1>6. \A k \in 0 .. m : k \in N
  <2> HIDE DEF N, m, n
  <2> QED BY <1>1, <1>4, <1>5, UpToInduction
<1>7. m \in N
  <2> HIDE DEF N
  <2> QED BY <1>1, <1>6
<1>8. Sum(b) = Summed(b)[n + m] /\ Sum(s) = Summed(s)[n] /\ Sum(t) = Summed(t)[m]
  BY <1>1, SumIsSummed
<1> QED BY <1>7, <1>8 DEF b

-----------------------------------------------------------------------------
(* Numbers: remainders, the 28 bits, and the bytes of an interval. *)

LEMMA Divided ==
  ASSUME NEW x \in Int, NEW b \in Nat \ {0}
  PROVE  x = b * (x \div b) + (x % b) /\ x % b \in 0 .. b - 1 /\ x \div b \in Int
OBVIOUS

LEMMA Remains ==
  ASSUME NEW x \in Nat, NEW b \in Nat \ {0}, NEW q \in Int, q = x \div b
  PROVE  x % b \in 0 .. b - 1 /\ x = b * q + (x % b)
OBVIOUS

LEMMA RemainderIs ==
  ASSUME NEW m \in Nat \ {0}, NEW q \in Int, NEW r \in 0 .. m - 1, NEW x \in Int, x = q * m + r
  PROVE  x % m = r
OBVIOUS

LEMMA QuotientFits ==
  ASSUME NEW b \in Nat \ {0}, NEW c \in Nat, NEW x \in Nat, x < b * c
  PROVE  x \div b \in Nat /\ x \div b < c
<1>1. PICK q \in Int, r \in 0 .. b - 1 : q = x \div b /\ x = b * q + r
  BY Divided
<1>2. PICK bq \in Int : bq = b * q
  OBVIOUS
<1>3. PICK bc \in Int : bc = b * c
  OBVIOUS
<1>4. CASE q < 0
  <2>1. PICK k \in Nat : q = 0 - (k + 1)
    <3>1. 0 - (q + 1) \in Nat /\ q = 0 - ((0 - (q + 1)) + 1)
      BY <1>4
    <3> QED BY <3>1
  <2>2. PICK bk \in Nat : bk = b * k
    OBVIOUS
  <2>3. bq = 0 - bk - b
    BY <1>2, <2>1, <2>2
  <2> QED BY <1>1, <1>2, <2>2, <2>3
<1>5. CASE q >= c
  <2>1. PICK k \in Nat : q = c + k
    <3>1. q - c \in Nat /\ q = c + (q - c)
      BY <1>5
    <3> QED BY <3>1
  <2>2. PICK bk \in Nat : bk = b * k
    OBVIOUS
  <2>3. bq = bc + bk
    BY <1>2, <1>3, <2>1, <2>2
  <2> QED BY <1>1, <1>2, <1>3, <2>2, <2>3
<1> QED BY <1>1, <1>4, <1>5

\* What is less than a counter's range comes through it.
LEMMA Wrapped ==
  ASSUME NEW m \in Nat \ {0}, NEW x \in Int, NEW y \in Int, y - x \in 0 .. m - 1
  PROVE  (y - (x % m)) % m = y - x
<1>1. PICK q \in Int, r \in 0 .. m - 1 : q = x \div m /\ r = x % m /\ x = m * q + r
  BY Divided
<1>2. PICK e \in 0 .. m - 1 : e = y - x
  OBVIOUS
<1>3. PICK d \in Int : d = y - r
  OBVIOUS
<1>4. d = q * m + e
  BY <1>1, <1>2, <1>3
<1>5. d % m = e
  BY <1>4, RemainderIs
<1> QED BY <1>1, <1>2, <1>3, <1>5

LEMMA WrapAdded ==
  ASSUME NEW m \in Nat \ {0}, NEW x \in Int, NEW k \in Int
  PROVE  ((x % m) + k) % m = (x + k) % m
<1>1. PICK q \in Int, r \in 0 .. m - 1 : q = x \div m /\ r = x % m /\ x = m * q + r
  BY Divided
<1>2. PICK d \in Int : d = r + k
  OBVIOUS
<1>3. PICK u \in Int, v \in 0 .. m - 1 : u = d \div m /\ v = d % m /\ d = m * u + v
  BY Divided
<1>4. PICK y \in Int : y = x + k
  OBVIOUS
<1>5. PICK s \in Int : s = q + u
  OBVIOUS
<1>6. y = s * m + v
  BY <1>1, <1>2, <1>3, <1>4, <1>5
<1>7. y % m = v
  BY <1>6, RemainderIs
<1> QED BY <1>1, <1>2, <1>3, <1>4, <1>7

\* What the rates give.
LEMMA Rates ==
  /\ Esc \in Nat /\ TwoBytes \in Nat /\ Tail9 \in Nat /\ Half \in Nat \ {0} /\ Top \in Nat \ {0}
  /\ 1 < TwoBytes /\ TwoBytes < Esc /\ 0 < Tail9 /\ Tail9 = TwoBytes - 1
  /\ Long \in Nat /\ TwoBytes < Long /\ Long <= Filler /\ Filler \in Nat
  /\ Top + TwoBytes <= Half * (Half * (Half * Half)) /\ Long + Work <= Filler /\ Work \in Nat
  /\ 2 * Half = Esc + 1 /\ 3 * Filler + Work < Top
<1>1. /\ Esc \in Nat /\ TwoBytes \in Nat /\ Filler \in Nat /\ Work \in Nat /\ Top \in Nat
      /\ 1 < TwoBytes /\ TwoBytes < Esc /\ Long + Work <= Filler /\ Esc % 2 = 1
      /\ Top + TwoBytes <= Half * Half * Half * Half
  BY RateAssumption
<1>2. 2 * Half = Esc + 1 /\ Half \in Nat \ {0}
  BY <1>1 DEF Half
<1>3. Long \in Nat /\ TwoBytes < Long
  <2>1. PICK k \in Nat \ {0} : k = Esc - TwoBytes
    BY <1>1
  <2>2. PICK p \in Nat : p = k * Esc
    BY <1>1
  <2>3. p >= Esc
    BY <1>1, <2>1, <2>2
  <2>4. Long = TwoBytes + p
    BY <2>1, <2>2 DEF Long
  <2> QED BY <1>1, <2>3, <2>4
<1>4. Half * Half * Half * Half = Half * (Half * (Half * Half))
  BY <1>2
<1>5. 3 * Filler + Work < Top
  <2>1. PICK g \in Gaps : g \in Nat /\ 3 * Filler + g + Work < Top
    BY RateAssumption
  <2> QED BY <1>1, <2>1
<1> QED BY <1>1, <1>2, <1>3, <1>4, <1>5 DEF Tail9

-----------------------------------------------------------------------------
(* The 28 bits. *)

LEMMA LowBitSet == ASSUME NEW r \in Nat PROVE (1 + 2 * r) \div 2 = r
OBVIOUS

\* b holds w from i on.
Holds(b, i, w) == i + Len(w) - 1 <= Len(b) /\ \A k \in 1 .. Len(w) : b[i + k - 1] = w[k]

LEMMA N28Is ==
  ASSUME NEW x \in Nat, x < Half * (Half * (Half * Half))
  PROVE  \E r0, r1, r2, r3 \in 0 .. Half - 1 :
           /\ N28(x) = <<1 + 2 * r0, 1 + 2 * r1, 1 + 2 * r2, 1 + 2 * r3>>
           /\ x = r0 + Half * (r1 + Half * (r2 + Half * r3))
<1>1. Half \in Nat \ {0}
  BY Rates
<1>2. PICK hh \in Nat : hh = Half * Half
  BY <1>1
<1>3. PICK hhh \in Nat : hhh = Half * hh
  BY <1>1, <1>2
<1>4. x < Half * hhh
  BY <1>2, <1>3
<1>5. PICK y \in Nat : y = x \div Half /\ y < hhh
  BY <1>1, <1>3, <1>4, QuotientFits
<1>6. PICK z \in Nat : z = y \div Half /\ z < hh
  BY <1>1, <1>2, <1>3, <1>5, QuotientFits
<1>7. PICK u \in Nat : u = z \div Half /\ u < Half
  BY <1>1, <1>2, <1>6, QuotientFits
<1>8. PICK r0 \in 0 .. Half - 1 : r0 = x % Half /\ x = Half * y + r0
  <2>1. x \in Nat /\ y \in Int /\ y = x \div Half
    BY <1>5
  <2>2. x % Half \in 0 .. Half - 1 /\ x = Half * y + (x % Half)
    BY <1>1, <2>1, Remains
  <2> QED BY <2>2, Zenon
<1>9. PICK r1 \in 0 .. Half - 1 : r1 = y % Half /\ y = Half * z + r1
  <2>1. y \in Nat /\ z \in Int /\ z = y \div Half
    BY <1>6, <1>5
  <2>2. y % Half \in 0 .. Half - 1 /\ y = Half * z + (y % Half)
    BY <1>1, <2>1, Remains
  <2> QED BY <2>2, Zenon
<1>10. PICK r2 \in 0 .. Half - 1 : r2 = z % Half /\ z = Half * u + r2
  <2>1. z \in Nat /\ u \in Int /\ u = z \div Half
    BY <1>7, <1>6
  <2>2. z % Half \in 0 .. Half - 1 /\ z = Half * u + (z % Half)
    BY <1>1, <2>1, Remains
  <2> QED BY <2>2, Zenon
<1>11. u % Half = u /\ u \in 0 .. Half - 1
  <2>1. u \in 0 .. Half - 1 /\ u = 0 * Half + u
    BY <1>1, <1>7
  <2> QED BY <1>1, <2>1, RemainderIs
<1>12. N28(x) = <<1 + 2 * r0, 1 + 2 * r1, 1 + 2 * r2, 1 + 2 * u>>
  BY <1>5, <1>6, <1>7, <1>8, <1>9, <1>10, <1>11, Zenon DEF N28
<1>13. x = r0 + Half * (r1 + Half * (r2 + Half * u))
  <2>1. y = r1 + Half * (r2 + Half * u)
    BY <1>1, <1>9, <1>10
  <2> QED BY <1>1, <1>8, <2>1
<1> QED BY <1>11, <1>12, <1>13

LEMMA N28Read ==
  ASSUME NEW x \in Nat, x < Half * (Half * (Half * Half)), NEW b, NEW i \in Nat,
         \A k \in 1 .. 4 : b[i + k - 1] = N28(x)[k]
  PROVE  N28At(b, i) = x
<1>1. PICK r0, r1, r2, r3 \in 0 .. Half - 1 :
        /\ N28(x) = <<1 + 2 * r0, 1 + 2 * r1, 1 + 2 * r2, 1 + 2 * r3>>
        /\ x = r0 + Half * (r1 + Half * (r2 + Half * r3))
  BY N28Is
<1>2. r0 \in Nat /\ r1 \in Nat /\ r2 \in Nat /\ r3 \in Nat
  BY Rates
<1>3. b[i] = 1 + 2 * r0 /\ b[i + 1] = 1 + 2 * r1 /\ b[i + 2] = 1 + 2 * r2 /\ b[i + 3] = 1 + 2 * r3
  <2>1. b[i + 1 - 1] = 1 + 2 * r0 /\ b[i + 2 - 1] = 1 + 2 * r1 /\ b[i + 3 - 1] = 1 + 2 * r2 /\ b[i + 4 - 1] = 1 + 2 * r3
    BY <1>1
  <2>2. i + 1 - 1 = i /\ i + 2 - 1 = i + 1 /\ i + 3 - 1 = i + 2 /\ i + 4 - 1 = i + 3
    OBVIOUS
  <2> QED BY <2>1, <2>2
<1>4. b[i] \div 2 = r0 /\ b[i + 1] \div 2 = r1 /\ b[i + 2] \div 2 = r2 /\ b[i + 3] \div 2 = r3
  BY <1>2, <1>3, LowBitSet
<1> QED BY <1>1, <1>4, Zenon DEF N28At

LEMMA N28Bytes ==
  ASSUME NEW x \in Nat, x < Half * (Half * (Half * Half))
  PROVE  N28(x) \in Seq(Nat) /\ Len(N28(x)) = 4
<1>1. PICK r0, r1, r2, r3 \in 0 .. Half - 1 : N28(x) = <<1 + 2 * r0, 1 + 2 * r1, 1 + 2 * r2, 1 + 2 * r3>>
  BY N28Is
<1>2. 1 + 2 * r0 \in Nat /\ 1 + 2 * r1 \in Nat /\ 1 + 2 * r2 \in Nat /\ 1 + 2 * r3 \in Nat
  BY Rates
<1> QED BY <1>1, <1>2

-----------------------------------------------------------------------------
(* What is written, and how each is read: w, at the place of the walk. *)

MarkerInfo == [code : Nat, payload : Seq(Nat), interval : Nat]
PState == [i : Nat \ {0}, intervals : Seq(Nat), t : Nat, index : Seq(Nat), markers : Seq(MarkerInfo),
           bytes : Nat, sum : Nat, pending : Nat, end : Seq(Nat), skips : SUBSET Nat,
           terminated : BOOLEAN, refused : BOOLEAN, stop : BOOLEAN]

Dead(x)  == <<Esc, SPACE>> \o N28(x)
EdgeAt(x) == <<Esc, INDEX>> \o N28(x)

LEMMA JoinedIs ==
  ASSUME NEW a \in Seq(Nat), NEW v \in Seq(Nat)
  PROVE  /\ a \o v \in Seq(Nat) /\ Len(a \o v) = Len(a) + Len(v)
         /\ \A k \in 1 .. Len(a) : (a \o v)[k] = a[k]
         /\ \A k \in 1 .. Len(v) : (a \o v)[Len(a) + k] = v[k]
<1>1. Len(a) \in Nat /\ Len(v) \in Nat
  BY LenProperties
<1>2. /\ a \o v \in Seq(Nat) /\ Len(a \o v) = Len(a) + Len(v)
      /\ \A i \in 1 .. Len(a) + Len(v) : (a \o v)[i] = IF i <= Len(a) THEN a[i] ELSE v[i - Len(a)]
  BY ConcatProperties
<1>3. \A k \in 1 .. Len(a) : k \in 1 .. Len(a) + Len(v) /\ k <= Len(a)
  BY <1>1
<1>4. \A k \in 1 .. Len(v) : /\ Len(a) + k \in 1 .. Len(a) + Len(v) /\ ~(Len(a) + k <= Len(a))
                              /\ (Len(a) + k) - Len(a) = k
  BY <1>1
<1> QED BY <1>2, <1>3, <1>4, Zenon

LEMMA OpcodeIs ==
  ASSUME NEW x \in Nat, x < Half * (Half * (Half * Half)), NEW op \in Nat,
         NEW w, w = <<Esc, op>> \o N28(x)
  PROVE  /\ w \in Seq(Nat) /\ Len(w) = 6 /\ w[1] = Esc /\ w[2] = op
         /\ \A k \in 1 .. 4 : w[k + 2] = N28(x)[k]
<1>1. N28(x) \in Seq(Nat) /\ Len(N28(x)) = 4
  BY N28Bytes
<1>2. <<Esc, op>> \in Seq(Nat) /\ Len(<<Esc, op>>) = 2
  BY Rates
<1> DEFINE a == <<Esc, op>>
           v == N28(x)
<1>3. a[1] = Esc /\ a[2] = op
  OBVIOUS
<1> HIDE DEF a, v
<1>4. a \in Seq(Nat) /\ Len(a) = 2 /\ v \in Seq(Nat) /\ Len(v) = 4 /\ w = a \o v
  BY <1>1, <1>2 DEF a, v
<1>5. w \in Seq(Nat) /\ Len(w) = 2 + 4 /\ (\A k \in 1 .. 2 : w[k] = a[k]) /\ \A k \in 1 .. 4 : w[2 + k] = v[k]
  <2>1. /\ w \in Seq(Nat) /\ Len(w) = Len(a) + Len(v)
        /\ \A k \in 1 .. Len(a) : w[k] = a[k]
        /\ \A k \in 1 .. Len(v) : w[Len(a) + k] = v[k]
    <3>1. a \in Seq(Nat) /\ v \in Seq(Nat) /\ w = a \o v
      BY <1>4
    <3> QED BY ONLY <3>1, JoinedIs, Zenon
  <2> QED BY <1>4, <2>1, Zenon
<1>6. 2 + 4 = 6 /\ 1 \in 1 .. 2 /\ 2 \in 1 .. 2 /\ \A k \in 1 .. 4 : k + 2 = 2 + k
  OBVIOUS
<1> QED BY <1>3, <1>5, <1>6, Zenon DEF v

LEMMA LongIs ==
  ASSUME NEW x \in Nat, x < Half * (Half * (Half * Half)),
         NEW w, w = <<Esc, SPACE>> \o N28(x) \o <<Tail9>>
  PROVE  /\ w \in Seq(Nat) /\ Len(w) = 7 /\ w[1] = Esc /\ w[2] = SPACE /\ w[7] = Tail9
         /\ \A k \in 1 .. 4 : w[k + 2] = N28(x)[k]
<1> DEFINE v == <<Esc, SPACE>> \o N28(x)
<1>1. SPACE \in Nat
  BY DEF SPACE
<1>2. /\ v \in Seq(Nat) /\ Len(v) = 6 /\ v[1] = Esc /\ v[2] = SPACE
      /\ \A k \in 1 .. 4 : v[k + 2] = N28(x)[k]
  <2>1. \A op \in Nat : \A u : u = <<Esc, op>> \o N28(x) =>
          /\ u \in Seq(Nat) /\ Len(u) = 6 /\ u[1] = Esc /\ u[2] = op
          /\ \A k \in 1 .. 4 : u[k + 2] = N28(x)[k]
    BY OpcodeIs
  <2>2. v = <<Esc, SPACE>> \o N28(x)
    OBVIOUS
  <2> HIDE DEF v
  <2>3. \A u : u = <<Esc, SPACE>> \o N28(x) =>
          /\ u \in Seq(Nat) /\ Len(u) = 6 /\ u[1] = Esc /\ u[2] = SPACE
          /\ \A k \in 1 .. 4 : u[k + 2] = N28(x)[k]
    BY ONLY <1>1, <2>1, Zenon
  <2> QED BY ONLY <2>2, <2>3, Zenon
<1> HIDE DEF v
<1>3. w = v \o <<Tail9>> /\ <<Tail9>> \in Seq(Nat) /\ Len(<<Tail9>>) = 1
  BY Rates DEF v
<1>4. /\ w \in Seq(Nat) /\ Len(w) = 6 + 1 /\ \A k \in 1 .. 6 : w[k] = v[k]
      /\ \A k \in 1 .. 1 : w[6 + k] = <<Tail9>>[k]
  <2> DEFINE z == <<Tail9>>
  <2>1. z \in Seq(Nat) /\ Len(z) = 1 /\ w = v \o z
    BY <1>3
  <2> HIDE DEF z
  <2>2. /\ w \in Seq(Nat) /\ Len(w) = Len(v) + Len(z)
        /\ \A k \in 1 .. Len(v) : w[k] = v[k]
        /\ \A k \in 1 .. Len(z) : w[Len(v) + k] = z[k]
    <3>1. v \in Seq(Nat) /\ z \in Seq(Nat) /\ w = v \o z
      BY <1>2, <2>1
    <3> QED BY ONLY <3>1, JoinedIs, Zenon
  <2> QED BY <1>2, <2>1, <2>2, Zenon DEF z
<1>5. /\ 6 + 1 = 7 /\ 1 \in 1 .. 6 /\ 2 \in 1 .. 6 /\ 1 \in 1 .. 1 /\ <<Tail9>>[1] = Tail9
      /\ \A k \in 1 .. 4 : k + 2 \in 1 .. 6
  OBVIOUS
<1> QED BY <1>2, <1>4, <1>5, Zenon

LEMMA HeldPart ==
  ASSUME NEW b \in Seq(Nat), NEW i \in Nat \ {0}, NEW w \in Seq(Nat), Holds(b, i, w),
         NEW n, n = i + Len(w) - 1
  PROVE  SubSeq(b, i, n) = w
<1> DEFINE s == SubSeq(b, i, n)
           m == Len(w)
<1>1. m \in Nat /\ n \in Int /\ n <= Len(b) /\ (n - i) + 1 = m /\ \A k \in 1 .. m : b[i + k - 1] = w[k]
  BY DEF Holds
<1>2. s \in Seq(Nat) /\ Len(s) = m /\ \A k \in 1 .. m : s[k] = b[i + k - 1]
  BY <1>1
<1> HIDE DEF s
<1>3. \A k \in 1 .. m : s[k] = w[k]
  BY <1>1, <1>2
<1>4. s = w
  BY <1>2, <1>3, SeqEqual
<1> QED BY <1>4 DEF s

\* The forms of an interval.
LEMMA IntervalIs ==
  ASSUME NEW t \in 1 .. Top - 1
  PROVE  \/ t < TwoBytes /\ Interval(t) = <<t>>
         \/ \E h \in 0 .. (Esc - 1) - TwoBytes, r \in 0 .. Esc - 1 :
              /\ t = TwoBytes + h * Esc + r /\ TwoBytes <= t
              /\ Interval(t) = <<TwoBytes + h, 1 + r>>
         \/ /\ t >= Long /\ t - Tail9 \in Nat /\ t - Tail9 < Half * (Half * (Half * Half))
            /\ Interval(t) = <<Esc, SPACE>> \o N28(t - Tail9) \o <<Tail9>>
<1>1. t \in Nat /\ t # 0 /\ t < Top
  BY Rates
<1>2. CASE t < TwoBytes
  BY <1>1, <1>2 DEF Interval
<1>3. CASE t >= TwoBytes /\ t < Long
  <2>1. PICK x \in Nat : x = t - TwoBytes
    BY <1>1, <1>3, Rates
  <2>2. PICK k \in Nat \ {0} : k = Esc - TwoBytes
    BY Rates
  <2>3. x < Esc * k
    <3>1. Long = TwoBytes + k * Esc
      BY <2>2 DEF Long
    <3>2. k * Esc = Esc * k
      BY <2>2, Rates
    <3>3. PICK e \in Nat : e = Esc * k
      BY <2>2, Rates
    <3> QED BY <1>1, <1>3, <2>1, <3>1, <3>2, <3>3, Rates
  <2>4. Esc \in Nat \ {0}
    BY Rates
  <2>5. PICK h \in Nat : h = x \div Esc /\ h < k
    BY <2>1, <2>2, <2>3, <2>4, QuotientFits
  <2>6. PICK r \in 0 .. Esc - 1 : r = x % Esc /\ x = Esc * h + r
    <3>1. x % Esc \in 0 .. Esc - 1 /\ x = Esc * h + (x % Esc)
      BY <2>1, <2>4, <2>5, Remains
    <3> QED BY <3>1, Zenon
  <2>7. Interval(t) = <<TwoBytes + h, 1 + r>>
    <3>1. Interval(t) = <<TwoBytes + (x \div Esc), 1 + (x % Esc)>>
      <4>1. ~(t < TwoBytes)
        BY <1>1, <1>3, Rates
      <4> QED BY <1>1, <1>3, <2>1, <4>1, Zenon DEF Interval
    <3> QED BY <2>5, <2>6, <3>1, Zenon
  <2>8. h \in 0 .. (Esc - 1) - TwoBytes
    BY <2>2, <2>5, Rates
  <2>9. t = TwoBytes + h * Esc + r
    <3>1. h * Esc = Esc * h
      BY <2>5, Rates
    <3>2. PICK e \in Nat : e = Esc * h
      BY <2>5, Rates
    <3> QED BY <2>1, <2>6, <3>1, <3>2, Rates
  <2> QED BY <1>3, <2>6, <2>7, <2>8, <2>9
<1>4. CASE t >= Long
  <2>1. ~(t < TwoBytes) /\ ~(t < Long)
    BY <1>1, <1>4, Rates
  <2>2. PICK q \in Nat : q = Half * (Half * (Half * Half))
    BY Rates
  <2>3. t - Tail9 \in Nat /\ t - Tail9 < q
    <3>1. Top + TwoBytes <= q
      BY <2>2, Rates
    <3> QED BY <1>1, <1>4, <2>2, <3>1, Rates
  <2> QED BY <1>1, <1>4, <2>1, <2>2, <2>3 DEF Interval
<1> QED BY <1>1, <1>2, <1>3, <1>4, Rates

LEMMA IntervalBytes ==
  ASSUME NEW t \in 1 .. Top - 1
  PROVE  /\ Interval(t) \in Seq(Nat) /\ Len(Interval(t)) > 0
         /\ t >= Long => Interval(t)[1] = Esc
<1>1. CASE t < TwoBytes /\ Interval(t) = <<t>>
  BY <1>1, Rates
<1>2. ASSUME NEW h \in 0 .. (Esc - 1) - TwoBytes, NEW r \in 0 .. Esc - 1,
             t = TwoBytes + h * Esc + r, Interval(t) = <<TwoBytes + h, 1 + r>>
      PROVE  Interval(t) \in Seq(Nat) /\ Len(Interval(t)) > 0 /\ ~(t >= Long)
  <2>1. TwoBytes + h \in Nat /\ 1 + r \in Nat
    BY Rates
  <2>2. PICK he \in Nat : he = h * Esc
    BY Rates
  <2>3. PICK k \in Nat : k = ((Esc - 1) - TwoBytes) - h
    BY Rates
  <2>4. PICK ke \in Nat : ke = k * Esc
    BY Rates
  <2>5. Long = TwoBytes + he + ke + Esc
    <3>1. Esc - TwoBytes = h + k + 1
      BY <2>3, Rates
    <3>2. (h + k + 1) * Esc = he + ke + Esc
      BY <2>2, <2>3, <2>4, Rates
    <3>3. Long = TwoBytes + (h + k + 1) * Esc
      BY <3>1, Zenon DEF Long
    <3>4. h + k + 1 \in Nat /\ TwoBytes \in Nat /\ Esc \in Nat
      BY <2>3, Rates
    <3>5. Long = TwoBytes + (he + ke + Esc)
      BY <3>2, <3>3, Zenon
    <3> QED BY <2>2, <2>4, <3>4, <3>5
  <2>6. Interval(t) \in Seq(Nat) /\ Len(Interval(t)) > 0
    <3>1. PICK u, v \in Nat : u = TwoBytes + h /\ v = 1 + r
      BY <2>1
    <3>2. Interval(t) = <<u, v>>
      BY <1>2, <3>1, Zenon
    <3> QED BY ONLY <3>1, <3>2
  <2>7. t < Long
    BY <1>2, <2>2, <2>4, <2>5, Rates
  <2>8. t \in Nat /\ Long \in Nat
    BY Rates
  <2> QED BY <2>6, <2>7, <2>8
<1>3. CASE /\ t - Tail9 \in Nat /\ t - Tail9 < Half * (Half * (Half * Half))
           /\ Interval(t) = <<Esc, SPACE>> \o N28(t - Tail9) \o <<Tail9>>
  <2> DEFINE w == Interval(t)
  <2>1. w \in Seq(Nat) /\ Len(w) = 7 /\ w[1] = Esc
    BY <1>3, LongIs
  <2> QED BY <2>1
<1> QED BY <1>1, <1>2, <1>3, IntervalIs, Rates

-----------------------------------------------------------------------------
(* The alternatives of the walk. *)

LEMMA ReadEnd ==
  ASSUME NEW b, NEW p, b[p.i] = 0
  PROVE  TokenRead(b, p) = [p EXCEPT !.terminated = TRUE, !.stop = TRUE]
<1> DEFINE c == b[p.i]
<1>1. /\ c = 0 /\ ~(0 < c /\ c < TwoBytes) /\ ~(c >= TwoBytes /\ p.i + 1 > Len(b))
      /\ ~(c \in TwoBytes .. Esc - 1 /\ p.i < Len(b)) /\ c # Esc
  BY Rates
<1> HIDE DEF c
<1> QED BY <1>1, Zenon DEF TokenRead, c

LEMMA ReadShort ==
  ASSUME NEW b, NEW p, b[p.i] \in 1 .. TwoBytes - 1
  PROVE  TokenRead(b, p) = Took(p, b[p.i], <<b[p.i]>>)
<1> DEFINE c == b[p.i]
<1>1. /\ c # 0 /\ 0 < c /\ c < TwoBytes /\ ~(c >= TwoBytes /\ p.i + 1 > Len(b))
      /\ ~(c \in TwoBytes .. Esc - 1 /\ p.i < Len(b)) /\ c # Esc
  BY Rates
<1> HIDE DEF c
<1> QED BY <1>1, Zenon DEF TokenRead, c

LEMMA ReadStub ==
  ASSUME NEW b \in Seq(Nat), NEW p, p.i = Len(b), b[p.i] \in Nat, b[p.i] >= TwoBytes
  PROVE  TokenRead(b, p) = Stops(p)
<1>1. /\ b[p.i] # 0 /\ ~(0 < b[p.i] /\ b[p.i] < TwoBytes) /\ p.i + 1 > Len(b)
      /\ ~(p.i < Len(b))
  BY Rates, LenProperties
<1> HIDE DEF Stops
<1> QED BY <1>1 DEF TokenRead

LEMMA ReadPair ==
  ASSUME NEW b \in Seq(Nat), NEW p, p.i \in Nat, p.i < Len(b), b[p.i] \in TwoBytes .. Esc - 1
  PROVE  TokenRead(b, p) = Took(p, TwoBytes + (b[p.i] - TwoBytes) * Esc + b[p.i + 1] - 1, <<b[p.i], b[p.i + 1]>>)
<1> DEFINE c == b[p.i]
<1>1. /\ c # 0 /\ ~(0 < c /\ c < TwoBytes) /\ ~(p.i + 1 > Len(b)) /\ c # Esc
      /\ c \in TwoBytes .. Esc - 1 /\ p.i < Len(b)
  BY Rates, LenProperties
<1> HIDE DEF c
<1>2. TokenRead(b, p) = Took(p, TwoBytes + (c - TwoBytes) * Esc + b[p.i + 1] - 1, <<c, b[p.i + 1]>>)
  BY <1>1, Zenon DEF TokenRead, c
<1> QED BY <1>2 DEF c

Escaped(b, p, op) == b[p.i] = Esc /\ p.i \in Nat /\ p.i < Len(b) /\ b[p.i + 1] = op

\* What the five cases of an opcode are.
OpcodeRead(b, p, op) ==
  CASE op \in {INDEX, SPACE} /\ p.i + 5 > Len(b) -> Stops(p)
    [] op = INDEX /\ p.i + 5 <= Len(b) ->
         [Skipped(p, 6) EXCEPT !.index = Append(@, p.t + p.pending + N28At(b, p.i + 2))]
    [] op = SPACE /\ p.i + 5 <= Len(b) -> SpaceRead(b, p)
    [] op \in Markers -> IF p.i + 2 > Len(b) THEN Stops(p) ELSE MarkerRead(b, p)
    [] OTHER -> [Stops(p) EXCEPT !.refused = TRUE]

LEMMA ReadEscaped ==
  ASSUME NEW b \in Seq(Nat), NEW p, NEW op, Escaped(b, p, op)
  PROVE  TokenRead(b, p) = OpcodeRead(b, p, op)
<1> DEFINE c == b[p.i]
<1>1. /\ c # 0 /\ ~(0 < c /\ c < TwoBytes) /\ ~(p.i + 1 > Len(b)) /\ c = Esc
      /\ ~(c \in TwoBytes .. Esc - 1) /\ p.i < Len(b) /\ b[p.i + 1] = op
  BY Rates, LenProperties DEF Escaped
<1> HIDE DEF c
<1>2. TokenRead(b, p) = OpcodeRead(b, p, b[p.i + 1])
  BY <1>1, Zenon DEF TokenRead, c, OpcodeRead
<1> QED BY <1>1, <1>2

LEMMA ReadCutOpcode ==
  ASSUME NEW b \in Seq(Nat), NEW p, NEW op \in {INDEX, SPACE}, Escaped(b, p, op), p.i + 5 > Len(b)
  PROVE  TokenRead(b, p) = Stops(p)
<1>1. ~(p.i + 5 <= Len(b)) /\ op \notin Markers
  BY LenProperties DEF Escaped, INDEX, SPACE, Markers, START, SEGMENT, EVENT, END
<1> QED BY <1>1, ReadEscaped DEF OpcodeRead

LEMMA ReadIndex ==
  ASSUME NEW b \in Seq(Nat), NEW p, Escaped(b, p, INDEX), p.i + 5 <= Len(b)
  PROVE  TokenRead(b, p) = [Skipped(p, 6) EXCEPT !.index = Append(@, p.t + p.pending + N28At(b, p.i + 2))]
<1>1. ~(p.i + 5 > Len(b)) /\ INDEX \notin Markers /\ INDEX # SPACE
  BY LenProperties DEF Escaped, INDEX, SPACE, Markers, START, SEGMENT, EVENT, END
<1>2. TokenRead(b, p) = OpcodeRead(b, p, INDEX)
  BY ReadEscaped
<1> QED BY ONLY <1>1, <1>2, p.i + 5 <= Len(b), Zenon DEF OpcodeRead

LEMMA ReadSpace ==
  ASSUME NEW b \in Seq(Nat), NEW p, Escaped(b, p, SPACE), p.i + 5 <= Len(b)
  PROVE  TokenRead(b, p) = SpaceRead(b, p)
<1>1. ~(p.i + 5 > Len(b)) /\ SPACE \notin Markers /\ INDEX # SPACE
  BY LenProperties DEF Escaped, INDEX, SPACE, Markers, START, SEGMENT, EVENT, END
<1>2. TokenRead(b, p) = OpcodeRead(b, p, SPACE)
  BY ReadEscaped
<1> QED BY ONLY <1>1, <1>2, p.i + 5 <= Len(b), Zenon DEF OpcodeRead

LEMMA ReadMarker ==
  ASSUME NEW b \in Seq(Nat), NEW p, NEW op \in Markers, Escaped(b, p, op)
  PROVE  TokenRead(b, p) = IF p.i + 2 > Len(b) THEN Stops(p) ELSE MarkerRead(b, p)
<1>1. op \notin {INDEX, SPACE} /\ op # INDEX /\ op # SPACE
  BY DEF Escaped, INDEX, SPACE, Markers, START, SEGMENT, EVENT, END
<1>2. TokenRead(b, p) = OpcodeRead(b, p, op)
  BY ReadEscaped
<1> QED BY ONLY <1>1, <1>2, op \in Markers, Zenon DEF OpcodeRead

-----------------------------------------------------------------------------
(* What was written is read. *)

LEMMA IntervalRead ==
  ASSUME NEW b \in Seq(Nat), NEW p, p.i \in Nat \ {0}, NEW t \in 1 .. Top - 1,
         Holds(b, p.i, Interval(t))
  PROVE  TokenRead(b, p) = Took(p, t, Interval(t))
<1> DEFINE w == Interval(t)
<1>1. CASE t < TwoBytes /\ w = <<t>>
  <2>1. t \in 1 .. TwoBytes - 1
    BY <1>1, Rates
  <2>2. b[p.i] = t
    <3>1. Len(w) = 1 /\ w[1] = t /\ 1 \in 1 .. Len(w) /\ p.i + 1 - 1 = p.i
      BY <1>1
    <3> HIDE DEF w
    <3>2. \A k \in 1 .. Len(w) : b[p.i + k - 1] = w[k]
      BY DEF Holds, w
    <3>3. b[p.i + 1 - 1] = w[1]
      BY <3>1, <3>2
    <3> QED BY <3>1, <3>3
  <2>3. TokenRead(b, p) = Took(p, b[p.i], <<b[p.i]>>)
    <3>1. b[p.i] \in 1 .. TwoBytes - 1
      BY <2>1, <2>2
    <3> QED BY <3>1, ReadShort
  <2> QED BY <1>1, <2>2, <2>3
<1>2. ASSUME NEW h \in 0 .. (Esc - 1) - TwoBytes, NEW r \in 0 .. Esc - 1,
             t = TwoBytes + h * Esc + r, w = <<TwoBytes + h, 1 + r>>
      PROVE  TokenRead(b, p) = Took(p, t, w)
  <2>1. b[p.i] = TwoBytes + h /\ b[p.i + 1] = 1 + r /\ p.i < Len(b)
    <3>1. Len(w) = 2 /\ w[1] = TwoBytes + h /\ w[2] = 1 + r
      BY <1>2
    <3>2. /\ 1 \in 1 .. Len(w) /\ 2 \in 1 .. Len(w) /\ p.i + 1 - 1 = p.i
          /\ p.i + 2 - 1 = p.i + 1 /\ p.i + Len(w) - 1 = p.i + 1
      BY <3>1
    <3> HIDE DEF w
    <3>3. p.i + Len(w) - 1 <= Len(b) /\ \A k \in 1 .. Len(w) : b[p.i + k - 1] = w[k]
      BY DEF Holds, w
    <3>4. b[p.i + 1 - 1] = w[1] /\ b[p.i + 2 - 1] = w[2]
      BY <3>2, <3>3
    <3>5. p.i < Len(b)
      BY <3>2, <3>3, LenProperties
    <3> QED BY <3>1, <3>2, <3>4, <3>5
  <2>2. b[p.i] \in TwoBytes .. Esc - 1
    BY <2>1, Rates
  <2>3. TokenRead(b, p) = Took(p, TwoBytes + (b[p.i] - TwoBytes) * Esc + b[p.i + 1] - 1, <<b[p.i], b[p.i + 1]>>)
    BY <2>1, <2>2, ReadPair
  <2>4. TwoBytes + (b[p.i] - TwoBytes) * Esc + b[p.i + 1] - 1 = t
    <3>1. b[p.i] - TwoBytes = h
      BY <2>1, Rates
    <3>2. PICK he \in Nat : he = h * Esc
      BY Rates
    <3>3. TwoBytes + he + b[p.i + 1] - 1 = t
      BY <1>2, <2>1, <3>2, Rates
    <3> QED BY <3>1, <3>2, <3>3
  <2> QED BY <1>2, <2>1, <2>3, <2>4
<1>3. CASE /\ t >= Long /\ t - Tail9 \in Nat /\ t - Tail9 < Half * (Half * (Half * Half))
           /\ w = <<Esc, SPACE>> \o N28(t - Tail9) \o <<Tail9>>
  <2> DEFINE x == t - Tail9
  <2>1. /\ w \in Seq(Nat) /\ Len(w) = 7 /\ w[1] = Esc /\ w[2] = SPACE /\ w[7] = Tail9
        /\ \A k \in 1 .. 4 : w[k + 2] = N28(x)[k]
    BY <1>3, LongIs
  <2> HIDE DEF w
  <2>2. p.i + 7 - 1 <= Len(b) /\ \A k \in 1 .. 7 : b[p.i + k - 1] = w[k]
    BY <2>1 DEF Holds, w
  <2>3. /\ p.i + 1 - 1 = p.i /\ p.i + 2 - 1 = p.i + 1 /\ p.i + 7 - 1 = p.i + 6
        /\ 1 \in 1 .. 7 /\ 2 \in 1 .. 7 /\ 7 \in 1 .. 7
        /\ \A k \in 1 .. 4 : k + 2 \in 1 .. 7 /\ p.i + (k + 2) - 1 = (p.i + 2) + k - 1
    OBVIOUS
  <2>4. b[p.i] = Esc /\ b[p.i + 1] = SPACE /\ b[p.i + 6] = Tail9
    <3>1. b[p.i + 1 - 1] = w[1] /\ b[p.i + 2 - 1] = w[2] /\ b[p.i + 7 - 1] = w[7]
      BY <2>2, <2>3
    <3> QED BY <2>1, <2>3, <3>1
  <2>5. p.i + 6 <= Len(b) /\ p.i + 5 <= Len(b) /\ p.i < Len(b)
    <3>1. Len(b) \in Nat /\ p.i \in Nat /\ p.i + 7 - 1 <= Len(b)
      BY <2>2, LenProperties
    <3> QED BY ONLY <3>1
  <2>6. Escaped(b, p, SPACE)
    BY <2>4, <2>5 DEF Escaped
  <2>7. TokenRead(b, p) = SpaceRead(b, p)
    BY <2>5, <2>6, ReadSpace
  <2>8. N28At(b, p.i + 2) = x
    <3>1. \A k \in 1 .. 4 : b[(p.i + 2) + k - 1] = N28(x)[k]
      <4> TAKE k \in 1 .. 4
      <4>1. b[p.i + (k + 2) - 1] = w[k + 2]
        BY <2>2, <2>3
      <4>2. w[k + 2] = N28(x)[k]
        BY <2>1
      <4> QED BY <2>3, <4>1, <4>2
    <3>2. p.i + 2 \in Nat /\ x \in Nat /\ x < Half * (Half * (Half * Half))
      BY <1>3
    <3> HIDE DEF x
    <3> QED BY <3>1, <3>2, N28Read
  <2>9. SubSeq(b, p.i, p.i + 6) = w
    <3>1. Holds(b, p.i, w) /\ p.i + 6 = p.i + Len(w) - 1
      BY <2>1 DEF w
    <3> QED BY <2>1, <3>1, HeldPart
  <2>10. x + Tail9 = t
    BY Rates
  <2>11. SpaceRead(b, p) = Took(p, N28At(b, p.i + 2) + Tail9, SubSeq(b, p.i, p.i + 6))
    BY <2>4, <2>5 DEF SpaceRead
  <2> HIDE DEF x
  <2> QED BY <2>7, <2>8, <2>9, <2>10, <2>11 DEF w
<1> QED BY <1>1, <1>2, <1>3, IntervalIs

\* What an opcode of six bytes shows of itself.
LEMMA OpcodeHeld ==
  ASSUME NEW b \in Seq(Nat), NEW p, p.i \in Nat \ {0}, NEW x \in Nat, x < Half * (Half * (Half * Half)),
         NEW op \in Nat, NEW w, w = <<Esc, op>> \o N28(x), Holds(b, p.i, w)
  PROVE  Escaped(b, p, op) /\ p.i + 5 <= Len(b) /\ N28At(b, p.i + 2) = x
<1>1. /\ w \in Seq(Nat) /\ Len(w) = 6 /\ w[1] = Esc /\ w[2] = op
      /\ \A k \in 1 .. 4 : w[k + 2] = N28(x)[k]
  <2>1. \A u : u = <<Esc, op>> \o N28(x) =>
          /\ u \in Seq(Nat) /\ Len(u) = 6 /\ u[1] = Esc /\ u[2] = op
          /\ \A k \in 1 .. 4 : u[k + 2] = N28(x)[k]
    BY OpcodeIs
  <2>2. w = <<Esc, op>> \o N28(x)
    OBVIOUS
  <2> QED BY ONLY <2>1, <2>2, Zenon
<1>2. p.i + 6 - 1 <= Len(b) /\ \A k \in 1 .. 6 : b[p.i + k - 1] = w[k]
  BY <1>1 DEF Holds
<1>3. /\ p.i + 1 - 1 = p.i /\ p.i + 2 - 1 = p.i + 1
      /\ 1 \in 1 .. 6 /\ 2 \in 1 .. 6
      /\ \A k \in 1 .. 4 : k + 2 \in 1 .. 6 /\ p.i + (k + 2) - 1 = (p.i + 2) + k - 1
  OBVIOUS
<1>4. b[p.i] = Esc /\ b[p.i + 1] = op
  <2>1. b[p.i + 1 - 1] = w[1] /\ b[p.i + 2 - 1] = w[2]
    BY <1>2, <1>3
  <2> QED BY <1>1, <1>3, <2>1
<1>5. p.i + 5 <= Len(b) /\ p.i < Len(b)
  BY <1>2, LenProperties
<1>6. N28At(b, p.i + 2) = x
  <2>1. \A k \in 1 .. 4 : b[(p.i + 2) + k - 1] = N28(x)[k]
    <3> TAKE k \in 1 .. 4
    <3>1. b[p.i + (k + 2) - 1] = w[k + 2]
      BY <1>2, <1>3
    <3>2. w[k + 2] = N28(x)[k]
      BY <1>1
    <3> QED BY <1>3, <3>1, <3>2
  <2>2. p.i + 2 \in Nat
    OBVIOUS
  <2> QED BY <2>1, <2>2, N28Read
<1> QED BY <1>4, <1>5, <1>6 DEF Escaped

-----------------------------------------------------------------------------
(* Markers. *)

Marked(p, code, payload) ==
  LET q == [Skipped(p, 3 + Len(payload)) EXCEPT
              !.markers = Append(@, [code |-> code, payload |-> payload, interval |-> Len(p.intervals)])]
  IN  IF code = END /\ Len(payload) >= 4 THEN [q EXCEPT !.end = payload] ELSE q

LEMMA MarkerIs ==
  ASSUME NEW code \in Nat, NEW payload \in Seq(Nat), NEW w, w = Marker(code, payload)
  PROVE  /\ w \in Seq(Nat) /\ Len(w) = 3 + Len(payload) /\ w[1] = Esc /\ w[2] = code /\ w[3] = Len(payload)
         /\ \A k \in 1 .. Len(payload) : w[3 + k] = payload[k]
<1> DEFINE a == <<Esc, code, Len(payload)>>
<1>1. Esc \in Nat /\ Len(payload) \in Nat
  BY Rates, LenProperties
<1>2. a \in Seq(Nat) /\ Len(a) = 3 /\ a[1] = Esc /\ a[2] = code /\ a[3] = Len(payload)
  BY <1>1
<1> HIDE DEF a
<1>3. w = a \o payload
  BY DEF Marker, a
<1>4. /\ a \o payload \in Seq(Nat) /\ Len(a \o payload) = Len(a) + Len(payload)
      /\ \A k \in 1 .. Len(a) : (a \o payload)[k] = a[k]
      /\ \A k \in 1 .. Len(payload) : (a \o payload)[Len(a) + k] = payload[k]
  BY <1>2, JoinedIs
<1>5. 1 \in 1 .. 3 /\ 2 \in 1 .. 3 /\ 3 \in 1 .. 3
  OBVIOUS
<1> QED BY ONLY <1>2, <1>3, <1>4, <1>5, Zenon

LEMMA MarkerHeld ==
  ASSUME NEW b \in Seq(Nat), NEW p, NEW i \in Nat \ {0}, p.i = i, NEW code \in Markers, NEW payload \in Seq(Nat),
         Holds(b, i, Marker(code, payload))
  PROVE  TokenRead(b, p) = Marked(p, code, payload)
<1> DEFINE w == Marker(code, payload)
           n == Len(payload)
<1>1. code \in Nat
  BY DEF Markers, START, SEGMENT, EVENT, END
<1>2. /\ w \in Seq(Nat) /\ Len(w) = 3 + n /\ w[1] = Esc /\ w[2] = code /\ w[3] = n
      /\ \A k \in 1 .. n : w[3 + k] = payload[k]
  BY <1>1, MarkerIs
<1> HIDE DEF w
<1>3. n \in Nat /\ Len(b) \in Nat
  BY LenProperties
<1>4. i + Len(w) - 1 <= Len(b) /\ \A k \in 1 .. Len(w) : b[i + k - 1] = w[k]
  BY DEF Holds, w
<1> HIDE DEF n
<1>5. /\ 1 \in 1 .. Len(w) /\ 2 \in 1 .. Len(w) /\ 3 \in 1 .. Len(w)
      /\ i + 1 - 1 = i /\ i + 2 - 1 = i + 1 /\ i + 3 - 1 = i + 2
      /\ i + 2 + n <= Len(b) /\ i < Len(b) /\ ~(i + 2 > Len(b))
      /\ \A k \in 1 .. n : 3 + k \in 1 .. Len(w) /\ i + (3 + k) - 1 = (i + 3) + k - 1
  <2>1. Len(w) = 3 + n /\ i + (3 + n) - 1 <= Len(b)
    BY <1>2, <1>4
  <2> QED BY ONLY <1>3, <2>1, i \in Nat \ {0}
<1>6. b[i] = Esc /\ b[i + 1] = code /\ b[i + 2] = n
  <2>1. b[i + 1 - 1] = w[1] /\ b[i + 2 - 1] = w[2] /\ b[i + 3 - 1] = w[3]
    BY <1>4, <1>5
  <2> QED BY <1>2, <1>5, <2>1
<1>7. Holds(b, i + 3, payload)
  <2>1. \A k \in 1 .. n : b[(i + 3) + k - 1] = payload[k]
    <3> TAKE k \in 1 .. n
    <3>1. b[i + (3 + k) - 1] = w[3 + k]
      BY <1>4, <1>5
    <3> QED BY <1>2, <1>5, <3>1
  <2>2. (i + 3) + n - 1 <= Len(b)
    BY <1>3, <1>5
  <2> QED BY <2>1, <2>2 DEF Holds, n
<1>8. SubSeq(b, i + 3, i + 2 + n) = payload
  <2>1. i + 2 + n = (i + 3) + n - 1 /\ i + 3 \in Nat \ {0}
    BY <1>3
  <2> HIDE DEF n
  <2>2. i + 2 + n = (i + 3) + Len(payload) - 1
    BY <2>1 DEF n
  <2> QED BY <1>7, <2>1, <2>2, HeldPart
<1>9. (IF i + 2 + n < Len(b) THEN i + 2 + n ELSE Len(b)) = i + 2 + n
  <2>1. PICK e \in Nat : e = i + 2 + n
    BY <1>3
  <2>2. e <= Len(b) /\ Len(b) \in Nat
    BY <1>3, <1>5, <2>1
  <2>3. (IF e < Len(b) THEN e ELSE Len(b)) = e
    BY ONLY <2>2, e \in Nat
  <2> QED BY <2>1, <2>3
<1>10. MarkerRead(b, p) = Marked(p, code, payload)
  <2>1. SubSeq(b, i + 3, IF i + 2 + n < Len(b) THEN i + 2 + n ELSE Len(b)) = payload
    BY <1>8, <1>9, Zenon
  <2> QED BY <1>6, <2>1, p.i = i, Zenon DEF MarkerRead, Marked, n
<1>11. TokenRead(b, p) = IF p.i + 2 > Len(b) THEN Stops(p) ELSE MarkerRead(b, p)
  <2>1. Escaped(b, p, code)
    BY <1>5, <1>6 DEF Escaped
  <2> QED BY <2>1, ReadMarker
<1> QED BY <1>5, <1>10, <1>11, p.i = i, Zenon

-----------------------------------------------------------------------------
(* The walk. *)

WalkIn(f, b, m) == f = [n \in 0 .. m |-> IF n = 0 THEN Nothing ELSE Walked(b, f[n - 1])]
Walk(b) == CHOOSE f : WalkIn(f, b, Len(b))

LEMMA ParsedIsWalk == ASSUME NEW b PROVE Parsed(b) = Walk(b)[Len(b)]
BY DEF Parsed, Walk, WalkIn

LEMMA WalkSteps ==
  ASSUME NEW f, NEW b, NEW m \in Nat, WalkIn(f, b, m)
  PROVE  f[0] = Nothing /\ \A n \in 0 .. m - 1 : f[n + 1] = Walked(b, f[n])
<1> DEFINE e(n) == IF n = 0 THEN Nothing ELSE Walked(b, f[n - 1])
<1>1. f = [n \in 0 .. m |-> e(n)]
  BY DEF WalkIn
<1>2. 0 \in 0 .. m /\ \A n \in 0 .. m - 1 : n + 1 \in 0 .. m /\ n + 1 # 0 /\ (n + 1) - 1 = n
  OBVIOUS
<1>3. \A n \in 0 .. m : f[n] = e(n)
  <2> HIDE DEF e
  <2> QED BY <1>1
<1> QED BY <1>2, <1>3

LEMMA WalkOnce ==
  ASSUME NEW f, NEW g, NEW b, NEW m \in Nat, WalkIn(f, b, m), WalkIn(g, b, m)
  PROVE  f[m] = g[m]
<1> DEFINE N == {n \in 0 .. m : f[n] = g[n]}
<1>1. f[0] = Nothing /\ \A n \in 0 .. m - 1 : f[n + 1] = Walked(b, f[n])
  BY WalkSteps
<1>2. g[0] = Nothing /\ \A n \in 0 .. m - 1 : g[n + 1] = Walked(b, g[n])
  BY WalkSteps
<1>3. 0 \in N
  BY <1>1, <1>2
<1>4. \A n \in 0 .. m - 1 : n \in N => n + 1 \in N
  <2> TAKE n \in 0 .. m - 1
  <2>1. n + 1 \in 0 .. m
    OBVIOUS
  <2> QED BY <1>1, <1>2, <2>1
<1>5. \A n \in 0 .. m : n \in N
  <2> HIDE DEF N
  <2> QED BY <1>3, <1>4, UpToInduction
<1> QED BY <1>5

LEMMA ParsedIs ==
  ASSUME NEW b \in Seq(Nat), NEW f, WalkIn(f, b, Len(b))
  PROVE  Parsed(b) = f[Len(b)]
<1>1. WalkIn(Walk(b), b, Len(b))
  BY DEF Walk
<1>2. Len(b) \in Nat
  BY LenProperties
<1>3. Walk(b)[Len(b)] = f[Len(b)]
  BY <1>1, <1>2, WalkOnce
<1> QED BY <1>3, ParsedIsWalk

\* One more step.
LEMMA WalkGrows ==
  ASSUME NEW f, NEW b, NEW k \in Nat, WalkIn(f, b, k)
  PROVE  \E g : WalkIn(g, b, k + 1) /\ g[k + 1] = Walked(b, f[k])
<1> DEFINE g == [n \in 0 .. k + 1 |-> IF n = k + 1 THEN Walked(b, f[k]) ELSE f[n]]
           e(n) == IF n = 0 THEN Nothing ELSE Walked(b, g[n - 1])
<1>1. f[0] = Nothing /\ \A n \in 0 .. k - 1 : f[n + 1] = Walked(b, f[n])
  BY WalkSteps
<1>2. g[k + 1] = Walked(b, f[k]) /\ \A n \in 0 .. k : g[n] = f[n]
  OBVIOUS
<1>3. g = [n \in 0 .. k + 1 |-> g[n]]
  OBVIOUS
<1> HIDE DEF g
<1>4. \A n \in 0 .. k + 1 : g[n] = e(n)
  <2> TAKE n \in 0 .. k + 1
  <2>1. CASE n = 0
    <3>1. 0 \in 0 .. k
      OBVIOUS
    <3> QED BY <1>1, <1>2, <2>1, <3>1
  <2>2. CASE n = k + 1
    <3>1. n # 0 /\ n - 1 = k /\ k \in 0 .. k
      BY <2>2
    <3> QED BY <1>2, <2>2, <3>1
  <2>3. CASE n \in 1 .. k
    <3>1. n # 0 /\ n - 1 \in 0 .. k - 1 /\ n - 1 \in 0 .. k /\ (n - 1) + 1 = n /\ n \in 0 .. k
      BY <2>3
    <3>2. f[n] = Walked(b, f[n - 1])
      BY <1>1, <3>1
    <3> QED BY <1>2, <3>1, <3>2
  <2> QED BY <2>1, <2>2, <2>3
<1>5. g = [n \in 0 .. k + 1 |-> e(n)]
  <2> HIDE DEF e
  <2> QED BY <1>3, <1>4
<1>6. WalkIn(g, b, k + 1)
  BY <1>5 DEF WalkIn
<1> QED BY <1>2, <1>6

\* A walk that has stopped stays.
LEMMA WalkStays ==
  ASSUME NEW f, NEW b, NEW k \in Nat, NEW m \in Nat, k <= m, WalkIn(f, b, k), Walked(b, f[k]) = f[k]
  PROVE  \E g : WalkIn(g, b, m) /\ g[m] = f[k]
<1> DEFINE q == f[k]
           g == [n \in 0 .. m |-> IF n <= k THEN f[n] ELSE q]
           e(n) == IF n = 0 THEN Nothing ELSE Walked(b, g[n - 1])
<1>1. f[0] = Nothing /\ \A n \in 0 .. k - 1 : f[n + 1] = Walked(b, f[n])
  BY WalkSteps
<1> HIDE DEF q
<1>2. (\A n \in 0 .. k : g[n] = f[n]) /\ \A n \in k .. m : g[n] = q
  BY DEF q
<1>3. g = [n \in 0 .. m |-> g[n]]
  OBVIOUS
<1>4. Walked(b, q) = q
  BY DEF q
<1> HIDE DEF g
<1>5. \A n \in 0 .. m : g[n] = e(n)
  <2> TAKE n \in 0 .. m
  <2>1. CASE n = 0
    <3>1. 0 \in 0 .. k
      OBVIOUS
    <3> QED BY <1>1, <1>2, <2>1, <3>1
  <2>2. CASE n > k
    <3>1. n # 0 /\ n - 1 \in k .. m /\ n \in k .. m
      BY <2>2
    <3> QED BY <1>2, <1>4, <2>2, <3>1
  <2>3. CASE n \in 1 .. k
    <3>1. n # 0 /\ n - 1 \in 0 .. k - 1 /\ n - 1 \in 0 .. k /\ (n - 1) + 1 = n /\ n \in 0 .. k
      BY <2>3
    <3>2. f[n] = Walked(b, f[n - 1])
      BY <1>1, <3>1
    <3> QED BY <1>2, <3>1, <3>2
  <2> QED BY <2>1, <2>2, <2>3
<1>6. g = [n \in 0 .. m |-> e(n)]
  <2> HIDE DEF e
  <2> QED BY <1>3, <1>5
<1>7. WalkIn(g, b, m)
  BY <1>6 DEF WalkIn
<1>8. g[m] = q
  BY <1>2
<1> QED BY <1>7, <1>8 DEF q

Finished(b, p) == p.stop \/ p.i > Len(b)

LEMMA ParsedFrom ==
  ASSUME NEW b \in Seq(Nat), NEW f, NEW k \in Nat, k <= Len(b), WalkIn(f, b, k), Finished(b, f[k])
  PROVE  Parsed(b) = f[k]
<1>1. Walked(b, f[k]) = f[k]
  BY DEF Finished, Walked
<1>2. Len(b) \in Nat
  BY LenProperties
<1>3. PICK g : WalkIn(g, b, Len(b)) /\ g[Len(b)] = f[k]
  BY <1>1, <1>2, WalkStays
<1> QED BY <1>3, ParsedIs

-----------------------------------------------------------------------------
(* The beginning of a stream is read alike, whatever follows it; only dead   *)
(* time must not be followed by the byte that ends a long interval.         *)

Begins(a, b) == Len(a) <= Len(b) /\ \A j \in 1 .. Len(a) : b[j] = a[j]
Loose(b, p) == p.pending > 0 /\ p.i <= Len(b) => b[p.i] # Tail9
Walks(b, m, p) == \E k \in 0 .. m : \E f : WalkIn(f, b, k) /\ f[k] = p

ReadsOn(a, p) ==
  /\ p \in PState /\ p.i = Len(a) + 1 /\ ~p.stop
  /\ \A b \in Seq(Nat) : Begins(a, b) /\ Loose(b, p) => Walks(b, Len(a), p)

LEMMA BeginsJoined ==
  ASSUME NEW a \in Seq(Nat), NEW w \in Seq(Nat), NEW b \in Seq(Nat), Begins(a \o w, b)
  PROVE  Begins(a, b) /\ Holds(b, Len(a) + 1, w)
<1> DEFINE c == a \o w
           n == Len(a)
           m == Len(w)
<1>1. n \in Nat /\ m \in Nat /\ Len(b) \in Nat
  BY LenProperties
<1>2. Len(c) = n + m /\ (\A k \in 1 .. n : c[k] = a[k]) /\ \A k \in 1 .. m : c[n + k] = w[k]
  BY JoinedIs
<1> HIDE DEF c
<1>3. Len(c) <= Len(b) /\ \A j \in 1 .. Len(c) : b[j] = c[j]
  BY DEF Begins, c
<1> HIDE DEF n, m
<1>4. n <= Len(b) /\ \A k \in 1 .. n : b[k] = a[k]
  <2>1. n <= Len(b) /\ \A k \in 1 .. n : k \in 1 .. Len(c)
    BY <1>1, <1>2, <1>3
  <2> QED BY <1>2, <1>3, <2>1
<1>5. (n + 1) + m - 1 <= Len(b) /\ \A k \in 1 .. m : b[(n + 1) + k - 1] = w[k]
  <2>1. (n + 1) + m - 1 <= Len(b)
    BY <1>1, <1>2, <1>3
  <2>2. \A k \in 1 .. m : n + k \in 1 .. Len(c) /\ (n + 1) + k - 1 = n + k
    BY <1>1, <1>2
  <2> QED BY <1>2, <1>3, <2>1, <2>2
<1> QED BY <1>4, <1>5 DEF Begins, Holds, n, m

\* One more token that is read.
LEMMA ReadsMore ==
  ASSUME NEW a \in Seq(Nat), NEW p, ReadsOn(a, p), NEW w \in Seq(Nat), Len(w) > 0,
         p.pending > 0 => w[1] # Tail9,
         NEW q \in PState, q.i = p.i + Len(w), ~q.stop,
         \A b \in Seq(Nat) : Holds(b, p.i, w) /\ Loose(b, q) => TokenRead(b, p) = q
  PROVE  ReadsOn(a \o w, q)
<1>1. p \in PState /\ p.i = Len(a) + 1 /\ ~p.stop
  BY DEF ReadsOn
<1>2. Len(a) \in Nat /\ Len(w) \in Nat /\ a \o w \in Seq(Nat) /\ Len(a \o w) = Len(a) + Len(w)
  BY LenProperties, JoinedIs
<1>3. q.i = Len(a \o w) + 1
  BY <1>1, <1>2
<1>4. ASSUME NEW b \in Seq(Nat), Begins(a \o w, b), Loose(b, q)
      PROVE  Walks(b, Len(a \o w), q)
  <2>1. Begins(a, b) /\ Holds(b, p.i, w)
    BY <1>1, <1>4, BeginsJoined
  <2>2. p.i <= Len(b) /\ b[p.i] = w[1]
    <3>1. 1 \in 1 .. Len(w) /\ p.i + 1 - 1 = p.i /\ p.i + Len(w) - 1 <= Len(b) /\ Len(b) \in Nat
      BY <1>1, <1>2, <2>1, LenProperties DEF Holds
    <3>2. b[p.i + 1 - 1] = w[1]
      BY <2>1, <3>1 DEF Holds
    <3> QED BY <1>1, <1>2, <3>1, <3>2
  <2>3. Loose(b, p)
    BY <2>2 DEF Loose
  <2>4. PICK k \in 0 .. Len(a) : \E f : WalkIn(f, b, k) /\ f[k] = p
    BY <2>1, <2>3 DEF ReadsOn, Walks
  <2> PICK f : WalkIn(f, b, k) /\ f[k] = p
    BY <2>4
  <2>5. k \in Nat /\ k + 1 \in 0 .. Len(a \o w)
    BY <1>2
  <2>6. PICK g : WalkIn(g, b, k + 1) /\ g[k + 1] = Walked(b, p)
    BY <2>4, <2>5, WalkGrows
  <2>7. Walked(b, p) = q
    <3>1. ~(p.i > Len(b))
      BY <1>1, <1>2, <2>2, LenProperties
    <3>2. TokenRead(b, p) = q
      BY <1>4, <2>1
    <3> QED BY <1>1, <3>1, <3>2 DEF Walked
  <2> QED BY <2>5, <2>6, <2>7 DEF Walks
<1> QED BY <1>3, <1>4 DEF ReadsOn

LEMMA ReadsAll == ASSUME NEW a \in Seq(Nat), NEW p, ReadsOn(a, p) PROVE Parsed(a) = p
<1>1. Len(a) \in Nat /\ p.i = Len(a) + 1
  BY LenProperties DEF ReadsOn
<1>2. Begins(a, a) /\ Loose(a, p) /\ Finished(a, p)
  BY <1>1 DEF Begins, Loose, Finished
<1>3. PICK k \in 0 .. Len(a) : \E f : WalkIn(f, a, k) /\ f[k] = p
  BY <1>2 DEF ReadsOn, Walks
<1> PICK f : WalkIn(f, a, k) /\ f[k] = p
  BY <1>3
<1> QED BY <1>1, <1>2, ParsedFrom

\* One last token, whole or cut.
LEMMA ReadsLast ==
  ASSUME NEW a \in Seq(Nat), NEW p, ReadsOn(a, p), NEW b \in Seq(Nat), Begins(a, b), Loose(b, p),
         Len(a) < Len(b), Finished(b, TokenRead(b, p))
  PROVE  Parsed(b) = TokenRead(b, p)
<1>1. Len(a) \in Nat /\ Len(b) \in Nat /\ p.i = Len(a) + 1 /\ ~p.stop
  BY LenProperties DEF ReadsOn
<1>2. PICK k \in 0 .. Len(a) : \E f : WalkIn(f, b, k) /\ f[k] = p
  BY DEF ReadsOn, Walks
<1> PICK f : WalkIn(f, b, k) /\ f[k] = p
  BY <1>2
<1>3. k \in Nat /\ k + 1 \in Nat /\ k + 1 <= Len(b)
  BY <1>1
<1>4. PICK g : WalkIn(g, b, k + 1) /\ g[k + 1] = Walked(b, p)
  BY <1>2, <1>3, WalkGrows
<1>5. Walked(b, p) = TokenRead(b, p)
  BY <1>1 DEF Walked
<1> QED BY <1>3, <1>4, <1>5, ParsedFrom

-----------------------------------------------------------------------------
(* What a stream adds up to: times, markers, and the bytes that are data. *)

LEMMA SubSeqOfAppend ==
  ASSUME NEW s \in Seq(Nat), NEW x \in Nat, NEW k \in 0 .. Len(s)
  PROVE  SubSeq(Append(s, x), 1, k) = SubSeq(s, 1, k)
<1> DEFINE r == Append(s, x)
           n == Len(s)
<1>1. r \in Seq(Nat) /\ Len(r) = n + 1 /\ n \in Nat /\ \A i \in 1 .. n : r[i] = s[i]
  OBVIOUS
<1> HIDE DEF r
<1>2. /\ SubSeq(r, 1, k) \in Seq(Nat) /\ Len(SubSeq(r, 1, k)) = k
      /\ \A i \in 1 .. k : SubSeq(r, 1, k)[i] = r[i]
  BY <1>1
<1>3. /\ SubSeq(s, 1, k) \in Seq(Nat) /\ Len(SubSeq(s, 1, k)) = k
      /\ \A i \in 1 .. k : SubSeq(s, 1, k)[i] = s[i]
  BY <1>1
<1>4. \A i \in 1 .. k : i \in 1 .. n
  BY <1>1
<1>5. SubSeq(r, 1, k) = SubSeq(s, 1, k)
  BY <1>1, <1>2, <1>3, <1>4, SeqEqual
<1> QED BY <1>5 DEF r

LEMMA SubSeqAll ==
  ASSUME NEW s \in Seq(Nat), NEW n, n = Len(s)
  PROVE  SubSeq(s, 1, n) = s
BY SubSeqFull

LEMMA TimesIs ==
  ASSUME NEW s \in Seq(Nat)
  PROVE  /\ Times(s) \in Seq(Nat) /\ Len(Times(s)) = Len(s)
         /\ \A k \in 1 .. Len(s) : Times(s)[k] = Sum(SubSeq(s, 1, k))
<1>1. Len(s) \in Nat /\ DOMAIN s = 1 .. Len(s)
  BY LenProperties
<1>2. \A k \in 1 .. Len(s) : SubSeq(s, 1, k) \in Seq(Nat)
  OBVIOUS
<1>3. \A k \in 1 .. Len(s) : Sum(SubSeq(s, 1, k)) \in Nat
  BY <1>2, SumNat
<1> DEFINE e(k) == Sum(SubSeq(s, 1, k))
<1>4. Times(s) = [k \in 1 .. Len(s) |-> e(k)]
  BY <1>1 DEF Times
<1> HIDE DEF e
<1>5. Times(s) \in [1 .. Len(s) -> Nat]
  BY <1>3, <1>4 DEF e
<1>6. Times(s) \in Seq(Nat) /\ Len(Times(s)) = Len(s)
  BY <1>1, <1>5
<1> QED BY <1>4, <1>6 DEF e

LEMMA TimesEmpty == Times(<<>>) = <<>>
<1>1. <<>> \in Seq(Nat) /\ Len(<<>>) = 0
  OBVIOUS
<1>2. Times(<<>>) \in Seq(Nat) /\ Len(Times(<<>>)) = 0
  BY <1>1, TimesIs
<1> QED BY <1>2, EmptySeq

LEMMA TimesAppend ==
  ASSUME NEW s \in Seq(Nat), NEW x \in Nat
  PROVE  Times(Append(s, x)) = Append(Times(s), Sum(s) + x)
<1> DEFINE r == Append(s, x)
           n == Len(s)
           y == Sum(s) + x
           u == Append(Times(s), y)
<1>1. r \in Seq(Nat) /\ Len(r) = n + 1 /\ n \in Nat
  OBVIOUS
<1>2. y \in Nat /\ Sum(r) = y
  BY SumNat, SumAppend
<1>3. /\ Times(s) \in Seq(Nat) /\ Len(Times(s)) = n
      /\ \A k \in 1 .. n : Times(s)[k] = Sum(SubSeq(s, 1, k))
  BY TimesIs
<1>4. /\ Times(r) \in Seq(Nat) /\ Len(Times(r)) = n + 1
      /\ \A k \in 1 .. n + 1 : Times(r)[k] = Sum(SubSeq(r, 1, k))
  <2> HIDE DEF r
  <2> QED BY <1>1, TimesIs
<1>5. \A k \in 1 .. n : SubSeq(r, 1, k) = SubSeq(s, 1, k)
  BY SubSeqOfAppend
<1>6. SubSeq(r, 1, n + 1) = r
  <2> HIDE DEF r
  <2> QED BY <1>1, SubSeqAll
<1> HIDE DEF y, r
<1>7. u \in Seq(Nat) /\ Len(u) = n + 1 /\ u[n + 1] = y /\ \A k \in 1 .. n : u[k] = Times(s)[k]
  BY <1>2, <1>3
<1> HIDE DEF u
<1>8. \A k \in 1 .. n + 1 : Times(r)[k] = u[k]
  <2> TAKE k \in 1 .. n + 1
  <2>1. CASE k \in 1 .. n
    BY <1>3, <1>4, <1>5, <1>7, <2>1
  <2>2. CASE k = n + 1
    BY <1>2, <1>4, <1>6, <1>7, <2>2
  <2> QED BY <1>1, <2>1, <2>2
<1>9. Times(r) = u
  BY <1>4, <1>7, <1>8, SeqEqual
<1> QED BY <1>9 DEF r, u, y

SegmentMarks(ms) == {k \in DOMAIN ms : ms[k].code = SEGMENT}

LEMMA SegmentsAppend ==
  ASSUME NEW ms \in Seq(MarkerInfo), NEW x \in MarkerInfo
  PROVE  /\ IsFiniteSet(SegmentMarks(ms)) /\ Cardinality(SegmentMarks(ms)) \in Nat
         /\ Cardinality(SegmentMarks(Append(ms, x))) =
              Cardinality(SegmentMarks(ms)) + (IF x.code = SEGMENT THEN 1 ELSE 0)
<1> DEFINE n == Len(ms)
           r == Append(ms, x)
<1>1. n \in Nat /\ DOMAIN ms = 1 .. n
  BY LenProperties
<1>2. r \in Seq(MarkerInfo) /\ Len(r) = n + 1 /\ r[n + 1] = x /\ \A k \in 1 .. n : r[k] = ms[k]
  OBVIOUS
<1> HIDE DEF r
<1>3. DOMAIN r = 1 .. n + 1
  BY <1>2, LenProperties
<1>4. IsFiniteSet(SegmentMarks(ms)) /\ Cardinality(SegmentMarks(ms)) \in Nat
  <2>1. IsFiniteSet(1 .. n)
    BY <1>1, FS_Interval
  <2>2. SegmentMarks(ms) \subseteq 1 .. n
    BY <1>1 DEF SegmentMarks
  <2> QED BY <2>1, <2>2, FS_Subset, FS_CardinalityType
<1>5. SegmentMarks(r) = IF x.code = SEGMENT THEN SegmentMarks(ms) \cup {n + 1} ELSE SegmentMarks(ms)
  <2>1. \A k : k \in 1 .. n + 1 <=> (k \in 1 .. n \/ k = n + 1)
    BY <1>1
  <2>2. \A k : k \in SegmentMarks(r) <=> (k \in 1 .. n + 1 /\ r[k].code = SEGMENT)
    BY <1>3 DEF SegmentMarks
  <2>3. \A k : k \in SegmentMarks(ms) <=> (k \in 1 .. n /\ ms[k].code = SEGMENT)
    BY <1>1 DEF SegmentMarks
  <2> HIDE DEF n
  <2> QED BY <1>2, <2>1, <2>2, <2>3
<1>6. n + 1 \notin SegmentMarks(ms)
  BY <1>1 DEF SegmentMarks
<1>7. Cardinality(SegmentMarks(ms) \cup {n + 1}) = Cardinality(SegmentMarks(ms)) + 1
  BY <1>4, <1>6, FS_AddElement
<1>8. CASE x.code = SEGMENT
  BY <1>4, <1>5, <1>7, <1>8 DEF r
<1>9. CASE x.code # SEGMENT
  BY <1>4, <1>5, <1>9 DEF r
<1> QED BY <1>4, <1>8, <1>9

-----------------------------------------------------------------------------
(* flux_data_only() of the first m bytes. *)

DataIn(f, b, skips, m) ==
  f = [n \in 0 .. m |-> IF n = 0 THEN <<>> ELSE IF n \in skips THEN f[n - 1] ELSE Append(f[n - 1], b[n])]
Data(b, skips, m) == CHOOSE f : DataIn(f, b, skips, m)

DataStep(b, skips, s, n) == IF n \in skips THEN s ELSE Append(s, b[n])

LEMMA DataSteps ==
  ASSUME NEW f, NEW b, NEW skips, NEW m \in Nat
  PROVE  DataIn(f, b, skips, m) <=>
           /\ f = [n \in 0 .. m |-> f[n]] /\ f[0] = <<>>
           /\ \A n \in 1 .. m : f[n] = DataStep(b, skips, f[n - 1], n)
<1> DEFINE e(n) == IF n = 0 THEN <<>> ELSE IF n \in skips THEN f[n - 1] ELSE Append(f[n - 1], b[n])
<1>1. (\A n \in 1 .. m : n \in 0 .. m /\ n # 0) /\ 0 \in 0 .. m /\ \A n \in 0 .. m : n = 0 \/ n \in 1 .. m
  OBVIOUS
<1>2. \A n \in 1 .. m : e(n) = DataStep(b, skips, f[n - 1], n)
  BY <1>1 DEF DataStep
<1>3. e(0) = <<>>
  OBVIOUS
<1>4. DataIn(f, b, skips, m) <=> f = [n \in 0 .. m |-> e(n)]
  BY DEF DataIn
<1> HIDE DEF e
<1>5. ASSUME f = [n \in 0 .. m |-> e(n)]
      PROVE  f = [n \in 0 .. m |-> f[n]] /\ \A n \in 0 .. m : f[n] = e(n)
  BY <1>5
<1>6. ASSUME f = [n \in 0 .. m |-> f[n]], \A n \in 0 .. m : f[n] = e(n)
      PROVE  f = [n \in 0 .. m |-> e(n)]
  BY <1>6
<1>7. (\A n \in 0 .. m : f[n] = e(n)) <=> (f[0] = e(0) /\ \A n \in 1 .. m : f[n] = e(n))
  BY <1>1
<1> QED BY <1>2, <1>3, <1>4, <1>5, <1>6, <1>7

LEMMA DataOnce ==
  ASSUME NEW f, NEW g, NEW b, NEW skips, NEW m \in Nat, DataIn(f, b, skips, m), DataIn(g, b, skips, m)
  PROVE  f[m] = g[m]
<1> DEFINE N == {n \in 0 .. m : f[n] = g[n]}
<1>1. f[0] = <<>> /\ \A n \in 1 .. m : f[n] = DataStep(b, skips, f[n - 1], n)
  BY DataSteps
<1>2. g[0] = <<>> /\ \A n \in 1 .. m : g[n] = DataStep(b, skips, g[n - 1], n)
  BY DataSteps
<1>3. 0 \in N
  BY <1>1, <1>2
<1>4. \A n \in 0 .. m - 1 : n \in N => n + 1 \in N
  <2> TAKE n \in 0 .. m - 1
  <2>1. n + 1 \in 0 .. m /\ n + 1 \in 1 .. m /\ (n + 1) - 1 = n
    OBVIOUS
  <2>2. f[n + 1] = DataStep(b, skips, f[n], n + 1) /\ g[n + 1] = DataStep(b, skips, g[n], n + 1)
    BY <1>1, <1>2, <2>1
  <2> QED BY <2>1, <2>2
<1>5. \A n \in 0 .. m : n \in N
  <2> HIDE DEF N
  <2> QED BY <1>3, <1>4, UpToInduction
<1> QED BY <1>5

\* The data of the stream a, as p accounts for it.
Keeps(a, p) ==
  /\ p.skips \subseteq 1 .. Len(a)
  /\ \E f : /\ DataIn(f, a, p.skips, Len(a))
            /\ f[Len(a)] \in Seq(Nat) /\ Len(f[Len(a)]) = p.bytes /\ Sum(f[Len(a)]) = p.sum

\* A token w, kept or skipped, that takes the data from h[0] to h[Len(w)].
AgreeTo(more, skips, m) == \A n \in 1 .. m : n \in more <=> n \in skips
GrowsBy(h, a, w, more) ==
  \A k \in 1 .. Len(w) : h[k] = IF Len(a) + k \in more THEN h[k - 1] ELSE Append(h[k - 1], w[k])

LEMMA DataGrows ==
  ASSUME NEW a \in Seq(Nat), NEW w \in Seq(Nat), NEW skips, NEW more, NEW f, DataIn(f, a, skips, Len(a)),
         AgreeTo(more, skips, Len(a)), NEW h, h[0] = f[Len(a)], GrowsBy(h, a, w, more)
  PROVE  \E g : DataIn(g, a \o w, more, Len(a \o w)) /\ g[Len(a \o w)] = h[Len(w)]
<1> DEFINE c == a \o w
           n == Len(a)
           m == Len(w)
           g == [j \in 0 .. n + m |-> IF j <= n THEN f[j] ELSE h[j - n]]
<1>1. n \in Nat /\ m \in Nat
  BY LenProperties
<1>2. Len(c) = n + m /\ (\A k \in 1 .. n : c[k] = a[k]) /\ \A k \in 1 .. m : c[n + k] = w[k]
  BY JoinedIs
<1> HIDE DEF c
<1>3. f[0] = <<>> /\ \A j \in 1 .. n : f[j] = DataStep(a, skips, f[j - 1], j)
  BY <1>1, DataSteps
<1>4. /\ \A j \in 1 .. n : j \in more <=> j \in skips
      /\ h[0] = f[n]
      /\ \A k \in 1 .. m : h[k] = IF n + k \in more THEN h[k - 1] ELSE Append(h[k - 1], w[k])
  BY DEF AgreeTo, GrowsBy
<1> HIDE DEF n, m
<1>5. /\ g = [j \in 0 .. n + m |-> g[j]]
      /\ \A j \in 0 .. n : g[j] = f[j]
      /\ \A k \in 0 .. m : g[n + k] = h[k]
  <2>1. \A j \in 0 .. n : j \in 0 .. n + m /\ j <= n
    BY <1>1
  <2>2. \A k \in 1 .. m : n + k \in 0 .. n + m /\ ~(n + k <= n) /\ (n + k) - n = k
    BY <1>1
  <2>3. \A k \in 0 .. m : k = 0 \/ k \in 1 .. m
    BY <1>1
  <2>4. n + 0 = n /\ n \in 0 .. n
    BY <1>1
  <2> QED BY <1>4, <2>1, <2>2, <2>3, <2>4
<1> HIDE DEF g
<1>6. \A j \in 1 .. n + m : g[j] = DataStep(c, more, g[j - 1], j)
  <2> TAKE j \in 1 .. n + m
  <2>1. CASE j <= n
    <3>1. j \in 1 .. n /\ j \in 0 .. n /\ j - 1 \in 0 .. n
      BY <1>1, <2>1
    <3>2. g[j] = DataStep(a, skips, g[j - 1], j) /\ c[j] = a[j]
      BY <1>2, <1>3, <1>5, <3>1
    <3> QED BY <1>4, <3>1, <3>2 DEF DataStep
  <2>2. CASE j > n
    <3>1. PICK k \in 1 .. m : k = j - n
      BY <1>1, <2>2
    <3>2. j = n + k /\ k \in 0 .. m /\ k - 1 \in 0 .. m /\ n + (k - 1) = j - 1
      BY <1>1, <3>1
    <3>3. g[j] = h[k] /\ g[j - 1] = h[k - 1] /\ c[j] = w[k]
      BY <1>2, <1>5, <3>2
    <3> QED BY <1>4, <3>2, <3>3 DEF DataStep
  <2> QED BY <1>1, <2>1, <2>2
<1>7. g[0] = <<>>
  <2>1. 0 \in 0 .. n
    BY <1>1
  <2> QED BY <1>3, <1>5, <2>1
<1>8. DataIn(g, c, more, n + m)
  <2>1. n + m \in Nat
    BY <1>1
  <2> QED BY ONLY <1>5, <1>6, <1>7, <2>1, DataSteps, Zenon
<1>9. g[n + m] = h[m]
  <2>1. m \in 0 .. m
    BY <1>1
  <2> QED BY <1>5, <2>1
<1> QED BY <1>2, <1>8, <1>9 DEF c, m

LEMMA KeepsSkipped ==
  ASSUME NEW a \in Seq(Nat), NEW w \in Seq(Nat), NEW p, NEW q, Keeps(a, p),
         q.skips = p.skips \cup (Len(a) + 1 .. Len(a) + Len(w)), q.bytes = p.bytes, q.sum = p.sum
  PROVE  Keeps(a \o w, q)
<1>1. Len(a) \in Nat /\ Len(w) \in Nat /\ Len(a \o w) = Len(a) + Len(w)
  BY LenProperties, JoinedIs
<1>2. PICK f : /\ DataIn(f, a, p.skips, Len(a))
               /\ f[Len(a)] \in Seq(Nat) /\ Len(f[Len(a)]) = p.bytes /\ Sum(f[Len(a)]) = p.sum
  BY DEF Keeps
<1> DEFINE h == [k \in 0 .. Len(w) |-> f[Len(a)]]
<1>3. \A n \in 1 .. Len(a) : n \in q.skips <=> n \in p.skips
  BY <1>1
<1>4. h[0] = f[Len(a)] /\ h[Len(w)] = f[Len(a)]
  BY <1>1
<1>5. \A k \in 1 .. Len(w) : h[k] = IF Len(a) + k \in q.skips THEN h[k - 1] ELSE Append(h[k - 1], w[k])
  <2>1. \A k \in 1 .. Len(w) : Len(a) + k \in q.skips
    BY <1>1
  <2>2. \A k \in 1 .. Len(w) : h[k] = h[k - 1]
    BY <1>1
  <2> QED BY <2>1, <2>2
<1> HIDE DEF h
<1>6. PICK g : DataIn(g, a \o w, q.skips, Len(a \o w)) /\ g[Len(a \o w)] = h[Len(w)]
  <2>1. AgreeTo(q.skips, p.skips, Len(a)) /\ GrowsBy(h, a, w, q.skips)
    BY <1>3, <1>5 DEF AgreeTo, GrowsBy
  <2> QED BY <1>2, <1>4, <2>1, DataGrows
<1>7. q.skips \subseteq 1 .. Len(a \o w)
  BY <1>1 DEF Keeps
<1> QED BY <1>2, <1>4, <1>6, <1>7 DEF Keeps

LEMMA JoinsAssociate ==
  ASSUME NEW s \in Seq(Nat), NEW t \in Seq(Nat), NEW u \in Seq(Nat)
  PROVE  (s \o t) \o u = s \o (t \o u)
BY ConcatAssociative

LEMMA KeepsData ==
  ASSUME NEW a \in Seq(Nat), NEW w \in Seq(Nat), NEW p, NEW q, Keeps(a, p),
         q.skips = p.skips, q.bytes = p.bytes + Len(w), q.sum = p.sum + Sum(w)
  PROVE  Keeps(a \o w, q)
<1>1. Len(a) \in Nat /\ Len(w) \in Nat /\ Len(a \o w) = Len(a) + Len(w)
  BY LenProperties, JoinedIs
<1>2. PICK f : /\ DataIn(f, a, p.skips, Len(a))
               /\ f[Len(a)] \in Seq(Nat) /\ Len(f[Len(a)]) = p.bytes /\ Sum(f[Len(a)]) = p.sum
  BY DEF Keeps
<1> DEFINE s == f[Len(a)]
           h == [k \in 0 .. Len(w) |-> s \o SubSeq(w, 1, k)]
<1>3. s \in Seq(Nat) /\ Len(s) = p.bytes /\ Sum(s) = p.sum
  BY <1>2
<1> HIDE DEF s
<1>4. h[0] = s /\ h[Len(w)] = s \o w
  <2>1. SubSeq(w, 1, 0) = <<>>
    BY SubSeqEmpty
  <2>2. SubSeq(w, 1, Len(w)) = w
    BY SubSeqFull
  <2>3. s \o <<>> = s
    BY <1>3, ConcatEmptySeq
  <2>4. h[0] = s \o SubSeq(w, 1, 0) /\ h[Len(w)] = s \o SubSeq(w, 1, Len(w))
    BY <1>1
  <2> QED BY <2>1, <2>2, <2>3, <2>4
<1>5. \A k \in 1 .. Len(w) : Len(a) + k \notin q.skips
  BY <1>1 DEF Keeps
<1>6. \A k \in 1 .. Len(w) : h[k] = Append(h[k - 1], w[k])
  <2> TAKE k \in 1 .. Len(w)
  <2>1. k \in 0 .. Len(w) /\ k - 1 \in 0 .. Len(w) /\ w[k] \in Nat
    BY <1>1, ElementOfSeq
  <2> DEFINE t == SubSeq(w, 1, k - 1)
             u == SubSeq(w, 1, k)
  <2>2. t \in Seq(Nat) /\ Len(t) = k - 1 /\ \A i \in 1 .. k - 1 : t[i] = w[i]
    BY <1>1, <2>1
  <2>3. u \in Seq(Nat) /\ Len(u) = k /\ \A i \in 1 .. k : u[i] = w[i]
    BY <1>1, <2>1
  <2> HIDE DEF t, u
  <2>4. u = Append(t, w[k])
    <3> DEFINE v == Append(t, w[k])
    <3>1. v \in Seq(Nat) /\ Len(v) = k /\ v[k] = w[k] /\ \A i \in 1 .. k - 1 : v[i] = t[i]
      BY <2>1, <2>2
    <3> HIDE DEF v
    <3>2. \A i \in 1 .. k : v[i] = u[i]
      <4>1. \A i \in 1 .. k : i \in 1 .. k - 1 \/ i = k
        BY <2>1
      <4> QED BY <2>2, <2>3, <3>1, <4>1
    <3>3. v = u
      BY <2>3, <3>1, <3>2, SeqEqual
    <3> QED BY <3>3 DEF v
  <2>5. s \o Append(t, w[k]) = Append(s \o t, w[k])
    <3>1. Append(t, w[k]) = t \o <<w[k]>> /\ Append(s \o t, w[k]) = (s \o t) \o <<w[k]>>
      <4>1. s \o t \in Seq(Nat)
        BY <1>3, <2>2, ConcatProperties
      <4> QED BY <2>1, <2>2, <4>1, AppendIsConcat
    <3>2. <<w[k]>> \in Seq(Nat)
      BY <2>1
    <3>3. (s \o t) \o <<w[k]>> = s \o (t \o <<w[k]>>)
      <4> DEFINE z == <<w[k]>>
      <4>1. z \in Seq(Nat)
        BY <3>2
      <4> HIDE DEF z
      <4>2. (s \o t) \o z = s \o (t \o z)
        BY ONLY <1>3, <2>2, <4>1, JoinsAssociate, Zenon
      <4> QED BY <4>2 DEF z
    <3> QED BY <3>1, <3>3
  <2>6. h[k] = s \o u /\ h[k - 1] = s \o t
    BY <2>1 DEF t, u
  <2> QED BY <2>4, <2>5, <2>6
<1> HIDE DEF h
<1>7. \A k \in 1 .. Len(w) : h[k] = IF Len(a) + k \in q.skips THEN h[k - 1] ELSE Append(h[k - 1], w[k])
  BY <1>5, <1>6
<1>8. h[0] = f[Len(a)]
  BY <1>4 DEF s
<1>9. \A n \in 1 .. Len(a) : n \in q.skips <=> n \in p.skips
  OBVIOUS
<1>10. PICK g : DataIn(g, a \o w, q.skips, Len(a \o w)) /\ g[Len(a \o w)] = h[Len(w)]
  <2>1. AgreeTo(q.skips, p.skips, Len(a)) /\ GrowsBy(h, a, w, q.skips)
    BY <1>7, <1>9 DEF AgreeTo, GrowsBy
  <2> QED BY <1>2, <1>8, <2>1, DataGrows
<1>11. h[Len(w)] \in Seq(Nat) /\ Len(h[Len(w)]) = q.bytes /\ Sum(h[Len(w)]) = q.sum
  <2>1. s \o w \in Seq(Nat) /\ Len(s \o w) = Len(s) + Len(w)
    BY <1>3, JoinedIs
  <2>2. Sum(s \o w) = Sum(s) + Sum(w)
    BY <1>3, SumConcat
  <2> QED BY <1>3, <1>4, <2>1, <2>2
<1>12. q.skips \subseteq 1 .. Len(a \o w)
  BY <1>1 DEF Keeps
<1> QED BY <1>10, <1>11, <1>12 DEF Keeps

\* The walk ends at the NUL that follows the stream a.
LEMMA DataIsKept ==
  ASSUME NEW a \in Seq(Nat), NEW p, Keeps(a, p), NEW q, q.skips = p.skips, q.i = Len(a) + 1,
         NEW b, b = a \o << 0 >>
  PROVE  Len(DataOf(b, q)) = p.bytes /\ Sum(DataOf(b, q)) = p.sum
<1>1. Len(a) \in Nat /\ <<0>> \in Seq(Nat) /\ Len(<<0>>) = 1
  BY LenProperties
<1>2. Len(b) = Len(a) + 1 /\ \A n \in 1 .. Len(a) : b[n] = a[n]
  <2>1. Len(a \o <<0>>) = Len(a) + Len(<<0>>) /\ \A n \in 1 .. Len(a) : (a \o <<0>>)[n] = a[n]
    BY <1>1, JoinedIs
  <2> QED BY <1>1, <2>1
<1>3. PICK f : /\ DataIn(f, a, p.skips, Len(a))
               /\ f[Len(a)] \in Seq(Nat) /\ Len(f[Len(a)]) = p.bytes /\ Sum(f[Len(a)]) = p.sum
  BY DEF Keeps
<1>4. DataIn(f, b, q.skips, Len(a))
  <2>1. /\ f = [n \in 0 .. Len(a) |-> f[n]] /\ f[0] = <<>>
        /\ \A n \in 1 .. Len(a) : f[n] = DataStep(a, p.skips, f[n - 1], n)
    BY <1>1, <1>3, DataSteps
  <2>2. \A n \in 1 .. Len(a) : f[n] = DataStep(b, q.skips, f[n - 1], n)
    BY <1>2, <2>1 DEF DataStep
  <2> QED BY <1>1, <2>1, <2>2, DataSteps
<1>5. DataOf(b, q) = Data(b, q.skips, Len(a))[Len(a)]
  <2>1. (IF q.i <= Len(b) THEN q.i - 1 ELSE Len(b)) = Len(a)
    BY <1>1, <1>2
  <2> QED BY <2>1, Zenon DEF DataOf, Data, DataIn
<1>6. DataIn(Data(b, q.skips, Len(a)), b, q.skips, Len(a))
  BY <1>4 DEF Data
<1>7. DataOf(b, q) = f[Len(a)]
  BY <1>1, <1>4, <1>5, <1>6, DataOnce
<1> QED BY <1>3, <1>7

-----------------------------------------------------------------------------
(* What a step of the walk changes, and what it keeps. *)

TookFrom(q, p, t, w) ==
  /\ q \in PState /\ q.i = p.i + Len(w) /\ q.intervals = Append(p.intervals, p.pending + t)
  /\ q.t = p.t + p.pending + t /\ q.index = p.index /\ q.markers = p.markers
  /\ q.bytes = p.bytes + Len(w) /\ q.sum = p.sum + Sum(w) /\ q.pending = 0 /\ q.end = p.end
  /\ q.skips = p.skips /\ q.terminated = p.terminated /\ q.refused = p.refused /\ q.stop = p.stop

LEMMA TookIs ==
  ASSUME NEW p \in PState, NEW t \in Nat, NEW w \in Seq(Nat)
  PROVE  TookFrom(Took(p, t, w), p, t, w)
<1>1. Len(w) \in Nat /\ Sum(w) \in Nat
  BY LenProperties, SumNat
<1>2. p.pending \in Nat /\ p.t \in Nat /\ p.bytes \in Nat /\ p.sum \in Nat /\ p.i \in Nat \ {0}
  BY DEF PState
<1>3. p.pending + t \in Nat /\ p.t + p.pending + t \in Nat
  BY <1>2
<1>4. p.bytes + Len(w) \in Nat /\ p.i + Len(w) \in Nat \ {0}
  BY <1>1, <1>2
<1>5. p.sum + Sum(w) \in Nat
  BY <1>1, <1>2
<1>6. Append(p.intervals, p.pending + t) \in Seq(Nat)
  BY <1>3 DEF PState
<1> QED BY <1>3, <1>4, <1>5, <1>6 DEF PState, Took, TookFrom

\* n bytes are skipped.
After(q, p, n) ==
  /\ q \in PState /\ q.i = p.i + n /\ q.skips = p.skips \cup (p.i .. p.i + n - 1)
  /\ q.intervals = p.intervals /\ q.t = p.t /\ q.bytes = p.bytes /\ q.sum = p.sum /\ q.end = p.end
  /\ q.terminated = p.terminated /\ q.refused = p.refused /\ q.stop = p.stop

Indexed(p, n, x) == [Skipped(p, n) EXCEPT !.index = Append(@, x)]
Paused(p, n, x) == [Skipped(p, n) EXCEPT !.pending = @ + x]
Noted(p, n, m) == [Skipped(p, n) EXCEPT !.markers = Append(@, m)]

LEMMA SkipTyped ==
  ASSUME NEW p \in PState, NEW n \in Nat
  PROVE  p.i + n \in Nat \ {0} /\ (p.skips \cup (p.i .. p.i + n - 1)) \in SUBSET Nat
<1>1. p.i \in Nat \ {0} /\ p.skips \in SUBSET Nat
  BY DEF PState
<1> QED BY <1>1

LEMMA IndexedIs ==
  ASSUME NEW p \in PState, NEW n \in Nat, NEW x \in Nat
  PROVE  /\ After(Indexed(p, n, x), p, n) /\ Indexed(p, n, x).index = Append(p.index, x)
         /\ Indexed(p, n, x).markers = p.markers /\ Indexed(p, n, x).pending = p.pending
<1> DEFINE more == p.skips \cup (p.i .. p.i + n - 1)
           q == Indexed(p, n, x)
<1>1. p.i + n \in Nat \ {0} /\ more \in SUBSET Nat
  BY SkipTyped
<1>2. Append(p.index, x) \in Seq(Nat)
  BY DEF PState
<1> HIDE DEF more
<1>3. q = [p EXCEPT !.skips = more, !.i = p.i + n, !.index = Append(p.index, x)]
  BY DEF more, PState, Skipped, Indexed
<1> HIDE DEF q
<1>4. /\ q \in PState /\ q.i = p.i + n /\ q.skips = more
      /\ q.intervals = p.intervals /\ q.t = p.t /\ q.bytes = p.bytes /\ q.sum = p.sum /\ q.end = p.end
      /\ q.terminated = p.terminated /\ q.refused = p.refused /\ q.stop = p.stop
      /\ q.index = Append(p.index, x) /\ q.markers = p.markers /\ q.pending = p.pending
  BY <1>1, <1>2, <1>3 DEF PState
<1> QED BY <1>4 DEF After, more, q

LEMMA PausedIs ==
  ASSUME NEW p \in PState, NEW n \in Nat, NEW x \in Nat
  PROVE  /\ After(Paused(p, n, x), p, n) /\ Paused(p, n, x).index = p.index
         /\ Paused(p, n, x).markers = p.markers /\ Paused(p, n, x).pending = p.pending + x
<1> DEFINE more == p.skips \cup (p.i .. p.i + n - 1)
           q == Paused(p, n, x)
<1>1. p.i + n \in Nat \ {0} /\ more \in SUBSET Nat
  BY SkipTyped
<1>2. p.pending + x \in Nat
  BY DEF PState
<1> HIDE DEF more
<1>3. q = [p EXCEPT !.skips = more, !.i = p.i + n, !.pending = p.pending + x]
  BY DEF more, PState, Skipped, Paused
<1> HIDE DEF q
<1>4. /\ q \in PState /\ q.i = p.i + n /\ q.skips = more
      /\ q.intervals = p.intervals /\ q.t = p.t /\ q.bytes = p.bytes /\ q.sum = p.sum /\ q.end = p.end
      /\ q.terminated = p.terminated /\ q.refused = p.refused /\ q.stop = p.stop
      /\ q.index = p.index /\ q.markers = p.markers /\ q.pending = p.pending + x
  BY <1>1, <1>2, <1>3 DEF PState
<1> QED BY <1>4 DEF After, more, q

\* A marker, whose payload may be cut.
LEMMA NotedIs ==
  ASSUME NEW p \in PState, NEW n \in Nat, NEW m \in MarkerInfo
  PROVE  /\ After(Noted(p, n, m), p, n) /\ Noted(p, n, m).index = p.index
         /\ Noted(p, n, m).markers = Append(p.markers, m) /\ Noted(p, n, m).pending = p.pending
<1> DEFINE more == p.skips \cup (p.i .. p.i + n - 1)
           q == Noted(p, n, m)
<1>1. p.i + n \in Nat \ {0} /\ more \in SUBSET Nat
  BY SkipTyped
<1>2. Append(p.markers, m) \in Seq(MarkerInfo)
  BY DEF PState
<1> HIDE DEF more
<1>3. q = [p EXCEPT !.skips = more, !.i = p.i + n, !.markers = Append(p.markers, m)]
  BY DEF more, PState, Skipped, Noted
<1> HIDE DEF q
<1>4. /\ q \in PState /\ q.i = p.i + n /\ q.skips = more
      /\ q.intervals = p.intervals /\ q.t = p.t /\ q.bytes = p.bytes /\ q.sum = p.sum /\ q.end = p.end
      /\ q.terminated = p.terminated /\ q.refused = p.refused /\ q.stop = p.stop
      /\ q.index = p.index /\ q.markers = Append(p.markers, m) /\ q.pending = p.pending
  BY <1>1, <1>2, <1>3 DEF PState
<1> QED BY <1>4 DEF After, more, q

LEMMA StopsIs ==
  ASSUME NEW p \in PState, NEW q, q = Stops(p)
  PROVE  /\ q \in PState /\ q.stop /\ q.i = p.i /\ q.intervals = p.intervals /\ q.index = p.index
         /\ q.end = p.end /\ q.terminated = p.terminated /\ q.refused = p.refused
BY DEF PState, Stops

LEMMA EdgeRead ==
  ASSUME NEW b \in Seq(Nat), NEW p, p.i \in Nat \ {0}, NEW x \in Nat, x < Half * (Half * (Half * Half)),
         Holds(b, p.i, EdgeAt(x))
  PROVE  TokenRead(b, p) = Indexed(p, 6, p.t + p.pending + x)
<1>1. INDEX \in Nat
  BY DEF INDEX
<1>2. Escaped(b, p, INDEX) /\ p.i + 5 <= Len(b) /\ N28At(b, p.i + 2) = x
  BY <1>1, OpcodeHeld DEF EdgeAt
<1>3. TokenRead(b, p) = [Skipped(p, 6) EXCEPT !.index = Append(@, p.t + p.pending + N28At(b, p.i + 2))]
  BY <1>2, ReadIndex
<1> QED BY <1>2, <1>3 DEF Indexed

LEMMA DeadRead ==
  ASSUME NEW b \in Seq(Nat), NEW p, p.i \in Nat \ {0}, NEW x \in Nat, x < Half * (Half * (Half * Half)),
         Holds(b, p.i, Dead(x)), p.i + 6 <= Len(b) => b[p.i + 6] # Tail9
  PROVE  TokenRead(b, p) = Paused(p, 6, x)
<1>1. SPACE \in Nat
  BY DEF SPACE
<1>2. Escaped(b, p, SPACE) /\ p.i + 5 <= Len(b) /\ N28At(b, p.i + 2) = x
  BY <1>1, OpcodeHeld DEF Dead
<1>3. TokenRead(b, p) = SpaceRead(b, p)
  BY <1>2, ReadSpace
<1>4. SpaceRead(b, p) = [Skipped(p, 6) EXCEPT !.pending = @ + N28At(b, p.i + 2)]
  BY DEF SpaceRead
<1> QED BY <1>2, <1>3, <1>4 DEF Paused

-----------------------------------------------------------------------------
(* A stream that is cut. *)

Leads(s, t) == s \in Seq(Nat) /\ t \in Seq(Nat) /\ Len(s) <= Len(t) /\ \A i \in 1 .. Len(s) : s[i] = t[i]

\* Nothing in q is untrue of the transitions x and the edges e, nor is it whole.
Quiet(q, x, e) ==
  /\ ~q.terminated /\ ~q.refused /\ q.end = <<>>
  /\ Leads(Times(q.intervals), x) /\ Leads(q.index, e)

SameTale(q, p) ==
  /\ q.intervals = p.intervals /\ q.index = p.index /\ q.end = p.end
  /\ q.terminated = p.terminated /\ q.refused = p.refused

\* b is a and a part of w.
Partial(b, a, w) ==
  /\ Begins(a, b) /\ Len(a) < Len(b) /\ Len(b) < Len(a) + Len(w)
  /\ \A k \in 1 .. Len(b) - Len(a) : b[Len(a) + k] = w[k]

\* However w is cut, the walk tells what it told before.
CutsWell(a, p, w) == \A b \in Seq(Nat) : Partial(b, a, w) => SameTale(Parsed(b), p)

LEMMA CutReads ==
  ASSUME NEW a \in Seq(Nat), NEW p, ReadsOn(a, p), NEW w \in Seq(Nat), p.pending > 0 => w[1] # Tail9,
         NEW b \in Seq(Nat), Partial(b, a, w), NEW q, TokenRead(b, p) = q,
         q.stop \/ q.i > Len(b), SameTale(q, p)
  PROVE  SameTale(Parsed(b), p)
<1>1. Len(a) \in Nat /\ Len(b) \in Nat /\ p.i = Len(a) + 1 /\ Len(a) < Len(b)
  BY LenProperties DEF ReadsOn, Partial
<1>2. b[p.i] = w[1]
  <2>1. 1 \in 1 .. Len(b) - Len(a)
    BY <1>1
  <2> QED BY <1>1, <2>1 DEF Partial
<1>3. Begins(a, b) /\ Loose(b, p) /\ Finished(b, TokenRead(b, p))
  BY <1>2 DEF Partial, Loose, Finished
<1>4. Parsed(b) = TokenRead(b, p)
  BY <1>1, <1>3, ReadsLast
<1> QED BY <1>4

LEMMA StopsTale == ASSUME NEW p \in PState PROVE Stops(p).stop /\ SameTale(Stops(p), p)
BY StopsIs DEF SameTale

LEMMA PausedTale ==
  ASSUME NEW p \in PState, NEW n \in Nat, NEW x \in Nat
  PROVE  Paused(p, n, x).i = p.i + n /\ SameTale(Paused(p, n, x), p)
BY PausedIs DEF SameTale, After

\* The first byte alone.
LEMMA CutToStub ==
  ASSUME NEW a \in Seq(Nat), NEW p, ReadsOn(a, p), NEW b \in Seq(Nat), Len(b) = Len(a) + 1,
         b[p.i] \in Nat, b[p.i] >= TwoBytes
  PROVE  TokenRead(b, p) = Stops(p)
<1>1. p.i = Len(b)
  BY DEF ReadsOn
<1> QED BY <1>1, ReadStub

\* One of the six bytes, and of the seven of a long interval.
LEMMA CutOpcode ==
  ASSUME NEW a \in Seq(Nat), NEW p, ReadsOn(a, p), NEW w \in Seq(Nat), Len(w) > 1, w[1] = Esc,
         NEW op \in {INDEX, SPACE}, w[2] = op,
         NEW b \in Seq(Nat), Partial(b, a, w), Len(b) < Len(a) + 6
  PROVE  TokenRead(b, p) = Stops(p)
<1>1. Len(a) \in Nat /\ Len(b) \in Nat /\ p.i = Len(a) + 1 /\ Len(a) < Len(b)
  BY LenProperties DEF ReadsOn, Partial
<1>2. b[p.i] = Esc
  <2>1. 1 \in 1 .. Len(b) - Len(a)
    BY <1>1
  <2> QED BY <1>1, <2>1 DEF Partial
<1>3. CASE Len(b) = Len(a) + 1
  <2>1. b[p.i] \in Nat /\ b[p.i] >= TwoBytes
    BY <1>2, Rates
  <2> QED BY <1>3, <2>1, CutToStub
<1>4. CASE Len(b) > Len(a) + 1
  <2>1. 2 \in 1 .. Len(b) - Len(a) /\ Len(a) + 2 = p.i + 1
    BY <1>1, <1>4
  <2>2. b[p.i + 1] = op
    BY <2>1 DEF Partial
  <2>3. p.i + 5 > Len(b) /\ p.i < Len(b) /\ p.i \in Nat
    BY <1>1, <1>4
  <2>4. Escaped(b, p, op)
    BY <1>2, <2>2, <2>3 DEF Escaped
  <2> QED BY <2>3, <2>4, ReadCutOpcode
<1> QED BY <1>1, <1>3, <1>4

LEMMA OpcodeCutsWell ==
  ASSUME NEW a \in Seq(Nat), NEW p, ReadsOn(a, p), NEW op \in {INDEX, SPACE},
         NEW x \in Nat, x < Half * (Half * (Half * Half)), NEW w, w = <<Esc, op>> \o N28(x)
  PROVE  w \in Seq(Nat) /\ Len(w) = 6 /\ w[1] = Esc /\ CutsWell(a, p, w)
<1>1. op \in Nat
  BY DEF INDEX, SPACE
<1>2. w \in Seq(Nat) /\ Len(w) = 6 /\ w[1] = Esc /\ w[2] = op
  <2>1. \A u : u = <<Esc, op>> \o N28(x) =>
          /\ u \in Seq(Nat) /\ Len(u) = 6 /\ u[1] = Esc /\ u[2] = op
          /\ \A k \in 1 .. 4 : u[k + 2] = N28(x)[k]
    BY <1>1, OpcodeIs
  <2>2. w = <<Esc, op>> \o N28(x)
    OBVIOUS
  <2> QED BY ONLY <2>1, <2>2, Zenon
<1>3. ASSUME NEW b \in Seq(Nat), Partial(b, a, w) PROVE SameTale(Parsed(b), p)
  <2>1. Len(b) < Len(a) + 6 /\ Len(w) > 1
    BY <1>2, <1>3 DEF Partial
  <2>2. TokenRead(b, p) = Stops(p)
    BY <1>2, <1>3, <2>1, CutOpcode
  <2>3. Stops(p).stop /\ SameTale(Stops(p), p)
    BY StopsTale DEF ReadsOn
  <2>4. w[1] # Tail9
    BY <1>2, Rates
  <2> QED BY <1>2, <1>3, <2>2, <2>3, <2>4, CutReads
<1> QED BY <1>2, <1>3 DEF CutsWell

LEMMA IntervalCutsWell ==
  ASSUME NEW a \in Seq(Nat), NEW p, ReadsOn(a, p), NEW t \in 1 .. Top - 1, p.pending > 0 => t >= Long
  PROVE  CutsWell(a, p, Interval(t))
<1> DEFINE w == Interval(t)
<1>1. w \in Seq(Nat) /\ Len(w) > 0 /\ (t >= Long => w[1] = Esc)
  BY IntervalBytes
<1>2. p.pending > 0 => w[1] # Tail9
  BY <1>1, Rates
<1>3. Stops(p).stop /\ SameTale(Stops(p), p) /\ p \in PState
  BY StopsTale DEF ReadsOn
<1>4. Len(a) \in Nat /\ p.i = Len(a) + 1
  BY LenProperties DEF ReadsOn
<1>5. ASSUME NEW b \in Seq(Nat), Partial(b, a, w) PROVE SameTale(Parsed(b), p)
  <2>1. Len(b) \in Nat /\ Len(a) < Len(b) /\ Len(b) < Len(a) + Len(w)
    BY <1>5, LenProperties DEF Partial
  <2>2. b[p.i] = w[1]
    <3>1. 1 \in 1 .. Len(b) - Len(a)
      BY <1>4, <2>1
    <3> QED BY <1>4, <1>5, <3>1 DEF Partial
  <2>3. CASE w = <<t>>
    <3>1. Len(w) = 1
      BY <2>3
    <3> QED BY <1>4, <2>1, <3>1
  <2>4. ASSUME NEW h \in 0 .. (Esc - 1) - TwoBytes, NEW r \in 0 .. Esc - 1, w = <<TwoBytes + h, 1 + r>>
        PROVE  SameTale(Parsed(b), p)
    <3>1. Len(w) = 2 /\ w[1] = TwoBytes + h
      BY <2>4
    <3>2. Len(b) = Len(a) + 1
      BY <1>4, <2>1, <3>1
    <3>3. b[p.i] \in Nat /\ b[p.i] >= TwoBytes
      <4>1. TwoBytes \in Nat /\ h \in Nat
        BY ONLY Rates, h \in 0 .. (Esc - 1) - TwoBytes
      <4>2. b[p.i] = TwoBytes + h
        BY ONLY <2>2, <3>1
      <4> QED BY ONLY <4>1, <4>2
    <3>4. TokenRead(b, p) = Stops(p)
      BY <3>2, <3>3, CutToStub
    <3> HIDE DEF w
    <3> QED BY <1>1, <1>2, <1>3, <1>5, <3>4, CutReads
  <2>5. CASE /\ t >= Long /\ t - Tail9 \in Nat /\ t - Tail9 < Half * (Half * (Half * Half))
             /\ w = <<Esc, SPACE>> \o N28(t - Tail9) \o <<Tail9>>
    <3>1. w \in Seq(Nat) /\ Len(w) = 7 /\ w[1] = Esc /\ w[2] = SPACE /\ \A k \in 1 .. 4 : w[k + 2] = N28(t - Tail9)[k]
      BY <2>5, LongIs
    <3> HIDE DEF w
    <3>2. CASE Len(b) < Len(a) + 6
      <4>1. TokenRead(b, p) = Stops(p)
        <5>1. Len(w) > 1 /\ SPACE \in {INDEX, SPACE}
          BY <3>1
        <5> QED BY <1>5, <3>1, <3>2, <5>1, CutOpcode
      <4> QED BY <1>1, <1>2, <1>3, <1>5, <4>1, CutReads
    <3>3. CASE Len(b) = Len(a) + 6
      <4>1. p.i + 5 <= Len(b) /\ ~(p.i + 6 <= Len(b)) /\ p.i < Len(b) /\ p.i \in Nat
        BY <1>4, <3>3
      <4>2. b[p.i + 1] = SPACE
        <5>1. 2 \in 1 .. Len(b) - Len(a) /\ Len(a) + 2 = p.i + 1
          BY <1>4, <3>3
        <5> QED BY <1>5, <3>1, <5>1 DEF Partial
      <4>3. Escaped(b, p, SPACE)
        BY <2>2, <3>1, <4>1, <4>2 DEF Escaped
      <4> DEFINE y == N28At(b, p.i + 2)
                 q == Paused(p, 6, y)
      <4>4. TokenRead(b, p) = q
        BY <4>1, <4>3, ReadSpace DEF SpaceRead, Paused
      <4>5. y = t - Tail9
        <5>1. \A k \in 1 .. 4 : b[(p.i + 2) + k - 1] = N28(t - Tail9)[k]
          <6> TAKE k \in 1 .. 4
          <6>1. k + 2 \in 1 .. Len(b) - Len(a) /\ Len(a) + (k + 2) = (p.i + 2) + k - 1
            BY <1>4, <3>3
          <6>2. b[Len(a) + (k + 2)] = w[k + 2]
            BY <1>5, <6>1 DEF Partial
          <6> QED BY <3>1, <6>1, <6>2
        <5>2. p.i + 2 \in Nat
          BY <1>4
        <5> QED BY <2>5, <5>1, <5>2, N28Read
      <4>6. q.i = p.i + 6 /\ SameTale(q, p)
        <5> HIDE DEF y
        <5>1. y \in Nat /\ 6 \in Nat
          BY <2>5, <4>5
        <5> QED BY <1>3, <5>1, PausedTale
      <4>7. q.i > Len(b)
        BY <1>4, <3>3, <4>6
      <4> HIDE DEF q
      <4> QED BY <1>1, <1>2, <1>5, <4>4, <4>6, <4>7, CutReads
    <3> QED BY <1>4, <2>1, <3>1, <3>2, <3>3
  <2> HIDE DEF w
  <2>6. \/ w = <<t>>
        \/ \E h \in 0 .. (Esc - 1) - TwoBytes, r \in 0 .. Esc - 1 : w = <<TwoBytes + h, 1 + r>>
        \/ /\ t >= Long /\ t - Tail9 \in Nat /\ t - Tail9 < Half * (Half * (Half * Half))
           /\ w = <<Esc, SPACE>> \o N28(t - Tail9) \o <<Tail9>>
    BY IntervalIs DEF w
  <2> QED BY <2>3, <2>4, <2>5, <2>6
<1> QED BY <1>5 DEF CutsWell

LEMMA NotedTale ==
  ASSUME NEW p \in PState, NEW n \in Nat, NEW m \in MarkerInfo
  PROVE  Noted(p, n, m).i = p.i + n /\ SameTale(Noted(p, n, m), p)
BY NotedIs DEF SameTale, After

LEMMA MarkerCutsWell ==
  ASSUME NEW a \in Seq(Nat), NEW p, ReadsOn(a, p), NEW code \in Markers, NEW payload \in Seq(Nat),
         code = END => Len(payload) <= 4
  PROVE  CutsWell(a, p, Marker(code, payload))
<1> DEFINE w == Marker(code, payload)
           n == Len(payload)
<1>1. code \in Nat
  BY DEF Markers, START, SEGMENT, EVENT, END
<1>2. w \in Seq(Nat) /\ Len(w) = 3 + n /\ w[1] = Esc /\ w[2] = code /\ w[3] = n
  BY <1>1, MarkerIs
<1>3. Len(a) \in Nat /\ p.i = Len(a) + 1 /\ p \in PState /\ n \in Nat
  BY LenProperties DEF ReadsOn
<1>4. Stops(p).stop /\ SameTale(Stops(p), p)
  BY <1>3, StopsTale
<1>5. w[1] # Tail9
  BY <1>2, Rates
<1>6. ASSUME NEW b \in Seq(Nat), Partial(b, a, w) PROVE SameTale(Parsed(b), p)
  <2> HIDE DEF w
  <2> HIDE DEF n
  <2>1. Len(b) \in Nat /\ Len(a) < Len(b) /\ Len(b) < Len(a) + (3 + n)
    BY <1>2, <1>6, LenProperties DEF Partial
  <2>2. \A k \in 1 .. Len(b) - Len(a) : b[Len(a) + k] = w[k]
    BY <1>6 DEF Partial
  <2>3. b[p.i] = Esc
    <3>1. 1 \in 1 .. Len(b) - Len(a)
      BY <1>3, <2>1
    <3> QED BY <1>2, <1>3, <2>2, <3>1
  <2>4. CASE Len(b) = Len(a) + 1
    <3>1. b[p.i] \in Nat /\ b[p.i] >= TwoBytes
      BY <2>3, Rates
    <3>2. TokenRead(b, p) = Stops(p)
      BY <2>4, <3>1, CutToStub
    <3> QED BY <1>2, <1>4, <1>5, <1>6, <3>2, CutReads
  <2>5. ASSUME Len(b) > Len(a) + 1
        PROVE  TokenRead(b, p) = IF p.i + 2 > Len(b) THEN Stops(p) ELSE MarkerRead(b, p)
    <3>1. 2 \in 1 .. Len(b) - Len(a) /\ Len(a) + 2 = p.i + 1 /\ p.i \in Nat /\ p.i < Len(b)
      BY <1>3, <2>1, <2>5
    <3>2. b[p.i + 1] = code
      BY <1>2, <2>2, <3>1
    <3>3. Escaped(b, p, code)
      BY <2>3, <3>1, <3>2 DEF Escaped
    <3> QED BY <3>3, ReadMarker
  <2>6. CASE Len(b) = Len(a) + 2
    <3>1. p.i + 2 > Len(b) /\ Len(b) > Len(a) + 1
      BY <1>3, <2>1, <2>6
    <3>2. TokenRead(b, p) = Stops(p)
      BY <2>5, <3>1
    <3> QED BY <1>2, <1>4, <1>5, <1>6, <3>2, CutReads
  <2>7. CASE Len(b) >= Len(a) + 3
    <3>1. /\ ~(p.i + 2 > Len(b)) /\ Len(b) > Len(a) + 1 /\ 3 \in 1 .. Len(b) - Len(a)
          /\ Len(a) + 3 = p.i + 2 /\ ~(p.i + 2 + n < Len(b))
      BY <1>3, <2>1, <2>7
    <3>2. b[p.i + 2] = n /\ b[p.i + 1] = code
      <4>1. 2 \in 1 .. Len(b) - Len(a) /\ Len(a) + 2 = p.i + 1
        BY <1>3, <2>1, <2>7
      <4> QED BY <1>2, <2>2, <3>1, <4>1
    <3> DEFINE cut == SubSeq(b, p.i + 3, Len(b))
               m == [code |-> code, payload |-> cut, interval |-> Len(p.intervals)]
    <3>3. cut \in Seq(Nat) /\ Len(cut) < n
      <4>1. PICK i \in Nat : i = p.i + 3
        BY <1>3
      <4>2. i >= 1 /\ i <= Len(b) + 1 /\ (Len(b) - i) + 1 < n
        BY <1>3, <2>1, <2>7, <4>1
      <4>3. SubSeq(b, i, Len(b)) \in Seq(Nat) /\ Len(SubSeq(b, i, Len(b))) = IF i <= Len(b) THEN (Len(b) - i) + 1 ELSE 0
        BY <2>1, <4>2
      <4> QED BY <1>3, <2>1, <4>1, <4>2, <4>3
    <3> HIDE DEF cut
    <3>4. ~(code = END /\ Len(cut) >= 4)
      <4>1. Len(cut) \in Nat
        BY <3>3, LenProperties
      <4> QED BY <1>3, <3>3, <4>1 DEF n
    <3>5. MarkerRead(b, p) = Noted(p, 3 + n, m)
      BY <3>1, <3>2, <3>4, Zenon DEF MarkerRead, Noted, cut
    <3>6. m \in MarkerInfo
      <4>1. Len(p.intervals) \in Nat
        BY <1>3, LenProperties DEF PState
      <4> QED BY <1>1, <3>3, <4>1 DEF MarkerInfo
    <3> HIDE DEF m
    <3>7. Noted(p, 3 + n, m).i = p.i + (3 + n) /\ SameTale(Noted(p, 3 + n, m), p)
      <4>1. 3 + n \in Nat
        BY <1>3
      <4> QED BY <1>3, <3>6, <4>1, NotedTale
    <3>8. TokenRead(b, p) = Noted(p, 3 + n, m)
      BY <2>5, <3>1, <3>5
    <3>9. Noted(p, 3 + n, m).i > Len(b)
      BY <1>3, <2>1, <3>7
    <3> QED BY <1>2, <1>5, <1>6, <3>7, <3>8, <3>9, CutReads
  <2> QED BY <1>3, <2>1, <2>4, <2>6, <2>7
<1> QED BY <1>6 DEF CutsWell

-----------------------------------------------------------------------------
(* A stream so far: the bytes a, the walk p over them, the transitions x and *)
(* the edges e that they tell of, the account c, and s SEGMENTs.            *)

CutsOf(a, x, e) == \A n \in 0 .. Len(a) : Quiet(Parsed(SubSeq(a, 1, n)), x, e)

StreamIs(a, p, x, e, c, s) ==
  /\ a \in Seq(Nat) /\ ReadsOn(a, p) /\ Keeps(a, p)
  /\ x = Times(p.intervals) /\ p.t = Sum(p.intervals)
  /\ e = p.index
  /\ s = Cardinality(SegmentMarks(p.markers))
  /\ c.flux = Len(p.intervals) /\ c.bytes = p.bytes /\ c.sum = p.sum
  /\ p.end = <<>> /\ ~p.terminated /\ ~p.refused
  /\ CutsOf(a, x, e)

LEMMA LeadsSelf == ASSUME NEW s \in Seq(Nat) PROVE Leads(s, s)
BY LenProperties DEF Leads

LEMMA LeadsOn ==
  ASSUME NEW r, NEW s, NEW t, Leads(r, s), Leads(s, t)
  PROVE  Leads(r, t)
<1>1. r \in Seq(Nat) /\ s \in Seq(Nat) /\ t \in Seq(Nat) /\ Len(r) <= Len(s) /\ Len(s) <= Len(t)
  BY DEF Leads
<1>2. Len(r) \in Nat /\ Len(s) \in Nat /\ Len(t) \in Nat
  BY <1>1, LenProperties
<1>3. Len(r) <= Len(t) /\ \A i \in 1 .. Len(r) : i \in 1 .. Len(s)
  BY <1>1, <1>2
<1>4. \A i \in 1 .. Len(r) : r[i] = s[i]
  BY DEF Leads
<1>5. \A i \in 1 .. Len(s) : s[i] = t[i]
  BY DEF Leads
<1>6. \A i \in 1 .. Len(r) : r[i] = t[i]
  BY <1>3, <1>4, <1>5
<1> QED BY <1>1, <1>3, <1>6 DEF Leads

LEMMA LeadsAppend == ASSUME NEW s \in Seq(Nat), NEW x \in Nat PROVE Leads(s, Append(s, x))
<1> DEFINE r == Append(s, x)
<1>1. r \in Seq(Nat) /\ Len(r) = Len(s) + 1 /\ Len(s) \in Nat /\ \A i \in 1 .. Len(s) : r[i] = s[i]
  OBVIOUS
<1> HIDE DEF r
<1>2. Leads(s, r)
  BY <1>1 DEF Leads
<1> QED BY <1>2 DEF r

LEMMA QuietMore ==
  ASSUME NEW q, NEW x, NEW e, NEW y, NEW f, Quiet(q, x, e), Leads(x, y), Leads(e, f)
  PROVE  Quiet(q, y, f)
<1>1. Leads(Times(q.intervals), x) /\ Leads(q.index, e) /\ ~q.terminated /\ ~q.refused /\ q.end = <<>>
  BY DEF Quiet
<1>2. Leads(Times(q.intervals), y) /\ Leads(q.index, f)
  BY <1>1, LeadsOn
<1> QED BY <1>1, <1>2 DEF Quiet

\* A beginning of a \o w is one of a, or a and a part of w, or the whole.
LEMMA Beginning ==
  ASSUME NEW a \in Seq(Nat), NEW w \in Seq(Nat), NEW n \in 0 .. Len(a \o w),
         NEW b, b = SubSeq(a \o w, 1, n)
  PROVE  /\ b \in Seq(Nat)
         /\ n <= Len(a) => b = SubSeq(a, 1, n)
         /\ n > Len(a) /\ n < Len(a \o w) => Partial(b, a, w)
         /\ n = Len(a \o w) => b = a \o w
<1> DEFINE c == a \o w
           l == Len(a)
           m == Len(w)
<1>1. /\ c \in Seq(Nat) /\ Len(c) = l + m /\ l \in Nat /\ m \in Nat
      /\ (\A k \in 1 .. l : c[k] = a[k]) /\ \A k \in 1 .. m : c[l + k] = w[k]
  BY LenProperties, JoinedIs
<1> HIDE DEF c
<1>2. b = SubSeq(c, 1, n) /\ n \in 0 .. Len(c)
  BY DEF c
<1>3. n \in Nat /\ n <= l + m
  BY <1>1, <1>2
<1>4. b \in Seq(Nat) /\ Len(b) = n /\ \A k \in 1 .. n : b[k] = c[k]
  BY <1>1, <1>2, <1>3
<1>5. ASSUME n <= l PROVE b = SubSeq(a, 1, n)
  <2> DEFINE d == SubSeq(a, 1, n)
  <2>1. d \in Seq(Nat) /\ Len(d) = n /\ \A k \in 1 .. n : d[k] = a[k]
    BY <1>3, <1>5
  <2> HIDE DEF d
  <2>2. \A k \in 1 .. n : k \in 1 .. l
    BY <1>1, <1>5
  <2>3. \A k \in 1 .. Len(b) : b[k] = d[k]
    BY <1>1, <1>4, <2>1, <2>2
  <2>4. b = d
    BY <1>4, <2>1, <2>3, SeqEqual
  <2> QED BY <2>4 DEF d
<1>6. ASSUME n > l, n < Len(c) PROVE Partial(b, a, w)
  <2>1. l <= n /\ \A k \in 1 .. l : k \in 1 .. n
    BY <1>1, <1>3, <1>6
  <2>2. Begins(a, b)
    BY <1>1, <1>4, <2>1 DEF Begins
  <2>3. \A k \in 1 .. n - l : l + k \in 1 .. n /\ k \in 1 .. m
    <3>1. l \in Nat /\ m \in Nat
      BY <1>1
    <3> HIDE DEF l, m
    <3> QED BY ONLY <1>3, <3>1
  <2>4. \A k \in 1 .. n - l : b[l + k] = w[k]
    BY <1>1, <1>4, <2>3
  <2> QED BY <1>1, <1>4, <1>6, <2>2, <2>4 DEF Partial
<1>7. ASSUME n = Len(c) PROVE b = c
  BY <1>1, <1>2, <1>7, SubSeqAll
<1> QED BY <1>4, <1>5, <1>6, <1>7 DEF c

LEMMA StreamMore ==
  ASSUME NEW a, NEW p, NEW x, NEW e, NEW c, NEW s, StreamIs(a, p, x, e, c, s),
         NEW w \in Seq(Nat), NEW q, ReadsOn(a \o w, q), CutsWell(a, p, w),
         NEW y, y = Times(q.intervals), Leads(x, y), NEW f, f = q.index, Leads(e, f),
         q.end = <<>>, ~q.terminated, ~q.refused
  PROVE  CutsOf(a \o w, y, f)
<1>1. a \in Seq(Nat) /\ Len(a) \in Nat /\ a \o w \in Seq(Nat) /\ Len(a \o w) = Len(a) + Len(w) /\ Len(w) \in Nat
  BY LenProperties, JoinedIs DEF StreamIs
<1>2. ASSUME NEW n \in 0 .. Len(a \o w) PROVE Quiet(Parsed(SubSeq(a \o w, 1, n)), y, f)
  <2> DEFINE b == SubSeq(a \o w, 1, n)
  <2>1. /\ b \in Seq(Nat)
        /\ n <= Len(a) => b = SubSeq(a, 1, n)
        /\ n > Len(a) /\ n < Len(a \o w) => Partial(b, a, w)
        /\ n = Len(a \o w) => b = a \o w
    BY <1>1, Beginning
  <2> HIDE DEF b
  <2>2. CASE n <= Len(a)
    <3>1. Quiet(Parsed(SubSeq(a, 1, n)), x, e)
      BY <1>1, <2>2 DEF StreamIs, CutsOf
    <3>2. Quiet(Parsed(b), x, e)
      BY <2>1, <2>2, <3>1
    <3>3. Quiet(Parsed(b), y, f)
      BY <3>2, QuietMore
    <3> QED BY <3>3 DEF b
  <2>3. CASE n > Len(a) /\ n < Len(a \o w)
    <3>1. SameTale(Parsed(b), p)
      BY <2>1, <2>3 DEF CutsWell
    <3>2. Quiet(Parsed(b), y, f)
      BY <3>1 DEF Quiet, SameTale, StreamIs
    <3> QED BY <3>2 DEF b
  <2>4. CASE n = Len(a \o w)
    <3>1. Parsed(a \o w) = q
      BY <1>1, ReadsAll
    <3>2. y \in Seq(Nat) /\ f \in Seq(Nat)
      BY DEF Leads
    <3>3. Quiet(q, y, f)
      BY <3>2, LeadsSelf DEF Quiet
    <3> QED BY <2>1, <2>4, <3>1, <3>3 DEF b
  <2> QED BY <1>1, <2>2, <2>3, <2>4
<1> QED BY <1>2 DEF CutsOf

\* The byte that comes next does not make a long interval of dead time.
Apart(p, w) == p.pending > 0 => w[1] # Tail9

\* A token that is skipped, and adds no transition.
LEMMA StreamSkips ==
  ASSUME NEW a, NEW p, NEW x, NEW e, NEW c, NEW s, StreamIs(a, p, x, e, c, s),
         NEW w \in Seq(Nat), Len(w) > 0, Apart(p, w), CutsWell(a, p, w),
         NEW q, After(q, p, Len(w)),
         NEW f, f = q.index, Leads(e, f), NEW u, u = Cardinality(SegmentMarks(q.markers)),
         \A b \in Seq(Nat) : Holds(b, p.i, w) /\ Loose(b, q) => TokenRead(b, p) = q
  PROVE  StreamIs(a \o w, q, x, f, c, u)
<1>1. /\ a \in Seq(Nat) /\ ReadsOn(a, p) /\ Keeps(a, p) /\ x = Times(p.intervals) /\ p.t = Sum(p.intervals)
      /\ c.flux = Len(p.intervals) /\ c.bytes = p.bytes /\ c.sum = p.sum
      /\ p.end = <<>> /\ ~p.terminated /\ ~p.refused
  BY DEF StreamIs
<1>2. p \in PState /\ p.i = Len(a) + 1 /\ ~p.stop /\ Len(a) \in Nat /\ Len(w) \in Nat
  BY <1>1, LenProperties DEF ReadsOn
<1> USE DEF After
<1>3. a \o w \in Seq(Nat)
  BY <1>1, JoinedIs
<1>4. ReadsOn(a \o w, q)
  <2>1. (p.pending > 0 => w[1] # Tail9) /\ ~q.stop
    BY <1>2 DEF Apart
  <2> QED BY <1>1, <2>1, ReadsMore
<1>5. Keeps(a \o w, q)
  <2>1. q.skips = p.skips \cup (Len(a) + 1 .. Len(a) + Len(w))
    <3>1. p.i + Len(w) - 1 = Len(a) + Len(w)
      BY <1>2
    <3> QED BY <1>2, <3>1
  <2> QED BY <1>1, <2>1, KeepsSkipped
<1>6. x = Times(q.intervals) /\ Leads(x, x)
  <2>1. p.intervals \in Seq(Nat)
    BY <1>2 DEF PState
  <2>2. Times(p.intervals) \in Seq(Nat)
    BY <2>1, TimesIs
  <2> QED BY <1>1, <2>2, LeadsSelf
<1>7. q.end = <<>> /\ ~q.terminated /\ ~q.refused
  BY <1>1
<1>8. CutsOf(a \o w, x, f)
  BY <1>4, <1>6, <1>7, StreamMore
<1> QED BY <1>1, <1>3, <1>4, <1>5, <1>6, <1>7, <1>8 DEF StreamIs

Counted(d, c, w) == d.flux = c.flux + 1 /\ d.bytes = c.bytes + Len(w) /\ d.sum = c.sum + Sum(w)

LEMMA StreamTransition ==
  ASSUME NEW a, NEW p, NEW x, NEW e, NEW c, NEW s, StreamIs(a, p, x, e, c, s),
         NEW t \in 1 .. Top - 1, p.pending > 0 => t >= Long, NEW d, Counted(d, c, Interval(t))
  PROVE  \E q : /\ StreamIs(a \o Interval(t), q, Append(x, p.t + p.pending + t), e, d, s)
                /\ q.t = p.t + p.pending + t /\ q.pending = 0
<1> DEFINE w == Interval(t)
           y == p.t + p.pending + t
           q == Took(p, t, w)
<1>0. d.flux = c.flux + 1 /\ d.bytes = c.bytes + Len(w) /\ d.sum = c.sum + Sum(w)
  BY DEF Counted
<1>1. /\ a \in Seq(Nat) /\ ReadsOn(a, p) /\ Keeps(a, p) /\ x = Times(p.intervals) /\ p.t = Sum(p.intervals)
      /\ e = p.index /\ s = Cardinality(SegmentMarks(p.markers))
      /\ c.flux = Len(p.intervals) /\ c.bytes = p.bytes /\ c.sum = p.sum
      /\ p.end = <<>> /\ ~p.terminated /\ ~p.refused
  BY DEF StreamIs
<1>2. /\ p \in PState /\ p.i = Len(a) + 1 /\ ~p.stop /\ Len(a) \in Nat
      /\ p.intervals \in Seq(Nat) /\ p.index \in Seq(Nat) /\ p.pending \in Nat /\ p.i \in Nat \ {0}
  BY <1>1, LenProperties DEF ReadsOn, PState
<1>3. w \in Seq(Nat) /\ Len(w) > 0 /\ (t >= Long => w[1] = Esc) /\ t \in Nat
  BY IntervalBytes
<1>4. a \o w \in Seq(Nat)
  BY <1>1, <1>3, JoinedIs
<1>5. /\ q \in PState /\ q.i = p.i + Len(w) /\ q.intervals = Append(p.intervals, p.pending + t)
      /\ q.t = p.t + p.pending + t /\ q.index = p.index /\ q.markers = p.markers
      /\ q.bytes = p.bytes + Len(w) /\ q.sum = p.sum + Sum(w) /\ q.pending = 0 /\ q.end = p.end
      /\ q.skips = p.skips /\ q.terminated = p.terminated /\ q.refused = p.refused /\ q.stop = p.stop
  <2>1. TookFrom(q, p, t, w)
    BY <1>2, <1>3, TookIs
  <2> HIDE DEF q
  <2> QED BY ONLY <2>1, Zenon DEF TookFrom
<1>6. \A b \in Seq(Nat) : Holds(b, p.i, w) => TokenRead(b, p) = q
  BY <1>2, IntervalRead
<1> HIDE DEF q
<1>9. CutsWell(a, p, w)
  BY <1>1, IntervalCutsWell
<1> HIDE DEF w
<1>7. ReadsOn(a \o w, q)
  <2>1. (p.pending > 0 => w[1] # Tail9) /\ ~q.stop
    BY <1>2, <1>3, <1>5, Rates
  <2> QED BY <1>1, <1>3, <1>5, <1>6, <2>1, ReadsMore
<1>8. Keeps(a \o w, q)
  BY <1>1, <1>3, <1>5, KeepsData
<1>10. Times(q.intervals) = Append(x, y) /\ Leads(x, Append(x, y)) /\ q.t = y /\ Sum(q.intervals) = y
  <2>1. p.pending + t \in Nat /\ Sum(p.intervals) \in Nat
    BY <1>2, <1>3, SumNat
  <2>2. Times(Append(p.intervals, p.pending + t)) = Append(x, Sum(p.intervals) + (p.pending + t))
    BY <1>1, <1>2, <2>1, TimesAppend
  <2>3. Sum(Append(p.intervals, p.pending + t)) = Sum(p.intervals) + (p.pending + t)
    BY <1>2, <2>1, SumAppend
  <2>4. Sum(p.intervals) + (p.pending + t) = y /\ y \in Nat
    <3>1. PICK z \in Nat : z = Sum(p.intervals)
      BY <2>1
    <3>2. p.t = z
      BY <1>1, <3>1
    <3> QED BY <1>2, <1>3, <3>1, <3>2
  <2>5. x \in Seq(Nat)
    BY <1>1, <1>2, TimesIs
  <2>6. Leads(x, Append(x, y))
    BY <2>4, <2>5, LeadsAppend
  <2> QED BY <1>5, <2>2, <2>3, <2>4, <2>6
<1>11. Leads(e, e) /\ q.end = <<>> /\ ~q.terminated /\ ~q.refused
  BY <1>1, <1>2, <1>5, LeadsSelf
<1>12. CutsOf(a \o w, Append(x, y), e)
  BY <1>1, <1>3, <1>5, <1>7, <1>9, <1>10, <1>11, StreamMore
<1>13. Len(Append(p.intervals, p.pending + t)) = Len(p.intervals) + 1
  BY <1>2, <1>3
<1>14. StreamIs(a \o w, q, Append(x, y), e, d, s)
  BY <1>0, <1>1, <1>4, <1>5, <1>7, <1>8, <1>10, <1>11, <1>12, <1>13 DEF StreamIs
<1> QED BY <1>5, <1>10, <1>14 DEF w

\* An INDEX edge.
LEMMA StreamEdge ==
  ASSUME NEW a, NEW p, NEW x, NEW e, NEW c, NEW s, StreamIs(a, p, x, e, c, s),
         NEW k \in Nat, k < Half * (Half * (Half * Half)), NEW y, y = p.t + p.pending + k
  PROVE  \E q : StreamIs(a \o EdgeAt(k), q, x, Append(e, y), c, s) /\ q.t = p.t /\ q.pending = p.pending
<1> DEFINE w == EdgeAt(k)
           q == Indexed(p, 6, y)
<1>1. a \in Seq(Nat) /\ ReadsOn(a, p) /\ e = p.index /\ s = Cardinality(SegmentMarks(p.markers))
  BY DEF StreamIs
<1>2. p \in PState /\ p.t \in Nat /\ p.pending \in Nat /\ p.i \in Nat \ {0} /\ e \in Seq(Nat)
  BY <1>1 DEF ReadsOn, PState
<1>3. y \in Nat
  BY <1>2
<1>4. w \in Seq(Nat) /\ Len(w) = 6 /\ w[1] = Esc /\ CutsWell(a, p, w)
  <2>1. \A u : u = <<Esc, INDEX>> \o N28(k) => u \in Seq(Nat) /\ Len(u) = 6 /\ u[1] = Esc /\ CutsWell(a, p, u)
    BY <1>1, OpcodeCutsWell
  <2>2. w = <<Esc, INDEX>> \o N28(k)
    BY DEF EdgeAt
  <2> HIDE DEF w
  <2> QED BY ONLY <2>1, <2>2, Zenon
<1>5. /\ After(q, p, 6) /\ q.index = Append(p.index, y)
      /\ q.markers = p.markers /\ q.pending = p.pending
  BY <1>2, <1>3, IndexedIs
<1>6. \A b \in Seq(Nat) : Holds(b, p.i, w) => TokenRead(b, p) = q
  BY <1>2, EdgeRead
<1> HIDE DEF q, w
<1>7. Apart(p, w) /\ After(q, p, Len(w)) /\ Len(w) > 0
  BY <1>4, <1>5, Rates DEF Apart
<1>8. q.index = Append(e, y) /\ Leads(e, q.index) /\ s = Cardinality(SegmentMarks(q.markers))
  BY <1>1, <1>2, <1>3, <1>5, LeadsAppend
<1>9. \A f, u : f = q.index /\ Leads(e, f) /\ u = Cardinality(SegmentMarks(q.markers)) =>
        StreamIs(a \o w, q, x, f, c, u)
  BY <1>4, <1>6, <1>7, StreamSkips
<1>10. StreamIs(a \o w, q, x, q.index, c, s)
  BY <1>8, <1>9
<1>11. q.t = p.t
  BY <1>5 DEF After
<1> QED BY <1>5, <1>8, <1>10, <1>11 DEF w

\* Dead time.
LEMMA StreamDead ==
  ASSUME NEW a, NEW p, NEW x, NEW e, NEW c, NEW s, StreamIs(a, p, x, e, c, s),
         NEW k \in Nat \ {0}, k < Half * (Half * (Half * Half))
  PROVE  \E q : StreamIs(a \o Dead(k), q, x, e, c, s) /\ q.t = p.t /\ q.pending = p.pending + k
<1> DEFINE w == Dead(k)
           q == Paused(p, 6, k)
<1>1. a \in Seq(Nat) /\ ReadsOn(a, p) /\ e = p.index /\ s = Cardinality(SegmentMarks(p.markers))
  BY DEF StreamIs
<1>2. /\ p \in PState /\ p.t \in Nat /\ p.pending \in Nat /\ p.i \in Nat \ {0} /\ e \in Seq(Nat)
  BY <1>1 DEF ReadsOn, PState
<1>4. w \in Seq(Nat) /\ Len(w) = 6 /\ w[1] = Esc /\ CutsWell(a, p, w)
  <2>1. \A u : u = <<Esc, SPACE>> \o N28(k) => u \in Seq(Nat) /\ Len(u) = 6 /\ u[1] = Esc /\ CutsWell(a, p, u)
    BY <1>1, OpcodeCutsWell
  <2>2. w = <<Esc, SPACE>> \o N28(k)
    BY DEF Dead
  <2> HIDE DEF w
  <2> QED BY ONLY <2>1, <2>2, Zenon
<1>5. /\ After(q, p, 6) /\ q.index = p.index
      /\ q.markers = p.markers /\ q.pending = p.pending + k
  BY <1>2, PausedIs
<1>6. ASSUME NEW b \in Seq(Nat), Holds(b, p.i, w), Loose(b, q) PROVE TokenRead(b, p) = q
  <2>1. q.i = p.i + 6 /\ q.pending > 0
    <3> HIDE DEF q
    <3> QED BY <1>2, <1>5 DEF After
  <2>2. p.i + 6 <= Len(b) => b[p.i + 6] # Tail9
    BY <1>6, <2>1 DEF Loose
  <2> QED BY <1>2, <1>6, <2>2, DeadRead
<1> HIDE DEF q, w
<1>7. Apart(p, w) /\ After(q, p, Len(w)) /\ Len(w) > 0
  BY <1>4, <1>5, Rates DEF Apart
<1>8. q.index = e /\ Leads(e, e) /\ s = Cardinality(SegmentMarks(q.markers))
  BY <1>1, <1>2, <1>5, LeadsSelf
<1>9. \A f, u : f = q.index /\ Leads(e, f) /\ u = Cardinality(SegmentMarks(q.markers)) =>
        StreamIs(a \o w, q, x, f, c, u)
  BY <1>4, <1>6, <1>7, StreamSkips
<1>10. StreamIs(a \o w, q, x, e, c, s)
  BY <1>8, <1>9
<1>11. q.t = p.t
  BY <1>5 DEF After
<1> QED BY <1>5, <1>10, <1>11 DEF w

\* A marker that does not end the stream.
LEMMA StreamMarker ==
  ASSUME NEW a, NEW p, NEW x, NEW e, NEW c, NEW s, StreamIs(a, p, x, e, c, s),
         NEW code \in Markers, code # END, NEW payload \in Seq(Nat)
  PROVE  \E q : /\ StreamIs(a \o Marker(code, payload), q, x, e, c, s + (IF code = SEGMENT THEN 1 ELSE 0))
                /\ q.t = p.t /\ q.pending = p.pending
<1> DEFINE w == Marker(code, payload)
           n == Len(payload)
           m == [code |-> code, payload |-> payload, interval |-> Len(p.intervals)]
           q == Noted(p, 3 + n, m)
<1>1. a \in Seq(Nat) /\ ReadsOn(a, p) /\ e = p.index /\ s = Cardinality(SegmentMarks(p.markers))
  BY DEF StreamIs
<1>2. /\ p \in PState /\ p.i \in Nat \ {0} /\ e \in Seq(Nat) /\ p.intervals \in Seq(Nat)
      /\ p.markers \in Seq(MarkerInfo)
  BY <1>1 DEF ReadsOn, PState
<1>3. code \in Nat /\ n \in Nat /\ 3 + n \in Nat
  BY LenProperties DEF Markers, START, SEGMENT, EVENT, END
<1>4. w \in Seq(Nat) /\ Len(w) = 3 + n /\ w[1] = Esc
  BY <1>3, MarkerIs
<1>5. CutsWell(a, p, w)
  BY <1>1, MarkerCutsWell
<1>6. m \in MarkerInfo /\ m.code = code
  BY <1>2, <1>3, LenProperties DEF MarkerInfo
<1>7. \A b \in Seq(Nat) : Holds(b, p.i, w) => TokenRead(b, p) = q
  <2>1. Marked(p, code, payload) = q
    BY DEF Marked, Noted
  <2>2. \A b \in Seq(Nat), i \in Nat \ {0} : p.i = i /\ Holds(b, i, w) => TokenRead(b, p) = Marked(p, code, payload)
    BY MarkerHeld
  <2> QED BY <1>2, <2>1, <2>2
<1> HIDE DEF m
<1>8. /\ After(q, p, 3 + n) /\ q.index = p.index
      /\ q.markers = Append(p.markers, m) /\ q.pending = p.pending
  BY <1>2, <1>3, <1>6, NotedIs
<1> HIDE DEF q, w, n
<1>9. Apart(p, w) /\ After(q, p, Len(w)) /\ Len(w) > 0
  BY <1>3, <1>4, <1>8, Rates DEF Apart
<1>10. q.index = e /\ Leads(e, e)
  BY <1>1, <1>2, <1>8, LeadsSelf
<1>11. Cardinality(SegmentMarks(q.markers)) = s + (IF code = SEGMENT THEN 1 ELSE 0)
  BY <1>1, <1>2, <1>6, <1>8, SegmentsAppend
<1>12. \A f, u : f = q.index /\ Leads(e, f) /\ u = Cardinality(SegmentMarks(q.markers)) =>
         StreamIs(a \o w, q, x, f, c, u)
  BY <1>4, <1>5, <1>7, <1>9, StreamSkips
<1>13. StreamIs(a \o w, q, x, e, c, s + (IF code = SEGMENT THEN 1 ELSE 0))
  BY <1>10, <1>11, <1>12
<1>14. q.t = p.t
  BY <1>8 DEF After
<1> QED BY <1>8, <1>13, <1>14 DEF w

-----------------------------------------------------------------------------
(* The two ends of a stream. *)

NoAccount == [flux |-> 0, bytes |-> 0, sum |-> 0, seg |-> 0]
Started == Marker(START, <<Esc>>) \o Marker(EVENT, <<0>>)

LEMMA NothingIs ==
  /\ Nothing \in PState /\ Nothing.i = 1 /\ Nothing.intervals = <<>> /\ Nothing.t = 0 /\ Nothing.index = <<>>
  /\ Nothing.markers = <<>> /\ Nothing.bytes = 0 /\ Nothing.sum = 0 /\ Nothing.pending = 0 /\ Nothing.end = <<>>
  /\ Nothing.skips = {} /\ ~Nothing.terminated /\ ~Nothing.refused /\ ~Nothing.stop
BY DEF Nothing, PState

LEMMA StreamEmpty == StreamIs(<<>>, Nothing, <<>>, <<>>, NoAccount, 0)
<1>1. <<>> \in Seq(Nat) /\ Len(<<>>) = 0
  OBVIOUS
<1>2. ASSUME NEW b \in Seq(Nat) PROVE Walks(b, 0, Nothing)
  <2> DEFINE f == [n \in 0 .. 0 |-> IF n = 0 THEN Nothing ELSE Walked(b, <<>>)]
             g == [n \in 0 .. 0 |-> IF n = 0 THEN Nothing ELSE Walked(b, f[n - 1])]
  <2> HIDE DEF Nothing
  <2>1. \A n \in 0 .. 0 : n = 0
    OBVIOUS
  <2>2. f = [n \in 0 .. 0 |-> Nothing] /\ g = [n \in 0 .. 0 |-> Nothing]
    BY <2>1, Zenon
  <2>3. WalkIn(f, b, 0)
    BY <2>2, Zenon DEF WalkIn
  <2>4. f[0] = Nothing
    BY <2>2
  <2> HIDE DEF f
  <2>5. 0 \in 0 .. 0
    OBVIOUS
  <2> QED BY <2>3, <2>4, <2>5, Zenon DEF Walks
<1>3. ReadsOn(<<>>, Nothing)
  BY <1>1, <1>2, NothingIs DEF ReadsOn
<1>4. Keeps(<<>>, Nothing)
  <2> DEFINE f == [n \in 0 .. 0 |-> <<>>]
  <2>1. /\ f = [n \in 0 .. 0 |-> f[n]] /\ f[0] = <<>>
        /\ \A n \in 1 .. 0 : f[n] = DataStep(<<>>, Nothing.skips, f[n - 1], n)
    OBVIOUS
  <2> HIDE DEF f
  <2>2. DataIn(f, <<>>, Nothing.skips, 0)
    BY <2>1, DataSteps
  <2> QED BY <1>1, <2>1, <2>2, NothingIs, SumEmpty DEF Keeps
<1>5. Cardinality(SegmentMarks(Nothing.markers)) = 0
  <2>1. SegmentMarks(<<>>) = {}
    BY DEF SegmentMarks
  <2> QED BY <2>1, NothingIs, FS_EmptySet
<1>6. ASSUME NEW n \in 0 .. Len(<<>>) PROVE Quiet(Parsed(SubSeq(<<>>, 1, n)), <<>>, <<>>)
  <2>1. SubSeq(<<>>, 1, n) = <<>>
    BY <1>1
  <2>2. Parsed(<<>>) = Nothing
    BY <1>1, <1>3, ReadsAll
  <2>3. Leads(<<>>, <<>>)
    BY <1>1, LeadsSelf
  <2> QED BY <2>1, <2>2, <2>3, NothingIs, TimesEmpty DEF Quiet
<1>7. CutsOf(<<>>, <<>>, <<>>)
  BY <1>6 DEF CutsOf
<1>8. NoAccount.flux = 0 /\ NoAccount.bytes = 0 /\ NoAccount.sum = 0
  BY DEF NoAccount
<1> QED BY <1>1, <1>3, <1>4, <1>5, <1>7, <1>8, NothingIs, SumEmpty, TimesEmpty DEF StreamIs

LEMMA StreamNotes ==
  ASSUME NEW a, NEW p, NEW x, NEW e, NEW c, NEW s, StreamIs(a, p, x, e, c, s),
         NEW code \in {START, EVENT}, NEW payload \in Seq(Nat)
  PROVE  \E q : StreamIs(a \o Marker(code, payload), q, x, e, c, s) /\ q.t = p.t /\ q.pending = p.pending
<1>1. code \in Markers /\ code # END /\ code # SEGMENT
  BY DEF START, EVENT, SEGMENT, END, Markers
<1>2. PICK q : /\ StreamIs(a \o Marker(code, payload), q, x, e, c, s + (IF code = SEGMENT THEN 1 ELSE 0))
               /\ q.t = p.t /\ q.pending = p.pending
  BY <1>1, StreamMarker
<1>3. s + (IF code = SEGMENT THEN 1 ELSE 0) = s
  <2>1. s = Cardinality(SegmentMarks(p.markers)) /\ p.markers \in Seq(MarkerInfo)
    BY DEF StreamIs, ReadsOn, PState
  <2>2. \E m \in MarkerInfo : TRUE
    <3>1. [code |-> 0, payload |-> <<>>, interval |-> 0] \in MarkerInfo
      BY DEF MarkerInfo
    <3> QED BY <3>1
  <2>3. s \in Nat
    BY <2>1, <2>2, SegmentsAppend
  <2> QED BY <1>1, <2>3
<1> QED BY <1>2, <1>3

LEMMA StreamNotesTwo ==
  ASSUME NEW a, NEW p, NEW x, NEW e, NEW c, NEW s, StreamIs(a, p, x, e, c, s),
         NEW v \in Seq(Nat), NEW w \in Seq(Nat)
  PROVE  \E q : /\ StreamIs((a \o Marker(START, v)) \o Marker(EVENT, w), q, x, e, c, s)
                /\ q.t = p.t /\ q.pending = p.pending
<1>1. START \in {START, EVENT} /\ EVENT \in {START, EVENT}
  OBVIOUS
<1>2. PICK q : StreamIs(a \o Marker(START, v), q, x, e, c, s) /\ q.t = p.t /\ q.pending = p.pending
  BY <1>1, StreamNotes
<1> DEFINE b == a \o Marker(START, v)
<1> HIDE DEF b
<1>3. StreamIs(b, q, x, e, c, s)
  BY <1>2 DEF b
<1>4. PICK r : StreamIs(b \o Marker(EVENT, w), r, x, e, c, s) /\ r.t = q.t /\ r.pending = q.pending
  BY <1>1, <1>3, StreamNotes
<1> QED BY <1>2, <1>4 DEF b

LEMMA StreamStarts ==
  \E p : StreamIs(Started, p, <<>>, <<>>, NoAccount, 0) /\ p.t = 0 /\ p.pending = 0
<1> DEFINE z == <<>>
           p == Nothing
           c == NoAccount
           v == <<Esc>>
           w == <<0>>
<1>1. v \in Seq(Nat) /\ w \in Seq(Nat)
  BY Rates
<1>2. StreamIs(z, p, z, z, c, 0)
  BY StreamEmpty
<1>3. z \o Marker(START, v) = Marker(START, v)
  <2>1. START \in Nat
    BY DEF START
  <2>2. Marker(START, v) \in Seq(Nat)
    BY <1>1, <2>1, MarkerIs
  <2> HIDE DEF v
  <2> QED BY <2>2
<1>4. Started = Marker(START, v) \o Marker(EVENT, w)
  BY DEF Started
<1> HIDE DEF z, p, c, v, w
<1>5. PICK q : StreamIs((z \o Marker(START, v)) \o Marker(EVENT, w), q, z, z, c, 0)
               /\ q.t = p.t /\ q.pending = p.pending
  BY <1>1, <1>2, StreamNotesTwo
<1>6. StreamIs(Started, q, z, z, c, 0)
  BY <1>3, <1>4, <1>5
<1> QED BY <1>5, <1>6, NothingIs DEF z, p, c

\* What a sealed stream b tells of the transitions x, the edges e, and s SEGMENTs.
TellsAll(b, x, e, s) ==
  LET p == Parsed(b) IN
  /\ p.terminated /\ ~p.refused /\ Verified(p)
  /\ Times(p.intervals) = x /\ p.index = e
  /\ Cardinality(SegmentMarks(p.markers)) = s
  /\ Len(DataOf(b, p)) = p.bytes /\ Sum(DataOf(b, p)) = p.sum
TellsCut(b, x, e) == \A n \in 0 .. Len(b) - 2 : Quiet(Parsed(SubSeq(b, 1, n)), x, e)

\* A marker that ends the stream.
PumpEnded(p, m) == [Noted(p, 7, m) EXCEPT !.end = m.payload]
Sealed(p) == [p EXCEPT !.terminated = TRUE, !.stop = TRUE]

LEMMA EndedIs ==
  ASSUME NEW p \in PState, NEW m \in MarkerInfo, ~p.stop
  PROVE  /\ PumpEnded(p, m) \in PState /\ PumpEnded(p, m).i = p.i + 7 /\ ~PumpEnded(p, m).stop
         /\ PumpEnded(p, m).end = m.payload /\ PumpEnded(p, m).intervals = p.intervals /\ PumpEnded(p, m).index = p.index
         /\ PumpEnded(p, m).markers = Append(p.markers, m) /\ PumpEnded(p, m).bytes = p.bytes /\ PumpEnded(p, m).sum = p.sum
         /\ PumpEnded(p, m).skips = p.skips \cup (p.i .. p.i + 6) /\ PumpEnded(p, m).refused = p.refused
         /\ PumpEnded(p, m).pending = p.pending
<1> DEFINE q == Noted(p, 7, m)
           r == PumpEnded(p, m)
<1>1. /\ After(q, p, 7) /\ q.index = p.index
      /\ q.markers = Append(p.markers, m) /\ q.pending = p.pending
  BY NotedIs
<1>2. r = [q EXCEPT !.end = m.payload]
  BY DEF PumpEnded
<1> HIDE DEF q, r
<1>3. /\ q \in PState /\ q.i = p.i + 7 /\ q.skips = p.skips \cup (p.i .. p.i + 7 - 1)
      /\ q.intervals = p.intervals /\ q.bytes = p.bytes /\ q.sum = p.sum
      /\ q.refused = p.refused /\ q.stop = p.stop
  BY <1>1, Zenon DEF After
<1>4. m.payload \in Seq(Nat)
  BY DEF MarkerInfo
<1>5. p.i + 7 - 1 = p.i + 6
  <2>1. p.i \in Nat
    BY DEF PState
  <2> QED BY <2>1
<1>6. /\ r \in PState /\ r.i = q.i /\ r.stop = q.stop /\ r.end = m.payload /\ r.intervals = q.intervals
      /\ r.index = q.index /\ r.markers = q.markers /\ r.bytes = q.bytes /\ r.sum = q.sum
      /\ r.skips = q.skips /\ r.refused = q.refused /\ r.pending = q.pending
  BY <1>2, <1>3, <1>4 DEF PState
<1>7. r.skips = p.skips \cup (p.i .. p.i + 6)
  BY <1>3, <1>5, <1>6
<1> QED BY <1>1, <1>3, <1>6, <1>7 DEF r

LEMMA SealedIs ==
  ASSUME NEW p \in PState, NEW q, q = Sealed(p)
  PROVE  /\ q \in PState /\ q.stop /\ q.terminated /\ q.i = p.i /\ q.intervals = p.intervals /\ q.index = p.index
         /\ q.end = p.end /\ q.markers = p.markers /\ q.bytes = p.bytes /\ q.sum = p.sum
         /\ q.skips = p.skips /\ q.refused = p.refused
BY DEF PState, Sealed

LEMMA EndIs ==
  ASSUME NEW v \in Seq(Nat), Len(v) = 4
  PROVE  Marker(END, v) \in Seq(Nat) /\ Len(Marker(END, v)) = 7 /\ Marker(END, v)[1] = Esc
<1> DEFINE w == Marker(END, v)
<1>1. END \in Nat
  BY DEF END
<1>2. w \in Seq(Nat) /\ Len(w) = 3 + Len(v) /\ w[1] = Esc
  <2>1. \A u : u = Marker(END, v) =>
          /\ u \in Seq(Nat) /\ Len(u) = 3 + Len(v) /\ u[1] = Esc /\ u[2] = END /\ u[3] = Len(v)
          /\ \A k \in 1 .. Len(v) : u[3 + k] = v[k]
    BY <1>1, MarkerIs
  <2> QED BY ONLY <2>1, Zenon
<1> HIDE DEF w
<1>3. w \in Seq(Nat) /\ Len(w) = 7 /\ w[1] = Esc
  BY <1>2
<1> QED BY <1>3 DEF w

LEMMA EndRead ==
  ASSUME NEW a, NEW p, ReadsOn(a, p), a \in Seq(Nat), NEW m \in MarkerInfo, m.code = END, m.interval = Len(p.intervals),
         Len(m.payload) = 4
  PROVE  ReadsOn(a \o Marker(END, m.payload), PumpEnded(p, m))
<1> DEFINE w == Marker(END, m.payload)
           q == PumpEnded(p, m)
<1>1. p \in PState /\ p.i \in Nat \ {0} /\ ~p.stop
  BY DEF ReadsOn, PState
<1>2. END \in Markers /\ END \in Nat /\ m.payload \in Seq(Nat)
  BY DEF END, Markers, MarkerInfo
<1>3. w \in Seq(Nat) /\ Len(w) = 7 /\ w[1] = Esc
  BY <1>2, EndIs
<1>4. Marked(p, END, m.payload) = q
  <2>1. m = [code |-> END, payload |-> m.payload, interval |-> Len(p.intervals)]
    BY DEF MarkerInfo
  <2>2. 3 + Len(m.payload) = 7 /\ Len(m.payload) >= 4
    OBVIOUS
  <2>3. Marked(p, END, m.payload) =
          [[Skipped(p, 7) EXCEPT !.markers = Append(@, m)] EXCEPT !.end = m.payload]
    BY <2>1, <2>2, Zenon DEF Marked
  <2> QED BY <2>3 DEF PumpEnded, Noted
<1>5. \A b \in Seq(Nat) : Holds(b, p.i, w) => TokenRead(b, p) = q
  <2>1. \A b \in Seq(Nat), i \in Nat \ {0} : p.i = i /\ Holds(b, i, w) => TokenRead(b, p) = Marked(p, END, m.payload)
    BY <1>2, MarkerHeld
  <2> QED BY <1>1, <1>4, <2>1
<1>6. q \in PState /\ q.i = p.i + 7 /\ ~q.stop
  BY <1>1, EndedIs
<1>7. p.pending > 0 => w[1] # Tail9
  BY <1>3, Rates
<1> HIDE DEF q, w
<1>8. q.i = p.i + Len(w) /\ Len(w) > 0
  BY <1>3, <1>6
<1>9. ReadsOn(a \o w, q)
  BY <1>3, <1>5, <1>6, <1>7, <1>8, ReadsMore
<1> QED BY <1>9 DEF q, w

\* The NUL that follows.
LEMMA NulRead ==
  ASSUME NEW a \in Seq(Nat), NEW p, ReadsOn(a, p)
  PROVE  Parsed(a \o << 0 >>) = Sealed(p)
<1> DEFINE b == a \o <<0>>
<1>1. <<0>> \in Seq(Nat) /\ Len(<<0>>) = 1
  OBVIOUS
<1>2. b \in Seq(Nat) /\ Len(b) = Len(a) + 1 /\ b[Len(a) + 1] = 0 /\ (\A k \in 1 .. Len(a) : b[k] = a[k]) /\ Len(a) \in Nat
  <2>1. /\ b \in Seq(Nat) /\ Len(b) = Len(a) + Len(<<0>>)
        /\ \A k \in 1 .. Len(a) : b[k] = a[k]
        /\ \A k \in 1 .. Len(<<0>>) : b[Len(a) + k] = <<0>>[k]
    BY <1>1, JoinedIs
  <2> HIDE DEF b
  <2> QED BY <1>1, <2>1, LenProperties
<1> HIDE DEF b
<1>3. p \in PState /\ p.i = Len(a) + 1
  BY DEF ReadsOn
<1>4. b[p.i] = 0 /\ Begins(a, b) /\ Loose(b, p) /\ Len(a) < Len(b)
  BY <1>2, <1>3, Rates DEF Begins, Loose
<1>5. TokenRead(b, p) = Sealed(p)
  BY <1>4, ReadEnd DEF Sealed
<1>6. Finished(b, TokenRead(b, p))
  BY <1>3, <1>5, SealedIs DEF Finished
<1>7. Parsed(b) = TokenRead(b, p)
  BY <1>2, <1>4, <1>6, ReadsLast
<1> QED BY <1>5, <1>7 DEF b

LEMMA StreamEnds ==
  ASSUME NEW a, NEW p, NEW x, NEW e, NEW c, NEW s, StreamIs(a, p, x, e, c, s),
         NEW v, v = <<0, c.flux, c.bytes, c.sum>>, NEW b, b = a \o Marker(END, v) \o << 0 >>
  PROVE  TellsAll(b, x, e, s) /\ TellsCut(b, x, e) /\ b \in Seq(Nat)
<1> DEFINE m == [code |-> END, payload |-> v, interval |-> Len(p.intervals)]
           w == Marker(END, v)
           q == PumpEnded(p, m)
           r == Sealed(q)
           z == <<0>>
<1>1. /\ a \in Seq(Nat) /\ ReadsOn(a, p) /\ Keeps(a, p) /\ x = Times(p.intervals)
      /\ e = p.index /\ s = Cardinality(SegmentMarks(p.markers))
      /\ c.flux = Len(p.intervals) /\ c.bytes = p.bytes /\ c.sum = p.sum
      /\ p.end = <<>> /\ ~p.terminated /\ ~p.refused
      /\ CutsOf(a, x, e)
  BY DEF StreamIs
<1>2. /\ p \in PState /\ p.intervals \in Seq(Nat) /\ p.markers \in Seq(MarkerInfo)
      /\ p.bytes \in Nat /\ p.sum \in Nat /\ p.i = Len(a) + 1 /\ ~p.stop /\ p.index \in Seq(Nat) /\ Len(a) \in Nat
  BY <1>1, LenProperties DEF ReadsOn, PState
<1>3. c.flux \in Nat /\ c.bytes \in Nat /\ c.sum \in Nat
  BY <1>1, <1>2, LenProperties
<1>4. v \in Seq(Nat) /\ Len(v) = 4 /\ v # <<>> /\ SubSeq(v, 2, 4) = <<c.flux, c.bytes, c.sum>>
  <2> DEFINE u == SubSeq(v, 2, 4)
             y == <<c.flux, c.bytes, c.sum>>
  <2>1. v \in Seq(Nat) /\ Len(v) = 4 /\ v[2] = c.flux /\ v[3] = c.bytes /\ v[4] = c.sum
    BY <1>3
  <2>2. u \in Seq(Nat) /\ Len(u) = 3 /\ u[1] = v[2] /\ u[2] = v[3] /\ u[3] = v[4]
    <3> HIDE DEF y
    <3>1. u \in Seq(Nat) /\ Len(u) = 3 /\ \A i \in 1 .. 3 : u[i] = v[2 + i - 1]
      BY <2>1
    <3>2. 1 \in 1 .. 3 /\ 2 \in 1 .. 3 /\ 3 \in 1 .. 3 /\ 2 + 1 - 1 = 2 /\ 2 + 2 - 1 = 3 /\ 2 + 3 - 1 = 4
      OBVIOUS
    <3> HIDE DEF u
    <3> QED BY <3>1, <3>2
  <2>3. y \in Seq(Nat) /\ Len(y) = 3 /\ y[1] = c.flux /\ y[2] = c.bytes /\ y[3] = c.sum
    BY <1>3
  <2> HIDE DEF u, y
  <2>4. \A i \in 1 .. 3 : u[i] = y[i]
    <3>1. \A i \in 1 .. 3 : i = 1 \/ i = 2 \/ i = 3
      OBVIOUS
    <3> QED BY <2>1, <2>2, <2>3, <3>1
  <2>5. u = y
    BY <2>2, <2>3, <2>4, SeqEqual
  <2>6. v # <<>>
    BY <2>1
  <2> QED BY <2>1, <2>5, <2>6 DEF u, y
<1>5. m \in MarkerInfo /\ m.code = END /\ m.interval = Len(p.intervals) /\ m.payload = v /\ END # SEGMENT
  BY <1>2, <1>4, LenProperties DEF MarkerInfo, END, SEGMENT
<1> HIDE DEF m
<1>6. w \in Seq(Nat) /\ Len(w) = 7
  BY <1>4, EndIs
<1>7. ReadsOn(a \o w, q)
  BY <1>1, <1>4, <1>5, EndRead
<1>8. /\ q \in PState /\ q.i = p.i + 7 /\ ~q.stop
      /\ q.end = v /\ q.intervals = p.intervals /\ q.index = p.index
      /\ q.markers = Append(p.markers, m) /\ q.bytes = p.bytes /\ q.sum = p.sum
      /\ q.skips = p.skips \cup (p.i .. p.i + 6) /\ q.refused = p.refused
  BY <1>2, <1>5, EndedIs
<1> HIDE DEF q
<1>9. /\ r.terminated /\ r.i = q.i /\ r.intervals = q.intervals /\ r.index = q.index
      /\ r.end = q.end /\ r.markers = q.markers /\ r.bytes = q.bytes /\ r.sum = q.sum
      /\ r.skips = q.skips /\ r.refused = q.refused
  BY <1>8, SealedIs
<1> HIDE DEF r
<1> DEFINE d == a \o w
<1>10. d \in Seq(Nat) /\ Len(d) = Len(a) + 7
  <2> HIDE DEF w
  <2>1. d \in Seq(Nat) /\ Len(d) = Len(a) + Len(w)
    BY <1>1, <1>6, JoinedIs
  <2> HIDE DEF d
  <2> QED BY <1>6, <2>1
<1>11. b = d \o z
  OBVIOUS
<1> HIDE DEF w
<1>12. Parsed(b) = r
  BY <1>7, <1>10, <1>11, NulRead DEF r
<1>13. Keeps(d, q)
  <2>1. q.skips = p.skips \cup (Len(a) + 1 .. Len(a) + Len(w))
    <3>1. p.i + 6 = Len(a) + Len(w)
      BY <1>2, <1>6
    <3> QED BY <1>2, <1>8, <3>1
  <2> QED BY <1>1, <1>6, <1>8, <2>1, KeepsSkipped
<1> HIDE DEF d
<1>14. Len(DataOf(b, r)) = q.bytes /\ Sum(DataOf(b, r)) = q.sum
  <2>1. r.skips = q.skips /\ r.i = Len(d) + 1
    BY <1>2, <1>8, <1>9, <1>10
  <2>2. \A u, y : u = d \o <<0>> /\ y.skips = q.skips /\ y.i = Len(d) + 1 =>
          Len(DataOf(u, y)) = q.bytes /\ Sum(DataOf(u, y)) = q.sum
    BY <1>10, <1>13, DataIsKept
  <2> QED BY ONLY <1>11, <2>1, <2>2, Zenon DEF z
<1>15. Cardinality(SegmentMarks(r.markers)) = s
  BY <1>1, <1>2, <1>5, <1>8, <1>9, SegmentsAppend
<1>16. Verified(r)
  <2>1. r.end = v /\ Len(r.intervals) = c.flux /\ r.bytes = c.bytes /\ r.sum = c.sum
    BY <1>1, <1>8, <1>9
  <2> QED BY <1>4, <2>1, Zenon DEF Verified
<1>17. TellsAll(b, x, e, s)
  BY <1>1, <1>8, <1>9, <1>12, <1>14, <1>15, <1>16 DEF TellsAll
<1>18. CutsWell(a, p, w)
  <2>1. END \in Markers /\ Len(v) <= 4
    BY <1>4 DEF END, Markers
  <2> QED BY <1>1, <1>4, <2>1, MarkerCutsWell DEF w
<1>19. z \in Seq(Nat) /\ Len(z) = 1
  OBVIOUS
<1> HIDE DEF z
<1>20. b \in Seq(Nat) /\ Len(b) = Len(a) + 8
  <2>1. d \o z \in Seq(Nat) /\ Len(d \o z) = Len(d) + Len(z)
    BY <1>10, <1>19, JoinedIs
  <2>2. b \in Seq(Nat) /\ Len(b) = Len(d) + Len(z)
    BY ONLY <1>11, <2>1, Zenon
  <2>3. Len(b) = (Len(a) + 7) + 1
    BY ONLY <1>10, <1>19, <2>2, Zenon
  <2>4. PICK l \in Nat : l = Len(a)
    BY <1>2
  <2>5. Len(b) = l + 8
    BY ONLY <2>3, <2>4
  <2> QED BY ONLY <2>2, <2>4, <2>5, Zenon
<1>21. ASSUME NEW n \in 0 .. Len(b) - 2 PROVE Quiet(Parsed(SubSeq(b, 1, n)), x, e)
  <2>1. n \in 0 .. Len(d \o z) /\ n <= Len(d) /\ n \in 0 .. Len(d) /\ n < Len(d)
    <3>1. PICK l \in Nat : l = Len(a)
      BY <1>2
    <3>2. Len(b) = l + 8 /\ Len(d) = l + 7
      BY ONLY <1>10, <1>20, <3>1, Zenon
    <3>3. Len(d \o z) = Len(b)
      BY ONLY <1>11, Zenon
    <3>4. n \in 0 .. (l + 8) - 2
      BY ONLY <1>21, <3>2, Zenon
    <3> QED BY ONLY <3>1, <3>2, <3>3, <3>4
  <2>2. SubSeq(b, 1, n) = SubSeq(d, 1, n)
    BY <1>10, <1>11, <1>19, <2>1, Beginning
  <2> DEFINE g == SubSeq(d, 1, n)
  <2>3. /\ g \in Seq(Nat)
        /\ n <= Len(a) => g = SubSeq(a, 1, n)
        /\ n > Len(a) /\ n < Len(d) => Partial(g, a, w)
    BY <1>1, <1>6, <2>1, Beginning DEF d
  <2> HIDE DEF g
  <2>4. CASE n <= Len(a)
    <3>1. n \in 0 .. Len(a)
      BY <1>2, <2>1, <2>4
    <3> QED BY <1>1, <2>2, <2>3, <2>4, <3>1 DEF CutsOf, g
  <2>5. CASE n > Len(a)
    <3>1. SameTale(Parsed(g), p)
      BY <1>18, <2>1, <2>3, <2>5 DEF CutsWell
    <3>2. Leads(x, x) /\ Leads(e, e)
      BY <1>1, <1>2, TimesIs, LeadsSelf
    <3>3. Quiet(Parsed(g), x, e)
      BY <1>1, <3>1, <3>2 DEF Quiet, SameTale
    <3> QED BY <2>2, <3>3 DEF g
  <2>6. n \in Nat /\ (n <= Len(a) \/ n > Len(a))
    BY <1>2, <2>1
  <2> QED BY <2>4, <2>5, <2>6
<1>22. TellsCut(b, x, e)
  BY <1>21 DEF TellsCut
<1> QED BY <1>17, <1>20, <1>22

-----------------------------------------------------------------------------
(* The samples of a pump. *)

Accounts == [flux : Nat, bytes : Nat, sum : Nat, seg : Nat]
Coded == [prev : Nat, out : Seq(Nat), cap : Accounts]
Uncoded(prev, c) == [prev |-> prev, out |-> <<>>, cap |-> c]
EncodedIn(f, prev, c, s) ==
  f = [n \in 0 .. Len(s) |->
         IF n = 0 THEN [prev |-> prev, out |-> <<>>, cap |-> c] ELSE Written(f[n - 1], s[n])]
EncodedBy(prev, c, s) == CHOOSE f : EncodedIn(f, prev, c, s)

LEMMA EncodedIsBy == ASSUME NEW prev, NEW c, NEW s PROVE Encoded(prev, c, s) = EncodedBy(prev, c, s)[Len(s)]
BY DEF Encoded, EncodedBy, EncodedIn

LEMMA WrittenIs ==
  ASSUME NEW r \in Coded, NEW x \in Nat, NEW t \in 1 .. Top - 1, (x - r.prev) % Top = t
  PROVE  /\ Written(r, x) \in Coded /\ Written(r, x).prev = x % Top
         /\ Written(r, x).out = r.out \o Interval(t)
         /\ Written(r, x).cap.flux = r.cap.flux + 1
         /\ Written(r, x).cap.bytes = r.cap.bytes + Len(Interval(t))
         /\ Written(r, x).cap.sum = r.cap.sum + Sum(Interval(t))
         /\ Written(r, x).cap.seg = r.cap.seg
<1> DEFINE w == Interval(t)
           l == Len(w)
           y == Sum(w)
           d == [r.cap EXCEPT !.flux = @ + 1, !.bytes = @ + l, !.sum = @ + y]
<1>1. w \in Seq(Nat) /\ l > 0 /\ l \in Nat /\ y \in Nat
  BY IntervalBytes, SumNat, LenProperties
<1>2. w # <<>>
  <2> HIDE DEF w
  <2> QED BY <1>1
<1>3. Written(r, x) = [prev |-> x % Top, out |-> r.out \o w, cap |-> d]
  <2>1. Written(r, x) = [prev |-> x % Top, out |-> r.out \o w,
           cap |-> IF w = <<>> THEN r.cap ELSE [r.cap EXCEPT !.flux = @ + 1, !.bytes = @ + Len(w), !.sum = @ + Sum(w)]]
    BY Zenon DEF Written
  <2> HIDE DEF w
  <2> QED BY <1>2, <2>1
<1> HIDE DEF l, y
<1>4. r.cap \in Accounts /\ r.out \in Seq(Nat)
  BY DEF Coded
<1>5. /\ d \in Accounts /\ d.flux = r.cap.flux + 1 /\ d.bytes = r.cap.bytes + l /\ d.sum = r.cap.sum + y
      /\ d.seg = r.cap.seg
  <2> HIDE DEF w
  <2>1. PICK c : c = r.cap
    OBVIOUS
  <2>2. c \in Accounts /\ d = [c EXCEPT !.flux = @ + 1, !.bytes = @ + l, !.sum = @ + y]
    BY <1>4, <2>1
  <2>3. c.flux \in Nat /\ c.bytes \in Nat /\ c.sum \in Nat /\ c.seg \in Nat
    BY <2>2 DEF Accounts
  <2>4. c.flux + 1 \in Nat /\ c.bytes + l \in Nat /\ c.sum + y \in Nat
    BY <1>1, <2>3
  <2> HIDE DEF d
  <2>5. d = [flux |-> c.flux + 1, bytes |-> c.bytes + l, sum |-> c.sum + y, seg |-> c.seg]
    BY ONLY <2>2 DEF Accounts
  <2>6. d \in Accounts
    BY ONLY <2>3, <2>4, <2>5 DEF Accounts
  <2> QED BY ONLY <2>1, <2>5, <2>6
<1> HIDE DEF d, w
<1>6. r.out \o w \in Seq(Nat)
  BY <1>1, <1>4, JoinedIs
<1>7. x % Top \in Nat
  BY Rates, Divided
<1>8. Written(r, x) \in Coded
  BY <1>3, <1>5, <1>6, <1>7 DEF Coded
<1> QED BY <1>3, <1>5, <1>8 DEF l, y, w

LEMMA WrittenTyped ==
  ASSUME NEW r \in Coded, NEW x \in Nat
  PROVE  Written(r, x) \in Coded
<1> DEFINE t == (x - r.prev) % Top
<1>1. t \in 0 .. Top - 1
  <2>1. x - r.prev \in Int
    BY DEF Coded
  <2> QED BY <2>1, Rates, Divided
<1>2. CASE t = 0
  <2>1. Interval(t) = <<>>
    BY <1>2 DEF Interval
  <2>2. Written(r, x) = [prev |-> x % Top, out |-> r.out \o <<>>, cap |-> r.cap]
    BY <2>1, Zenon DEF Written
  <2>3. x % Top \in Nat
    BY Rates, Divided
  <2>4. r.out \o <<>> \in Seq(Nat) /\ r.cap \in Accounts
    BY DEF Coded
  <2> HIDE DEF t
  <2> QED BY <2>2, <2>3, <2>4 DEF Coded
<1>3. CASE t # 0
  <2>1. t \in 1 .. Top - 1
    BY <1>1, <1>3, Rates
  <2> QED BY <2>1, WrittenIs
<1> QED BY <1>2, <1>3

LEMMA EncodedExists ==
  ASSUME NEW prev \in Nat, NEW c \in Accounts, NEW s \in Seq(Nat)
  PROVE  \E f : /\ Encoded(prev, c, s) = f[Len(s)]
                /\ f[0] = Uncoded(prev, c)
                /\ \A n \in 0 .. Len(s) : f[n] \in Coded
                /\ \A n \in 1 .. Len(s) : f[n] = Written(f[n - 1], s[n])
<1> DEFINE m == Len(s)
           base == Uncoded(prev, c)
           step == [z \in Coded \X (1 .. m) |-> Written(z[1], s[z[2]])]
<1>1. m \in Nat /\ \A n \in 1 .. m : s[n] \in Nat
  BY LenProperties, ElementOfSeq
<1>2. base \in Coded
  BY DEF Coded, Uncoded
<1>3. step \in [Coded \X (1 .. m) -> Coded]
  <2>1. \A z \in Coded \X (1 .. m) : Written(z[1], s[z[2]]) \in Coded
    BY <1>1, WrittenTyped
  <2> QED BY <2>1
<1>4. \A r \in Coded, n \in 1 .. m : step[<<r, n>>] = Written(r, s[n])
  OBVIOUS
<1> HIDE DEF m, step
<1> PICK f \in [0 .. m -> Coded] : Follows(f, step, base, m)
  BY <1>1, <1>2, <1>3, RecursionExists
<1>5. f = [n \in 0 .. m |-> IF n = 0 THEN base ELSE step[<<f[n - 1], n>>]]
  BY DEF Follows
<1>6. \A n \in 0 .. m : n # 0 => step[<<f[n - 1], n>>] = Written(f[n - 1], s[n])
  <2> TAKE n \in 0 .. m
  <2> HAVE n # 0
  <2>1. n \in 1 .. m /\ n - 1 \in 0 .. m
    BY <1>1
  <2> QED BY <1>4, <2>1
<1>7. f = [n \in 0 .. m |-> IF n = 0 THEN base ELSE Written(f[n - 1], s[n])]
  BY <1>5, <1>6
<1>8. EncodedIn(f, prev, c, s)
  BY <1>7, Zenon DEF EncodedIn, m, Uncoded
<1> DEFINE g == EncodedBy(prev, c, s)
<1>9. EncodedIn(g, prev, c, s)
  BY <1>8, Zenon DEF EncodedBy
<1> HIDE DEF g
<1> DEFINE e(n) == IF n = 0 THEN base ELSE Written(g[n - 1], s[n])
<1>10. g = [n \in 0 .. m |-> e(n)]
  BY <1>9, Zenon DEF EncodedIn, m, Uncoded
<1>11. \A n \in 0 .. m : g[n] = e(n)
  BY <1>10
<1>12. g[0] = base /\ \A n \in 1 .. m : g[n] = Written(g[n - 1], s[n])
  <2>1. 0 \in 0 .. m /\ \A n \in 1 .. m : n \in 0 .. m /\ n # 0
    BY <1>1
  <2> QED BY <1>11, <2>1
<1> DEFINE N == {n \in 0 .. m : g[n] \in Coded}
<1>13. 0 \in N
  BY <1>1, <1>2, <1>12
<1>14. \A n \in 0 .. m - 1 : n \in N => n + 1 \in N
  <2> SUFFICES ASSUME NEW n \in 0 .. m - 1, n \in N PROVE n + 1 \in N
    OBVIOUS
  <2>1. n + 1 \in 1 .. m /\ n + 1 \in 0 .. m /\ (n + 1) - 1 = n
    BY <1>1
  <2>2. g[n + 1] = Written(g[n], s[n + 1])
    BY <1>12, <2>1
  <2>3. g[n + 1] \in Coded
    BY <1>1, <2>1, <2>2, WrittenTyped
  <2> QED BY <2>1, <2>3
<1>15. \A n \in 0 .. m : n \in N
  BY <1>1, <1>13, <1>14, UpToInduction
<1>16. Encoded(prev, c, s) = g[m]
  BY EncodedIsBy DEF g, m
<1> QED BY <1>12, <1>15, <1>16 DEF m

\* Each of the samples from k + 1 to m is at a distance that an interval can say, from
\* the one before it, or from the tick that the stream is at.
Spaced(taken, k, m, tick, pending) ==
  \A i \in k + 1 .. m :
    /\ taken[i] - (IF i = k + 1 THEN tick ELSE taken[i - 1]) \in 1 .. Top - 1
    /\ i = k + 1 /\ pending > 0 => taken[i] - tick >= Long

\* The walk after the samples up to the n-th.
Reached(q, taken, k, n, tick, pending) ==
  /\ q.t + q.pending = (IF n = k THEN tick ELSE taken[n])
  /\ q.pending = (IF n = k THEN pending ELSE 0)

\* The stream after the samples up to the n-th of at, coded as r.
Carries(a, r, p, taken, n, e, s) ==
  StreamIs(a \o r.out, p, SubSeq(taken, 1, n), e, r.cap, s) /\ r.prev = (p.t + p.pending) % Top

\* An interval can say that the next transition is at tick y.
Fits(p, y) ==
  /\ y - (p.t + p.pending) \in 1 .. Top - 1
  /\ p.pending > 0 => y - (p.t + p.pending) >= Long

LEMMA AppendedIs ==
  ASSUME NEW s \in Seq(Nat), NEW x \in Nat
  PROVE  /\ Append(s, x) \in Seq(Nat) /\ Len(Append(s, x)) = Len(s) + 1 /\ Append(s, x)[Len(s) + 1] = x
         /\ \A i \in 1 .. Len(s) : Append(s, x)[i] = s[i]
OBVIOUS

LEMMA StreamSample ==
  ASSUME NEW a \in Seq(Nat), NEW p, NEW e, NEW s, NEW taken \in Seq(Nat), NEW n \in Nat, n + 1 <= Len(taken),
         NEW r \in Coded, Carries(a, r, p, taken, n, e, s), Fits(p, taken[n + 1])
  PROVE  \E q : Carries(a, Written(r, taken[n + 1]), q, taken, n + 1, e, s) /\ q.t = taken[n + 1] /\ q.pending = 0
<1> DEFINE t == p.t + p.pending
           g == taken[n + 1] - t
<1>0. /\ StreamIs(a \o r.out, p, SubSeq(taken, 1, n), e, r.cap, s) /\ r.prev = t % Top
      /\ g \in 1 .. Top - 1 /\ (p.pending > 0 => g >= Long) /\ t \in Nat
  <2>1. StreamIs(a \o r.out, p, SubSeq(taken, 1, n), e, r.cap, s)
    BY DEF Carries
  <2>2. p.t \in Nat /\ p.pending \in Nat
    BY <2>1 DEF StreamIs, ReadsOn, PState
  <2> QED BY <2>1, <2>2 DEF Carries, Fits
<1>13. taken[n + 1] - t = g
  OBVIOUS
<1> HIDE DEF g
<1> DEFINE y == taken[n + 1]
           w == Interval(g)
           z == Written(r, y)
           x == SubSeq(taken, 1, n)
           b == a \o r.out
<1>1. y \in Nat /\ n + 1 \in 1 .. Len(taken) /\ Len(taken) \in Nat
  BY LenProperties, ElementOfSeq
<1> HIDE DEF y
<1>2. (y - r.prev) % Top = g /\ y - t = g
  <2>1. y - t \in 0 .. Top - 1 /\ y - t = g
    BY <1>0, <1>13, Rates DEF y
  <2>2. (y - (t % Top)) % Top = y - t
    <3>1. t \in Int /\ y \in Int /\ Top \in Nat \ {0}
      BY <1>0, <1>1, Rates
    <3> QED BY ONLY <2>1, <3>1, Wrapped
  <2>3. (y - r.prev) % Top = (y - (t % Top)) % Top
    BY <1>0
  <2> QED BY ONLY <2>1, <2>2, <2>3, Zenon
<1>3. /\ z \in Coded /\ z.prev = y % Top
      /\ z.out = r.out \o w
      /\ z.cap.flux = r.cap.flux + 1
      /\ z.cap.bytes = r.cap.bytes + Len(w)
      /\ z.cap.sum = r.cap.sum + Sum(w)
  BY <1>0, <1>1, <1>2, WrittenIs
<1>4. w \in Seq(Nat)
  BY <1>0, IntervalBytes
<1>5. p.t + p.pending + g = y
  <2> HIDE DEF t
  <2>1. t + g = y
    BY <1>0, <1>1, <1>2
  <2> QED BY <2>1 DEF t
<1> HIDE DEF x, z, b
<1>6. StreamIs(b, p, x, e, r.cap, s)
  BY <1>0 DEF x, b
<1>7. Counted(z.cap, r.cap, w)
  BY <1>3, Zenon DEF Counted
<1>8. PICK q : StreamIs(b \o w, q, Append(x, y), e, z.cap, s) /\ q.t = y /\ q.pending = 0
  <2>1. \E q : /\ StreamIs(b \o w, q, Append(x, p.t + p.pending + g), e, z.cap, s)
               /\ q.t = p.t + p.pending + g /\ q.pending = 0
    BY <1>0, <1>6, <1>7, StreamTransition
  <2> QED BY ONLY <1>5, <2>1, Zenon
<1> HIDE DEF w
<1>9. b \o w = a \o z.out
  <2>1. r.out \in Seq(Nat)
    BY DEF Coded
  <2>2. (a \o r.out) \o w = a \o (r.out \o w)
    BY <1>4, <2>1, JoinsAssociate
  <2> QED BY ONLY <1>3, <2>2, Zenon DEF b
<1>10. Append(x, y) = SubSeq(taken, 1, n + 1)
  <2> DEFINE u == SubSeq(taken, 1, n + 1)
             v == Append(x, y)
  <2>1. n <= Len(taken) /\ n + 1 <= Len(taken) /\ n + 1 \in Nat
    BY <1>1
  <2>2. x \in Seq(Nat) /\ Len(x) = n /\ \A i \in 1 .. n : x[i] = taken[i]
    BY <2>1 DEF x
  <2>3. u \in Seq(Nat) /\ Len(u) = n + 1 /\ \A i \in 1 .. n + 1 : u[i] = taken[i]
    BY <2>1
  <2>4. v \in Seq(Nat) /\ Len(v) = n + 1 /\ v[n + 1] = y /\ \A i \in 1 .. n : v[i] = x[i]
    <3>1. /\ v \in Seq(Nat) /\ Len(v) = Len(x) + 1 /\ v[Len(x) + 1] = y
          /\ \A i \in 1 .. Len(x) : v[i] = x[i]
      BY <1>1, <2>2, AppendedIs
    <3> HIDE DEF v
    <3> QED BY ONLY <2>2, <3>1, Zenon
  <2> HIDE DEF u, v
  <2>5. \A i \in 1 .. n + 1 : u[i] = v[i]
    <3>1. \A i \in 1 .. n + 1 : i \in 1 .. n \/ i = n + 1
      OBVIOUS
    <3> QED BY <2>2, <2>3, <2>4, <3>1 DEF y
  <2>6. u = v
    BY <2>3, <2>4, <2>5, SeqEqual
  <2> QED BY <2>6 DEF u, v
<1>11. StreamIs(a \o z.out, q, SubSeq(taken, 1, n + 1), e, z.cap, s)
  BY ONLY <1>8, <1>9, <1>10, Zenon
<1>12. q.t + q.pending = y
  BY <1>1, <1>8
<1> QED BY <1>3, <1>8, <1>11, <1>12, Zenon DEF z, y, Carries

LEMMA StreamEncodes ==
  ASSUME NEW a \in Seq(Nat), NEW p, NEW e, NEW s, NEW taken \in Seq(Nat), NEW k \in Nat, NEW m \in Nat,
         k <= m, m <= Len(taken), NEW c \in Accounts, StreamIs(a, p, SubSeq(taken, 1, k), e, c, s),
         NEW t \in Nat, t = p.t + p.pending, Spaced(taken, k, m, t, p.pending),
         NEW r, r = Encoded(t % Top, c, SubSeq(taken, k + 1, m))
  PROVE  /\ r \in Coded
         /\ \E q : /\ Carries(a, r, q, taken, m, e, s)
                   /\ Reached(q, taken, k, m, t, p.pending)
<1> DEFINE v == SubSeq(taken, k + 1, m)
           l == m - k
           prev == t % Top
<1>1. v \in Seq(Nat) /\ Len(v) = l /\ l \in Nat /\ \A i \in 1 .. l : v[i] = taken[k + i]
  <2>1. v \in Seq(Nat) /\ Len(v) = (IF k + 1 <= m THEN (m - (k + 1)) + 1 ELSE 0)
        /\ \A i \in 1 .. Len(v) : v[i] = taken[(k + 1) + i - 1]
    <3>1. k + 1 \in Nat /\ k + 1 >= 1 /\ k + 1 <= m + 1 /\ m <= Len(taken)
      OBVIOUS
    <3> QED BY <3>1
  <2>2. l \in Nat /\ Len(v) = l
    BY <2>1
  <2>3. \A i \in 1 .. l : (k + 1) + i - 1 = k + i
    BY <2>2
  <2> HIDE DEF v, l
  <2>4. \A i \in 1 .. l : v[i] = taken[(k + 1) + i - 1]
    BY ONLY <2>1, <2>2, Zenon
  <2>5. \A i \in 1 .. l : v[i] = taken[k + i]
    BY ONLY <2>3, <2>4, Zenon
  <2> QED BY ONLY <2>1, <2>2, <2>5, Zenon
<1>2. prev \in Nat
  <2>1. t \in Int /\ Top \in Nat \ {0}
    BY Rates
  <2>2. prev \in 0 .. Top - 1
    BY ONLY <2>1, Divided
  <2> HIDE DEF prev
  <2> QED BY ONLY <2>1, <2>2
<1> HIDE DEF v, prev
<1> PICK f : /\ Encoded(prev, c, v) = f[Len(v)]
             /\ f[0] = Uncoded(prev, c)
             /\ \A n \in 0 .. Len(v) : f[n] \in Coded
             /\ \A n \in 1 .. Len(v) : f[n] = Written(f[n - 1], v[n])
  BY <1>1, <1>2, EncodedExists
<1> DEFINE I(n) == \E q : Carries(a, f[n], q, taken, k + n, e, s) /\ Reached(q, taken, k, k + n, t, p.pending)
           N == {n \in 0 .. l : I(n)}
<1>3. 0 \in N
  <2>1. f[0].out = <<>> /\ f[0].prev = prev /\ f[0].cap = c
    BY DEF Uncoded
  <2>2. a \o <<>> = a
    OBVIOUS
  <2>3. k + 0 = k /\ 0 \in 0 .. l
    BY <1>1
  <2>4. Reached(p, taken, k, k, t, p.pending)
    BY DEF Reached
  <2>5. I(0)
    <3>1. StreamIs(a \o f[0].out, p, SubSeq(taken, 1, k + 0), e, f[0].cap, s)
      BY <2>1, <2>2, <2>3
    <3>2. f[0].prev = (p.t + p.pending) % Top
      BY <2>1 DEF prev
    <3>3. Carries(a, f[0], p, taken, k + 0, e, s)
      BY <3>1, <3>2 DEF Carries
    <3> QED BY <2>3, <2>4, <3>3
  <2> QED BY <2>3, <2>5
<1>4. \A n \in 0 .. l - 1 : n \in N => n + 1 \in N
  <2> SUFFICES ASSUME NEW n \in 0 .. l - 1, I(n) PROVE n + 1 \in 0 .. l /\ I(n + 1)
    OBVIOUS
  <2> PICK q : Carries(a, f[n], q, taken, k + n, e, s) /\ Reached(q, taken, k, k + n, t, p.pending)
    OBVIOUS
  <2>1. /\ n + 1 \in 1 .. l /\ n + 1 \in 0 .. l /\ (n + 1) - 1 = n /\ n \in 0 .. l /\ k + n \in Nat
        /\ k + (n + 1) = (k + n) + 1 /\ (k + n) + 1 <= Len(taken) /\ (k + n) + 1 \in k + 1 .. m
        /\ ((k + n) + 1) - 1 = k + n /\ ((k + n) + 1 = k + 1 <=> k + n = k)
    <3>1. Len(taken) \in Nat
      BY LenProperties
    <3> QED BY <1>1, <3>1
  <2>2. f[n] \in Coded
    BY <1>1, <2>1
  <2>3. f[n + 1] = Written(f[n], taken[(k + n) + 1])
    BY <1>1, <2>1
  <2> DEFINE j == k + n
             y == taken[j + 1]
             u == q.t + q.pending
             g == y - u
  <2>4. /\ u = (IF j = k THEN t ELSE taken[j]) /\ q.pending = (IF j = k THEN p.pending ELSE 0)
    BY DEF Reached
  <2>5. u \in Nat
    <3>1. j # k => j \in 1 .. Len(taken)
      BY <1>1, <2>1, LenProperties
    <3>2. j # k => taken[j] \in Nat
      BY <3>1, ElementOfSeq
    <3> HIDE DEF j, u
    <3> QED BY <2>4, <3>2
  <2>6. /\ y - (IF j + 1 = k + 1 THEN t ELSE taken[(j + 1) - 1]) \in 1 .. Top - 1
        /\ j + 1 = k + 1 /\ p.pending > 0 => y - t >= Long
    BY <2>1 DEF Spaced
  <2>7. g \in 1 .. Top - 1 /\ (q.pending > 0 => g >= Long)
    <3>1. (j + 1 = k + 1 <=> j = k) /\ (j + 1) - 1 = j
      BY <2>1
    <3> HIDE DEF j, y
    <3>2. CASE j = k
      BY <2>4, <2>6, <3>1, <3>2
    <3>3. CASE j # k
      <4>1. u = taken[j] /\ q.pending = 0
        BY <2>4, <3>3
      <4>2. y - taken[j] \in 1 .. Top - 1
        BY <2>6, <3>1, <3>3
      <4>3. ~(q.pending > 0)
        BY <4>1
      <4> HIDE DEF u
      <4> QED BY <4>1, <4>2, <4>3
    <3> QED BY <3>2, <3>3
  <2> HIDE DEF g
  <2>8. y - u = g
    BY DEF g
  <2> HIDE DEF j, u
  <2>9. u = q.t + q.pending /\ j \in Nat /\ j + 1 <= Len(taken) /\ Carries(a, f[n], q, taken, j, e, s)
    BY <2>1 DEF u, j
  <2>10. Fits(q, y)
    BY <2>7, <2>8, <2>9 DEF Fits
  <2>11. PICK q2 : Carries(a, Written(f[n], y), q2, taken, j + 1, e, s) /\ q2.t = y /\ q2.pending = 0
    BY <2>2, <2>9, <2>10, StreamSample
  <2>12. y \in Nat /\ q2.t + q2.pending = y
    <3>1. j + 1 \in 1 .. Len(taken)
      BY <2>9, LenProperties
    <3>2. y \in Nat
      BY <3>1, ElementOfSeq
    <3> QED BY <2>11, <3>2
  <2>13. Reached(q2, taken, k, j + 1, t, p.pending)
    <3>1. j + 1 # k
      BY <2>1 DEF j
    <3> QED BY <2>11, <2>12, <3>1 DEF Reached
  <2>14. k + (n + 1) = j + 1 /\ f[n + 1] = Written(f[n], y)
    BY <2>1, <2>3 DEF j
  <2> HIDE DEF y
  <2>15. I(n + 1)
    BY <2>11, <2>12, <2>13, <2>14, Zenon
  <2> QED BY <2>1, <2>15
<1>5. \A n \in 0 .. l : n \in N
  BY <1>1, <1>3, <1>4, UpToInduction
<1>6. I(l)
  <2>1. l \in 0 .. l
    BY <1>1
  <2> QED BY <1>5, <2>1
<1>7. k + l = m
  OBVIOUS
<1>8. r = f[l] /\ f[l] \in Coded
  BY <1>1 DEF v, prev
<1> HIDE DEF l
<1> QED BY <1>6, <1>7, <1>8

-----------------------------------------------------------------------------
(* The invariant. *)

DmaState == [at : Seq(Nat), prod : Nat, cons : Nat, prev : Nat]
EdgeState == [count : Nat, at : Nat, nr : Nat]
SeenState == [edges : Seq(Nat), pumps : Nat]

FluxTypes ==
  /\ now \in Nat /\ dma \in DmaState /\ index \in EdgeState /\ account \in Accounts /\ seen \in SeenState
  /\ phase \in {"between", "pumping", "sealed"}

\* The samples rise, and are of the past.
Risen(taken, till) ==
  /\ \A i \in 1 .. Len(taken) : taken[i] <= till
  /\ \A i \in 2 .. Len(taken) : taken[i - 1] < taken[i]

\* b has the samples of a, and more that lie after one tick and up to another.
Later(a, b, after, till) ==
  /\ b \in Seq(Nat) /\ Len(a) <= Len(b) /\ \A i \in 1 .. Len(a) : b[i] = a[i]
  /\ \A i \in Len(a) + 1 .. Len(b) : after < b[i] /\ b[i] <= till

\* The samples that are not consumed yet lie after the tick t that the stream is at, and
\* far enough if it has dead time pending.
Ahead(taken, cons, t, pending) ==
  \A i \in cons + 1 .. Len(taken) : t < taken[i] /\ (pending > 0 => taken[i] - t >= Long)

Timely(t, pending) ==
  /\ t \in Nat /\ dma.prev = t % Top /\ t <= now
  /\ phase = "between" => now - t <= 2 * Filler
  /\ phase = "pumping" => now - t + Work <= 3 * Filler
  /\ pending > 0 => now - t >= Long
  /\ Ahead(dma.at, dma.cons, t, pending)
  /\ index.count # index.nr => t <= index.at /\ index.at <= now

Pumped ==
  /\ dma.cons <= dma.prod /\ dma.prod <= Len(dma.at) /\ Risen(dma.at, now)
  /\ phase = "between" => dma.cons = dma.prod
  /\ phase = "pumping" => dma.prod = Len(dma.at) /\ index.count = index.nr

Streamed(p) ==
  /\ StreamIs(buf, p, SubSeq(dma.at, 1, dma.cons), seen.edges, account, Len(seen.edges))
  /\ Timely(p.t + p.pending, p.pending)

Told ==
  /\ dma.cons = Len(dma.at) /\ buf \in Seq(Nat)
  /\ TellsAll(buf, dma.at, seen.edges, Len(seen.edges)) /\ TellsCut(buf, dma.at, seen.edges)

FluxInv ==
  /\ FluxTypes
  /\ phase # "sealed" => Pumped /\ \E p : Streamed(p)
  /\ phase = "sealed" => Told

LEMMA LaterIsRisen ==
  ASSUME NEW a \in Seq(Nat), NEW b, NEW x \in Nat, NEW y \in Nat, x <= y, Risen(a, x), Later(a, b, x, y),
         \A i \in Len(a) + 2 .. Len(b) : b[i - 1] < b[i]
  PROVE  Risen(b, y)
<1> DEFINE n == Len(a)
           m == Len(b)
<1>1. /\ b \in Seq(Nat) /\ n <= m /\ (\A i \in 1 .. n : b[i] = a[i]) /\ n \in Nat /\ m \in Nat
      /\ \A i \in n + 1 .. m : x < b[i] /\ b[i] <= y
  BY LenProperties DEF Later
<1>2. (\A i \in 1 .. n : a[i] <= x) /\ \A i \in 2 .. n : a[i - 1] < a[i]
  BY DEF Risen
<1>3. \A i \in n + 2 .. m : b[i - 1] < b[i]
  OBVIOUS
<1>4. (\A i \in 1 .. n : a[i] \in Nat) /\ \A i \in 1 .. m : b[i] \in Nat
  BY <1>1, ElementOfSeq
<1> HIDE DEF n, m
<1>5. \A i \in 1 .. m : b[i] <= y
  <2> TAKE i \in 1 .. m
  <2>1. CASE i <= n
    <3>1. b[i] <= x /\ b[i] \in Nat
      BY <1>1, <1>2, <1>4, <2>1
    <3> QED BY <3>1
  <2>2. CASE i > n
    BY <1>1, <2>2
  <2> QED BY <1>1, <2>1, <2>2
<1>6. \A i \in 2 .. m : b[i - 1] < b[i]
  <2> TAKE i \in 2 .. m
  <2>1. i \in Nat /\ i - 1 \in 1 .. m /\ i \in 1 .. m
    BY <1>1
  <2>2. CASE i <= n
    <3>1. i \in 2 .. n /\ i - 1 \in 1 .. n /\ i \in 1 .. n
      BY <1>1, <2>1, <2>2
    <3> QED BY <1>1, <1>2, <3>1
  <2>3. CASE i = n + 1
    <3>1. i - 1 \in 1 .. n /\ i \in n + 1 .. m
      BY <1>1, <2>1, <2>3
    <3>2. b[i - 1] <= x /\ x < b[i] /\ b[i - 1] \in Nat /\ b[i] \in Nat
      BY <1>1, <1>2, <1>4, <2>1, <3>1
    <3> QED BY <3>2
  <2>4. CASE i > n + 1
    <3>1. i \in n + 2 .. m
      BY <1>1, <2>1, <2>4
    <3> QED BY <1>3, <3>1
  <2> QED BY <1>1, <2>1, <2>2, <2>3, <2>4
<1> QED BY <1>5, <1>6 DEF Risen, m

LEMMA SamplesAre ==
  ASSUME now \in Nat, dma.at \in Seq(Nat), Risen(dma.at, now), NEW t \in Nat, now <= t, NEW s \in Samples(t)
  PROVE  Later(dma.at, dma.at \o s, now, t) /\ Risen(dma.at \o s, t)
<1> DEFINE a == dma.at
           b == a \o s
           first == {x \in {LastSample + d : d \in Deltas} : now < x /\ x <= t}
<1>1. LastSample \in Nat /\ Len(a) \in Nat
  <2>1. a # <<>> => Last(a) \in Nat
    <3>1. a # <<>> => Len(a) \in 1 .. Len(a)
      BY LenProperties, EmptySeq
    <3> QED BY <3>1, ElementOfSeq DEF Last
  <2> QED BY <2>1, LenProperties DEF LastSample
<1>2. \A x \in first : x \in Nat /\ now < x /\ x <= t
  <2>1. \A d \in Deltas : d \in Nat
    BY RateAssumption
  <2> QED BY <1>1, <2>1
<1>3. \/ s = <<>>
      \/ \E x \in first : s = <<x>>
      \/ \E x \in first, d \in Deltas : s = <<x, x + d>> /\ (Len(s) = 2 => s[2] <= t)
  <2> DEFINE second == {<<x, x + d>> : x \in first, d \in Deltas}
  <2>1. Samples(t) = {r \in {<<>>} \cup {<<x>> : x \in first} \cup second :
                        Len(r) + Len(dma.at) <= MaxFlux /\ (Len(r) = 2 => r[2] <= t)}
    BY DEF Samples
  <2> HIDE DEF first
  <2>2. s \in {<<>>} \cup {<<x>> : x \in first} \cup second /\ (Len(s) = 2 => s[2] <= t)
    BY <2>1
  <2>3. s \in second => \E x \in first, d \in Deltas : s = <<x, x + d>>
    OBVIOUS
  <2> HIDE DEF second
  <2> QED BY <2>2, <2>3
<1>4. \A d \in Deltas : d \in Nat \ {0}
  BY RateAssumption
<1> HIDE DEF first
<1>5. /\ s \in Seq(Nat) /\ \A k \in 1 .. Len(s) : now < s[k] /\ s[k] <= t
      /\ \A k \in 2 .. Len(s) : s[k - 1] < s[k]
  <2>1. CASE s = <<>>
    BY <2>1
  <2>2. ASSUME NEW x \in first, s = <<x>>
        PROVE  /\ s \in Seq(Nat) /\ \A k \in 1 .. Len(s) : now < s[k] /\ s[k] <= t
               /\ \A k \in 2 .. Len(s) : s[k - 1] < s[k]
    <3>1. x \in Nat /\ now < x /\ x <= t
      BY <1>2, <2>2
    <3>2. s \in Seq(Nat) /\ Len(s) = 1 /\ s[1] = x
      BY <2>2, <3>1
    <3>3. (\A k \in 1 .. 1 : k = 1) /\ \A k \in 2 .. 1 : FALSE
      OBVIOUS
    <3> QED BY <3>1, <3>2, <3>3
  <2>3. ASSUME NEW x \in first, NEW d \in Deltas, s = <<x, x + d>>, Len(s) = 2 => s[2] <= t
        PROVE  /\ s \in Seq(Nat) /\ \A k \in 1 .. Len(s) : now < s[k] /\ s[k] <= t
               /\ \A k \in 2 .. Len(s) : s[k - 1] < s[k]
    <3>1. x \in Nat /\ now < x /\ x <= t /\ x + d \in Nat /\ x < x + d
      BY <1>2, <1>4, <2>3
    <3>2. s \in Seq(Nat) /\ Len(s) = 2 /\ s[1] = x /\ s[2] = x + d
      BY <2>3, <3>1
    <3>3. (\A k \in 1 .. 2 : k = 1 \/ k = 2) /\ (\A k \in 2 .. 2 : k = 2) /\ 2 - 1 = 1
      OBVIOUS
    <3>4. now < x + d /\ x + d <= t
      BY <2>3, <3>1, <3>2
    <3> QED BY <3>1, <3>2, <3>3, <3>4
  <2> QED BY <1>3, <2>1, <2>2, <2>3
<1>6. /\ b \in Seq(Nat) /\ Len(b) = Len(a) + Len(s)
      /\ \A k \in 1 .. Len(a) : b[k] = a[k]
      /\ \A k \in 1 .. Len(s) : b[Len(a) + k] = s[k]
  BY <1>5, JoinedIs
<1>7. Len(s) \in Nat
  BY <1>5, LenProperties
<1> DEFINE n == Len(a)
           l == Len(s)
<1> HIDE DEF b, a, n, l
<1>8. n \in Nat /\ l \in Nat /\ Len(b) = n + l
  BY <1>1, <1>6, <1>7 DEF n, l
<1>9. \A k \in 1 .. l : b[n + k] = s[k] /\ now < s[k] /\ s[k] <= t
  BY <1>5, <1>6 DEF n, l
<1>10. \A i \in n + 1 .. n + l : i - n \in 1 .. l /\ n + (i - n) = i
  BY <1>8
<1>11. \A i \in n + 1 .. n + l : now < b[i] /\ b[i] <= t
  BY <1>9, <1>10
<1>12. Later(a, b, now, t)
  BY <1>6, <1>8, <1>11 DEF Later, n
<1>13. \A i \in n + 2 .. n + l : b[i - 1] < b[i]
  <2> TAKE i \in n + 2 .. n + l
  <2>1. i - n \in 2 .. l /\ i - n \in 1 .. l /\ (i - n) - 1 \in 1 .. l /\ n + (i - n) = i /\ n + ((i - n) - 1) = i - 1
    BY <1>8
  <2>2. s[(i - n) - 1] < s[i - n]
    BY <1>5, <2>1 DEF l
  <2> QED BY <1>9, <2>1, <2>2
<1>14. Risen(b, t)
  BY <1>8, <1>12, <1>13, LaterIsRisen DEF a, n
<1> QED BY <1>12, <1>14 DEF a, b

LEMMA AheadLater ==
  ASSUME NEW a \in Seq(Nat), NEW b, NEW x \in Nat, NEW y \in Nat, NEW cons \in Nat, NEW t \in Nat, NEW pending \in Nat,
         Later(a, b, x, y), Ahead(a, cons, t, pending), t <= x, pending > 0 => x - t >= Long
  PROVE  Ahead(b, cons, t, pending)
<1>1. /\ b \in Seq(Nat) /\ Len(a) <= Len(b) /\ (\A i \in 1 .. Len(a) : b[i] = a[i])
      /\ Len(a) \in Nat /\ Len(b) \in Nat
      /\ \A i \in Len(a) + 1 .. Len(b) : x < b[i] /\ b[i] <= y
  BY LenProperties DEF Later
<1>2. ASSUME NEW i \in cons + 1 .. Len(b) PROVE t < b[i] /\ (pending > 0 => b[i] - t >= Long)
  <2>1. i \in 1 .. Len(b) /\ b[i] \in Nat
    BY <1>1, <1>2, ElementOfSeq
  <2>2. CASE i <= Len(a)
    <3>1. i \in cons + 1 .. Len(a) /\ i \in 1 .. Len(a)
      BY <1>1, <2>1, <2>2
    <3> QED BY <1>1, <3>1 DEF Ahead
  <2>3. CASE i > Len(a)
    <3>1. i \in Len(a) + 1 .. Len(b)
      BY <1>1, <2>1, <2>3
    <3>2. x < b[i]
      BY <1>1, <3>1
    <3>3. Long \in Nat
      BY Rates
    <3> QED BY <2>1, <3>2, <3>3
  <2> QED BY <1>1, <2>1, <2>2, <2>3
<1> QED BY <1>2 DEF Ahead

LEMMA SubSeqLater ==
  ASSUME NEW a \in Seq(Nat), NEW b, NEW x, NEW y, Later(a, b, x, y), NEW n \in Nat, n <= Len(a)
  PROVE  SubSeq(b, 1, n) = SubSeq(a, 1, n)
<1>1. b \in Seq(Nat) /\ Len(a) <= Len(b) /\ (\A i \in 1 .. Len(a) : b[i] = a[i]) /\ Len(a) \in Nat /\ Len(b) \in Nat
  BY LenProperties DEF Later
<1> DEFINE u == SubSeq(a, 1, n)
           v == SubSeq(b, 1, n)
<1>2. u \in Seq(Nat) /\ Len(u) = n /\ \A i \in 1 .. n : u[i] = a[i]
  OBVIOUS
<1>3. v \in Seq(Nat) /\ Len(v) = n /\ \A i \in 1 .. n : v[i] = b[i]
  <2>1. n <= Len(b)
    BY <1>1
  <2> QED BY <1>1, <2>1
<1> HIDE DEF u, v
<1>4. \A i \in 1 .. n : i \in 1 .. Len(a)
  BY <1>1
<1>5. \A i \in 1 .. Len(u) : u[i] = v[i]
  BY <1>1, <1>2, <1>3, <1>4
<1>6. u = v
  BY <1>2, <1>3, <1>5, SeqEqual
<1> QED BY <1>6 DEF u, v

LEMMA StreamAccount ==
  ASSUME NEW a, NEW p, NEW x, NEW e, NEW c, NEW s, StreamIs(a, p, x, e, c, s),
         NEW d, d.flux = c.flux, d.bytes = c.bytes, d.sum = c.sum
  PROVE  StreamIs(a, p, x, e, d, s)
BY Zenon DEF StreamIs

LEMMA EdgesAre ==
  ASSUME index \in EdgeState, now \in Nat, NEW t \in Nat, NEW e \in Edges(t)
  PROVE  e \in EdgeState /\ e.nr = index.nr /\ (e # index => now < e.at /\ e.at <= t)
<1>1. e = index \/ \E x \in {y \in {now + 1, t} : index.count < MaxIndex /\ now < y /\ y <= t} :
                     e = [index EXCEPT !.count = @ + 1, !.at = x]
  BY DEF Edges
<1>2. ASSUME NEW x \in {y \in {now + 1, t} : index.count < MaxIndex /\ now < y /\ y <= t},
             e = [index EXCEPT !.count = @ + 1, !.at = x]
      PROVE  e \in EdgeState /\ e.nr = index.nr /\ now < e.at /\ e.at <= t
  <2>1. x \in Nat /\ now < x /\ x <= t
    OBVIOUS
  <2>2. index.count \in Nat /\ index.nr \in Nat /\ index.count + 1 \in Nat
    BY DEF EdgeState
  <2>3. e = [count |-> index.count + 1, at |-> x, nr |-> index.nr]
    BY <1>2 DEF EdgeState
  <2> QED BY ONLY <2>1, <2>2, <2>3 DEF EdgeState
<1> QED BY <1>1, <1>2

LEMMA BeginTimely ==
  ASSUME FluxTypes, phase = "between", NEW t, NEW pending \in Nat, Timely(t, pending), NEW g \in Gaps,
         now' = now + g, phase' = "pumping", dma'.prev = dma.prev, dma'.cons = dma.cons,
         Later(dma.at, dma'.at, now, now'), index'.count = index'.nr
  PROVE  Timely(t, pending)' /\ now' \in Nat
<1>1. /\ t \in Nat /\ dma.prev = t % Top /\ t <= now /\ now - t <= 2 * Filler
      /\ pending > 0 => now - t >= Long
      /\ Ahead(dma.at, dma.cons, t, pending)
  BY DEF Timely
<1>2. now \in Nat /\ dma.at \in Seq(Nat) /\ dma.cons \in Nat
  BY DEF FluxTypes, DmaState
<1>3. g \in Nat /\ g + Work <= Filler
  BY RateAssumption
<1>4. now' \in Nat /\ now <= now' /\ t <= now'
  BY <1>1, <1>2, <1>3
<1>5. now' - t + Work <= 3 * Filler
  <2>1. Work \in Nat /\ Filler \in Nat
    BY Rates
  <2>2. now' = now + g
    OBVIOUS
  <2> QED BY ONLY <1>1, <1>2, <1>3, <2>1, <2>2
<1>6. pending > 0 => now' - t >= Long
  <2>1. Long \in Nat
    BY Rates
  <2>2. now' = now + g
    OBVIOUS
  <2> QED BY ONLY <1>1, <1>2, <1>3, <2>1, <2>2
<1>7. Ahead(dma'.at, dma'.cons, t, pending)
  <2>1. Ahead(dma'.at, dma.cons, t, pending)
    BY <1>1, <1>2, <1>4, AheadLater
  <2> QED BY <2>1
<1> QED BY <1>1, <1>4, <1>5, <1>6, <1>7 DEF Timely

\* A SEGMENT is what an INDEX edge is framed with.
LEMMA StreamFramed ==
  ASSUME NEW a, NEW p, NEW x, NEW e, NEW c, NEW s, StreamIs(a, p, x, e, c, s), s \in Nat,
         NEW y \in Nat, p.t + p.pending <= y, y - (p.t + p.pending) < Top, NEW n \in Nat,
         NEW k, k = y - (p.t + p.pending)
  PROVE  \E q : /\ StreamIs(a \o <<Esc, INDEX>> \o N28(k) \o Marker(SEGMENT, <<k, n>>), q, x, Append(e, y), c, s + 1)
                /\ q.t = p.t /\ q.pending = p.pending
<1> DEFINE w == EdgeAt(k)
           v == Marker(SEGMENT, <<k, n>>)
<1>1. a \in Seq(Nat) /\ p.t \in Nat /\ p.pending \in Nat
  BY DEF StreamIs, ReadsOn, PState
<1>2. k \in Nat /\ k < Half * (Half * (Half * Half)) /\ y = p.t + p.pending + k
  <2>1. Top <= Half * (Half * (Half * Half)) /\ Top \in Nat
    <3>1. Half \in Nat /\ Top \in Nat /\ TwoBytes \in Nat /\ Top + TwoBytes <= Half * (Half * (Half * Half))
      BY Rates
    <3>2. PICK h \in Nat : h = Half * (Half * (Half * Half))
      BY <3>1
    <3>3. Top <= h
      BY ONLY <3>1, <3>2
    <3> QED BY <3>1, <3>2, <3>3
  <2>2. PICK h \in Nat : h = Half * (Half * (Half * Half))
    BY Rates
  <2>3. k \in Nat /\ k < h
    <3>1. Top <= h
      BY <2>1, <2>2
    <3> QED BY <1>1, <2>1, <3>1
  <2>4. y = p.t + p.pending + k
    BY <1>1
  <2> QED BY <2>2, <2>3, <2>4
<1> HIDE DEF w
<1>3. PICK q : StreamIs(a \o w, q, x, Append(e, y), c, s) /\ q.t = p.t /\ q.pending = p.pending
  BY <1>2, StreamEdge DEF w
<1>4. SEGMENT \in Markers /\ SEGMENT # END /\ <<k, n>> \in Seq(Nat) /\ SEGMENT \in Nat
  BY <1>2 DEF SEGMENT, END, Markers
<1>5. PICK r : StreamIs((a \o w) \o v, r, x, Append(e, y), c, s + 1) /\ r.t = q.t /\ r.pending = q.pending
  <2>1. ASSUME NEW code \in Markers, code # END, NEW payload \in Seq(Nat), code = SEGMENT
        PROVE  \E z : /\ StreamIs((a \o w) \o Marker(code, payload), z, x, Append(e, y), c, s + 1)
                      /\ z.t = q.t /\ z.pending = q.pending
    <3>1. \E z : /\ StreamIs((a \o w) \o Marker(code, payload), z, x, Append(e, y), c, s + (IF code = SEGMENT THEN 1 ELSE 0))
                 /\ z.t = q.t /\ z.pending = q.pending
      BY <1>3, <2>1, StreamMarker
    <3>2. (IF code = SEGMENT THEN 1 ELSE 0) = 1
      BY <2>1
    <3> QED BY ONLY <3>1, <3>2, Zenon
  <2> QED BY ONLY <1>4, <2>1, Zenon
<1>6. a \o w = a \o <<Esc, INDEX>> \o N28(k)
  <2>1. <<Esc, INDEX>> \in Seq(Nat)
    BY Rates DEF INDEX
  <2>2. N28(k) \in Seq(Nat)
    BY <1>2, N28Bytes
  <2>3. (a \o <<Esc, INDEX>>) \o N28(k) = a \o (<<Esc, INDEX>> \o N28(k))
    BY <1>1, <2>1, <2>2, JoinsAssociate
  <2>4. w = <<Esc, INDEX>> \o N28(k)
    BY Zenon DEF w, EdgeAt
  <2> QED BY ONLY <2>3, <2>4, Zenon
<1>7. StreamIs((a \o w) \o v, r, x, Append(e, y), c, s + 1)
  BY <1>5
<1> HIDE DEF v
<1>8. StreamIs(a \o <<Esc, INDEX>> \o N28(k) \o v, r, x, Append(e, y), c, s + 1)
  BY ONLY <1>6, <1>7, Zenon
<1>9. r.t = p.t /\ r.pending = p.pending
  BY ONLY <1>3, <1>5, Zenon
<1> QED BY ONLY <1>8, <1>9, Zenon DEF v

Begun(g, s, e) ==
  LET taken    == dma.at \o s
      span == (e.at - dma.prev) % Top
  IN  /\ now' = now + g
      /\ dma' = [dma EXCEPT !.at = taken, !.prod = Len(taken)]
      /\ index' = [e EXCEPT !.nr = e.count]
      /\ IF e.count = index.nr THEN UNCHANGED <<buf, account>> /\ seen' = [seen EXCEPT !.pumps = @ + 1]
         ELSE /\ buf' = buf \o <<Esc, INDEX>> \o N28(span) \o Marker(SEGMENT, <<span, account.seg + 1>>)
              /\ account' = [account EXCEPT !.seg = @ + 1]
              /\ seen' = [edges |-> Append(seen.edges, e.at), pumps |-> seen.pumps + 1]

LEMMA FluxBegins == ASSUME FluxInv, BeginPump PROVE FluxInv'
<1>0. \E g \in Gaps : \E s \in Samples(now + g), e \in Edges(now + g) : Begun(g, s, e)
  BY Zenon DEF BeginPump, Begun
<1> PICK g \in Gaps : \E s \in Samples(now + g), e \in Edges(now + g) : Begun(g, s, e)
  BY <1>0
<1> PICK s \in Samples(now + g), e \in Edges(now + g) : Begun(g, s, e)
  OBVIOUS
<1>1. phase = "between" /\ phase' = "pumping"
  BY DEF BeginPump
<1>2. FluxTypes /\ Pumped
  BY <1>1 DEF FluxInv
<1>3. PICK p : Streamed(p)
  BY <1>1 DEF FluxInv
<1> DEFINE taken == dma.at \o s
           span == (e.at - dma.prev) % Top
           t == p.t + p.pending
<1>4. /\ now \in Nat /\ dma \in DmaState /\ index \in EdgeState /\ account \in Accounts /\ seen \in SeenState
  BY <1>2 DEF FluxTypes
<1>5. /\ dma.at \in Seq(Nat) /\ dma.prod \in Nat /\ dma.cons \in Nat /\ dma.prev \in Nat
      /\ seen.edges \in Seq(Nat) /\ seen.pumps \in Nat /\ account.seg \in Nat
      /\ index.nr \in Nat /\ index.at \in Nat
  BY <1>4 DEF DmaState, SeenState, Accounts, EdgeState
<1>6. g \in Nat /\ now + g \in Nat /\ now <= now + g
  BY <1>4, RateAssumption
<1>7. Later(dma.at, taken, now, now + g) /\ Risen(taken, now + g)
  BY <1>2, <1>4, <1>5, <1>6, SamplesAre DEF Pumped
<1>8. taken \in Seq(Nat) /\ Len(taken) \in Nat /\ Len(dma.at) \in Nat /\ Len(dma.at) <= Len(taken)
  BY <1>5, <1>7, LenProperties DEF Later
<1>9. e \in EdgeState /\ e.nr = index.nr /\ (e # index => now < e.at /\ e.at <= now + g) /\ e.at \in Nat /\ e.count \in Nat
  <2>1. e \in EdgeState /\ e.nr = index.nr /\ (e # index => now < e.at /\ e.at <= now + g)
    BY <1>4, <1>6, EdgesAre
  <2> QED BY <2>1 DEF EdgeState
<1>10. now' = now + g
  BY DEF Begun
<1>11. dma' = [at |-> taken, prod |-> Len(taken), cons |-> dma.cons, prev |-> dma.prev]
  <2>1. dma' = [dma EXCEPT !.at = taken, !.prod = Len(taken)]
    BY Zenon DEF Begun
  <2> HIDE DEF taken
  <2> QED BY ONLY <1>4, <2>1 DEF DmaState
<1>12. index' = [count |-> e.count, at |-> e.at, nr |-> e.count]
  <2>1. index' = [e EXCEPT !.nr = e.count]
    BY Zenon DEF Begun
  <2> QED BY ONLY <1>9, <2>1 DEF EdgeState
<1> HIDE DEF taken
<1>13. /\ dma'.at = taken /\ dma'.prod = Len(taken) /\ dma'.cons = dma.cons /\ dma'.prev = dma.prev
       /\ index'.count = index'.nr /\ dma' \in DmaState /\ index' \in EdgeState
  BY <1>5, <1>8, <1>9, <1>11, <1>12 DEF DmaState, EdgeState
<1>14. Pumped'
  <2>1. dma.cons <= dma.prod /\ dma.prod <= Len(dma.at)
    BY <1>2 DEF Pumped
  <2>2. dma'.cons <= dma'.prod
    BY <1>5, <1>8, <1>13, <2>1
  <2>3. Risen(dma'.at, now')
    BY <1>7, <1>10, <1>13
  <2>4. dma'.prod <= Len(dma'.at) /\ dma'.prod = Len(dma'.at)
    BY <1>8, <1>13
  <2> QED BY <1>1, <1>13, <2>2, <2>3, <2>4 DEF Pumped
<1>15. /\ StreamIs(buf, p, SubSeq(dma.at, 1, dma.cons), seen.edges, account, Len(seen.edges))
       /\ Timely(t, p.pending)
  BY <1>3 DEF Streamed
<1>16. p.t \in Nat /\ p.pending \in Nat /\ t \in Nat
  BY <1>15 DEF StreamIs, ReadsOn, PState
<1> HIDE DEF t
<1>17. Timely(t, p.pending)'
  BY <1>1, <1>2, <1>7, <1>10, <1>13, <1>15, <1>16, BeginTimely
<1>18. SubSeq(dma'.at, 1, dma'.cons) = SubSeq(dma.at, 1, dma.cons)
  <2>1. dma.cons <= Len(dma.at)
    BY <1>2, <1>5, <1>8 DEF Pumped
  <2>2. SubSeq(taken, 1, dma.cons) = SubSeq(dma.at, 1, dma.cons)
    BY <1>5, <1>7, <2>1, SubSeqLater
  <2> QED BY <1>13, <2>2
<1>19. CASE e.count = index.nr
  <2>1. buf' = buf /\ account' = account /\ seen' = [seen EXCEPT !.pumps = @ + 1]
    BY <1>19, Zenon DEF Begun
  <2>2. seen' \in SeenState /\ seen'.edges = seen.edges
    BY <1>4, <1>5, <2>1 DEF SeenState
  <2>3. FluxTypes'
    BY <1>1, <1>4, <1>6, <1>10, <1>13, <2>1, <2>2 DEF FluxTypes
  <2>4. Streamed(p)'
    BY <1>15, <1>17, <1>18, <2>1, <2>2 DEF Streamed, t
  <2> QED BY <1>1, <1>14, <2>3, <2>4 DEF FluxInv
<1>20. CASE e.count # index.nr
  <2> DEFINE k == e.at - t
             n == account.seg + 1
  <2>1. t <= e.at /\ k < Top /\ k \in Nat
    <3>1. t <= now /\ now - t <= 2 * Filler
      BY <1>1, <1>15 DEF Timely
    <3>2. t <= e.at /\ e.at <= now + g
      <4>1. CASE e = index
        <5>1. index.count # index.nr
          BY <1>20, <4>1
        <5>2. t <= index.at /\ index.at <= now
          BY <1>15, <5>1 DEF Timely
        <5> QED BY <1>4, <1>5, <1>6, <4>1, <5>2
      <4>2. CASE e # index
        BY <1>4, <1>9, <1>16, <3>1, <4>2
      <4> QED BY <4>1, <4>2
    <3>3. 3 * Filler + g + Work < Top /\ Filler \in Nat /\ Work \in Nat /\ Top \in Nat
      BY RateAssumption
    <3>4. k \in Nat /\ k < Top
      <4>1. now - t \in Nat
        BY <1>4, <1>16, <3>1
      <4> QED BY ONLY <1>4, <1>6, <1>9, <1>16, <3>1, <3>2, <3>3
    <3> QED BY <3>2, <3>4
  <2>2. span = k
    <3>1. dma.prev = t % Top /\ t \in Int /\ e.at \in Int /\ Top \in Nat \ {0} /\ e.at - t \in 0 .. Top - 1
      BY <1>9, <1>15, <1>16, <2>1, Rates DEF Timely
    <3>2. (e.at - (t % Top)) % Top = e.at - t
      BY ONLY <3>1, Wrapped
    <3> QED BY ONLY <3>1, <3>2
  <2>3. /\ buf' = buf \o <<Esc, INDEX>> \o N28(span) \o Marker(SEGMENT, <<span, n>>)
        /\ account' = [account EXCEPT !.seg = @ + 1]
        /\ seen' = [edges |-> Append(seen.edges, e.at), pumps |-> seen.pumps + 1]
    BY <1>20, Zenon DEF Begun
  <2> HIDE DEF span, k
  <2>4. buf' = buf \o <<Esc, INDEX>> \o N28(k) \o Marker(SEGMENT, <<k, n>>)
    BY ONLY <2>2, <2>3, Zenon
  <2>5. /\ account' = [flux |-> account.flux, bytes |-> account.bytes, sum |-> account.sum, seg |-> n]
        /\ n \in Nat
    <3>1. PICK z : z = account
      OBVIOUS
    <3>2. z \in Accounts /\ account' = [z EXCEPT !.seg = @ + 1] /\ n = z.seg + 1
      BY <1>4, <2>3, <3>1
    <3>3. account' = [flux |-> z.flux, bytes |-> z.bytes, sum |-> z.sum, seg |-> z.seg + 1]
      BY ONLY <3>2 DEF Accounts
    <3>4. n \in Nat
      BY <1>5
    <3> QED BY ONLY <3>1, <3>2, <3>3, <3>4, Zenon
  <2>6. account' \in Accounts /\ account'.flux = account.flux /\ account'.bytes = account.bytes
        /\ account'.sum = account.sum
    BY <1>4, <2>5 DEF Accounts
  <2>7. seen' \in SeenState /\ seen'.edges = Append(seen.edges, e.at) /\ Len(seen'.edges) = Len(seen.edges) + 1
    <3>1. Append(seen.edges, e.at) \in Seq(Nat) /\ Len(Append(seen.edges, e.at)) = Len(seen.edges) + 1
      BY <1>5, <1>9
    <3>2. seen.pumps + 1 \in Nat
      BY <1>5
    <3> QED BY <2>3, <3>1, <3>2 DEF SeenState
  <2>8. FluxTypes'
    BY <1>1, <1>6, <1>10, <1>13, <2>6, <2>7 DEF FluxTypes
  <2> HIDE DEF n
  <2> DEFINE x == SubSeq(dma.at, 1, dma.cons)
  <2>9. PICK q : /\ StreamIs(buf \o <<Esc, INDEX>> \o N28(k) \o Marker(SEGMENT, <<k, n>>), q, x,
                             Append(seen.edges, e.at), account, Len(seen.edges) + 1)
                 /\ q.t = p.t /\ q.pending = p.pending
    <3> HIDE DEF x
    <3>1. StreamIs(buf, p, x, seen.edges, account, Len(seen.edges)) /\ Len(seen.edges) \in Nat
      BY <1>5, <1>15, LenProperties DEF x
    <3>2. p.t + p.pending <= e.at /\ e.at - (p.t + p.pending) < Top
      BY <2>1 DEF t, k
    <3>3. \A j : j = e.at - (p.t + p.pending) =>
            \E q : /\ StreamIs(buf \o <<Esc, INDEX>> \o N28(j) \o Marker(SEGMENT, <<j, n>>), q, x,
                               Append(seen.edges, e.at), account, Len(seen.edges) + 1)
                   /\ q.t = p.t /\ q.pending = p.pending
      BY <1>9, <2>5, <3>1, <3>2, StreamFramed
    <3>4. k = e.at - (p.t + p.pending)
      BY DEF t, k
    <3> QED BY ONLY <3>3, <3>4, Zenon
  <2>10. StreamIs(buf', q, x, seen'.edges, account, Len(seen'.edges))
    BY ONLY <2>4, <2>7, <2>9, Zenon
  <2>11. StreamIs(buf', q, x, seen'.edges, account', Len(seen'.edges))
    BY <2>6, <2>10, StreamAccount
  <2>12. Timely(q.t + q.pending, q.pending)'
    BY <1>17, <2>9 DEF t
  <2>13. Streamed(q)'
    BY <1>18, <2>11, <2>12 DEF Streamed
  <2> QED BY <1>1, <1>14, <2>8, <2>13 DEF FluxInv
<1> QED BY <1>19, <1>20

-----------------------------------------------------------------------------
(* The end of a pump. *)

LEMMA SpacedIs ==
  ASSUME FluxTypes, Pumped, phase = "pumping", NEW t, NEW pending \in Nat, Timely(t, pending)
  PROVE  Spaced(dma.at, dma.cons, dma.prod, t, pending)
<1>1. /\ t \in Nat /\ now \in Nat /\ now - t + Work <= 3 * Filler /\ t <= now
      /\ Ahead(dma.at, dma.cons, t, pending) /\ Risen(dma.at, now)
      /\ dma.prod = Len(dma.at) /\ dma.cons <= dma.prod
  BY DEF FluxTypes, Pumped, Timely
<1>2. dma.at \in Seq(Nat) /\ dma.cons \in Nat /\ dma.prod \in Nat
  BY DEF FluxTypes, DmaState
<1> DEFINE taken == dma.at
           k == dma.cons
           m == dma.prod
<1>3. \A i \in 1 .. m : taken[i] \in Nat /\ taken[i] <= now
  BY <1>1, <1>2, ElementOfSeq DEF Risen
<1>4. \A i \in 2 .. m : taken[i - 1] < taken[i]
  BY <1>1 DEF Risen
<1>5. \A i \in k + 1 .. m : t < taken[i] /\ (pending > 0 => taken[i] - t >= Long)
  BY <1>1 DEF Ahead
<1>6. 3 * Filler + Work < Top /\ Filler \in Nat /\ Work \in Nat /\ Top \in Nat
  BY Rates
<1>7. k \in Nat /\ m \in Nat /\ taken \in Seq(Nat)
  BY <1>2
<1> HIDE DEF taken, k, m
<1>8. ASSUME NEW i \in k + 1 .. m
      PROVE  /\ taken[i] - (IF i = k + 1 THEN t ELSE taken[i - 1]) \in 1 .. Top - 1
             /\ i = k + 1 /\ pending > 0 => taken[i] - t >= Long
  <2>1. i \in 1 .. m /\ taken[i] \in Nat /\ taken[i] <= now /\ t < taken[i]
    BY <1>3, <1>5, <1>7
  <2>2. taken[i] - t \in 1 .. Top - 1
    <3>1. PICK y \in Nat : y = taken[i]
      BY <2>1
    <3>2. y <= now /\ t < y
      BY <2>1, <3>1
    <3>3. y - t \in 1 .. Top - 1
      BY ONLY <1>1, <1>6, <3>1, <3>2
    <3> QED BY <3>1, <3>3
  <2>3. CASE i = k + 1
    BY <1>5, <2>2, <2>3
  <2>4. CASE i # k + 1
    <3>1. i - 1 \in k + 1 .. m /\ i \in 2 .. m /\ i - 1 \in 1 .. m
      BY <1>7, <2>1, <2>4
    <3>2. PICK y \in Nat : y = taken[i]
      BY <2>1
    <3>3. PICK x \in Nat : x = taken[i - 1]
      BY <1>3, <3>1
    <3>4. t < x /\ x < y /\ y - t \in 1 .. Top - 1
      BY <1>4, <1>5, <2>2, <3>1, <3>2, <3>3
    <3>5. y - x \in 1 .. Top - 1
      BY ONLY <1>1, <1>6, <3>2, <3>3, <3>4
    <3> QED BY <2>4, <3>2, <3>3, <3>5
  <2> QED BY <2>3, <2>4
<1> QED BY <1>8, Zenon DEF Spaced, taken, k, m

\* What a pump has written, and where the stream stands then: the walk q is at the tick t.

\* The stream that a pump leaves at the time till, at the tick t.
Left(r, q, t, till) ==
  /\ StreamIs(buf \o Stuffed(r, till), q, SubSeq(dma.at, 1, dma.prod), seen.edges, r.cap, Len(seen.edges))
  /\ t = q.t + q.pending /\ t \in Nat /\ Moved(r, till) = t % Top /\ t <= now
  /\ till - t <= 2 * Filler /\ q.pending \in Nat /\ (q.pending > 0 => now - t >= Long)

LEMMA PumpDraws ==
  ASSUME FluxTypes, Pumped, phase = "pumping", NEW p, Streamed(p), NEW r, r = Drawn
  PROVE  /\ r \in Coded
         /\ \E q : /\ Carries(buf, r, q, dma.at, dma.prod, seen.edges, Len(seen.edges))
                   /\ q.t + q.pending \in Nat /\ q.pending \in Nat /\ q.t + q.pending <= now
                   /\ now - (q.t + q.pending) + Work <= 3 * Filler
                   /\ q.pending > 0 => now - (q.t + q.pending) >= Long
<1> DEFINE t == p.t + p.pending
           e == seen.edges
           n == Len(e)
           taken == dma.at
           k == dma.cons
           m == dma.prod
<1>1. StreamIs(buf, p, SubSeq(taken, 1, k), e, account, n) /\ Timely(t, p.pending)
  BY DEF Streamed
<1>2. p.pending \in Nat /\ t \in Nat /\ buf \in Seq(Nat)
  BY <1>1 DEF StreamIs, ReadsOn, PState
<1>3. /\ taken \in Seq(Nat) /\ k \in Nat /\ m \in Nat /\ k <= m /\ m <= Len(taken) /\ account \in Accounts /\ now \in Nat
      /\ Risen(taken, now)
  BY DEF FluxTypes, Pumped, DmaState
<1>4. Spaced(taken, k, m, t, p.pending)
  BY <1>1, <1>2, SpacedIs
<1>5. /\ dma.prev = t % Top /\ t <= now /\ now - t + Work <= 3 * Filler
      /\ p.pending > 0 => now - t >= Long
      /\ Ahead(taken, k, t, p.pending)
  BY <1>1 DEF Timely
<1>6. r = Encoded(t % Top, account, SubSeq(taken, k + 1, m))
  BY <1>5 DEF Drawn
<1>7. t = p.t + p.pending
  OBVIOUS
<1> HIDE DEF t, e, n, taken, k, m
<1>8. /\ r \in Coded
      /\ \E q : Carries(buf, r, q, taken, m, e, n) /\ Reached(q, taken, k, m, t, p.pending)
  BY <1>1, <1>2, <1>3, <1>4, <1>6, <1>7, StreamEncodes
<1>9. PICK q : Carries(buf, r, q, taken, m, e, n) /\ Reached(q, taken, k, m, t, p.pending)
  BY <1>8
<1>10. CASE m = k
  <2>1. q.t + q.pending = t /\ q.pending = p.pending
    BY <1>9, <1>10 DEF Reached
  <2> QED BY <1>2, <1>3, <1>5, <1>8, <1>9, <2>1 DEF taken, m, e, n
<1>11. CASE m # k
  <2>1. q.t + q.pending = taken[m] /\ q.pending = 0
    BY <1>9, <1>11 DEF Reached
  <2>2. m \in k + 1 .. Len(taken) /\ m \in 1 .. Len(taken)
    BY <1>3, <1>11, LenProperties
  <2>3. taken[m] \in Nat /\ t < taken[m] /\ taken[m] <= now
    BY <1>3, <1>5, <2>2, ElementOfSeq DEF Ahead, Risen
  <2>4. now - taken[m] + Work <= 3 * Filler
    <3>1. Work \in Nat /\ Filler \in Nat
      BY Rates
    <3> QED BY <1>2, <1>3, <1>5, <2>3, <3>1
  <2> QED BY <1>8, <1>9, <2>1, <2>3, <2>4 DEF taken, m, e, n
<1> QED BY <1>10, <1>11

LEMMA PumpLeaves ==
  ASSUME FluxTypes, Pumped, phase = "pumping", NEW p, Streamed(p), NEW r, r = Drawn, NEW w \in 0 .. Work
  PROVE  r \in Coded /\ \E q, t : Left(r, q, t, now + w)
<1>1. /\ r \in Coded
      /\ \E q : /\ Carries(buf, r, q, dma.at, dma.prod, seen.edges, Len(seen.edges))
                /\ q.t + q.pending \in Nat /\ q.pending \in Nat /\ q.t + q.pending <= now
                /\ now - (q.t + q.pending) + Work <= 3 * Filler
                /\ q.pending > 0 => now - (q.t + q.pending) >= Long
  BY PumpDraws
<1>2. PICK q : /\ Carries(buf, r, q, dma.at, dma.prod, seen.edges, Len(seen.edges))
               /\ q.t + q.pending \in Nat /\ q.pending \in Nat /\ q.t + q.pending <= now
               /\ now - (q.t + q.pending) + Work <= 3 * Filler
               /\ q.pending > 0 => now - (q.t + q.pending) >= Long
  BY <1>1
<1> DEFINE t == q.t + q.pending
           till == now + w
           x == SubSeq(dma.at, 1, dma.prod)
           e == seen.edges
           n == Len(e)
<1>3. StreamIs(buf \o r.out, q, x, e, r.cap, n) /\ r.prev = t % Top
  BY <1>2 DEF Carries
<1>4. t \in Nat /\ q.pending \in Nat /\ t <= now /\ now - t + Work <= 3 * Filler /\ (q.pending > 0 => now - t >= Long)
  BY <1>2
<1>5. /\ now \in Nat /\ w \in Nat /\ w <= Work /\ Work \in Nat /\ Filler \in Nat /\ Top \in Nat \ {0}
      /\ 3 * Filler + Work < Top /\ Long + Work <= Filler /\ Long \in Nat /\ 0 < Long /\ till \in Nat /\ till = now + w
  BY Rates DEF FluxTypes
<1>6. buf \in Seq(Nat) /\ r.out \in Seq(Nat)
  BY <1>1 DEF Coded, Streamed, StreamIs
<1>7. t = q.t + q.pending
  OBVIOUS
<1> HIDE DEF t, till, x, e, n
<1>8. till - t \in 0 .. Top - 1 /\ till - t <= 3 * Filler
  BY ONLY <1>4, <1>5
<1>9. (till - r.prev) % Top = till - t
  <2>1. till \in Int /\ t \in Int
    BY <1>4, <1>5
  <2>2. (till - (t % Top)) % Top = till - t
    BY ONLY <1>5, <1>8, <2>1, Wrapped
  <2> QED BY ONLY <1>3, <2>2, Zenon
<1>10. Lagged(r, till) <=> till - t > 2 * Filler
  BY <1>9 DEF Lagged, Lagging
<1>11. CASE ~Lagged(r, till)
  <2>1. Stuffed(r, till) = r.out /\ Moved(r, till) = r.prev
    <3>1. Stuffed(r, till) = r.out \o <<>> /\ Moved(r, till) = r.prev
      BY <1>11, Zenon DEF Stuffed, Moved
    <3>2. r.out \o <<>> = r.out
      BY <1>6
    <3> QED BY ONLY <3>1, <3>2, Zenon
  <2>2. till - t <= 2 * Filler
    BY <1>4, <1>5, <1>10, <1>11
  <2>3. Left(r, q, t, till)
    BY <1>3, <1>4, <1>7, <2>1, <2>2 DEF Left, x, e, n
  <2> QED BY <1>1, <2>3 DEF till
<1>12. CASE Lagged(r, till)
  <2>1. Stuffed(r, till) = r.out \o Dead(Filler) /\ Moved(r, till) = (r.prev + Filler) % Top
    BY <1>12, Zenon DEF Stuffed, Moved, Dead
  <2>2. Filler \in Nat \ {0} /\ Filler < Half * (Half * (Half * Half))
    <3>1. PICK h \in Nat : h = Half * (Half * (Half * Half))
      BY Rates
    <3>2. Top + TwoBytes <= h /\ TwoBytes \in Nat
      BY <3>1, Rates
    <3>3. Filler \in Nat \ {0} /\ Filler < h
      BY ONLY <1>5, <3>1, <3>2
    <3> QED BY <3>1, <3>3
  <2>3. PICK z : StreamIs((buf \o r.out) \o Dead(Filler), z, x, e, r.cap, n) /\ z.t = q.t /\ z.pending = q.pending + Filler
    BY <1>3, <2>2, StreamDead
  <2>4. (buf \o r.out) \o Dead(Filler) = buf \o (r.out \o Dead(Filler))
    <3>1. Dead(Filler) \in Seq(Nat)
      <4>1. <<Esc, SPACE>> \in Seq(Nat)
        BY Rates DEF SPACE
      <4>2. N28(Filler) \in Seq(Nat)
        BY <2>2, N28Bytes
      <4> QED BY <4>1, <4>2, JoinedIs DEF Dead
    <3> QED BY <1>6, <3>1, JoinsAssociate
  <2>5. StreamIs(buf \o Stuffed(r, till), z, x, e, r.cap, n)
    BY ONLY <2>1, <2>3, <2>4, Zenon
  <2>6. q.t \in Nat /\ q.pending \in Nat
    BY <1>3 DEF StreamIs, ReadsOn, PState
  <2>7. z.t + z.pending = t + Filler /\ z.pending \in Nat
    BY <1>5, <1>7, <2>3, <2>6
  <2>8. Moved(r, till) = (t + Filler) % Top
    <3>1. t \in Int /\ Filler \in Int
      BY <1>4, <1>5
    <3>2. ((t % Top) + Filler) % Top = (t + Filler) % Top
      BY ONLY <1>5, <3>1, WrapAdded
    <3> QED BY ONLY <1>3, <2>1, <3>2, Zenon
  <2>9. t + Filler \in Nat /\ t + Filler <= now /\ till - (t + Filler) <= 2 * Filler /\ now - (t + Filler) >= Long
    <3>1. till - t > 2 * Filler
      BY <1>10, <1>12
    <3> QED BY ONLY <1>4, <1>5, <1>8, <3>1
  <2>10. Left(r, z, t + Filler, till)
    BY <2>5, <2>7, <2>8, <2>9 DEF Left, x, e, n
  <2> QED BY <1>1, <2>10 DEF till
<1> QED BY <1>11, <1>12

LEMMA FluxEnds == ASSUME FluxInv, EndPump PROVE FluxInv'
<1> DEFINE r == Drawn
<1>1. phase = "pumping" /\ seen' = seen
  BY DEF EndPump
<1>2. FluxTypes /\ Pumped
  BY <1>1 DEF FluxInv
<1>3. PICK p : Streamed(p)
  BY <1>1 DEF FluxInv
<1>0. \E w \in 0 .. Work : \E s \in Samples(now + w), e \in Edges(now + w) : Pumping(r, w, s, e)
  BY DEF EndPump
<1> PICK w \in 0 .. Work : \E s \in Samples(now + w), e \in Edges(now + w) : Pumping(r, w, s, e)
  BY <1>0
<1> PICK s \in Samples(now + w), e \in Edges(now + w) : Pumping(r, w, s, e)
  OBVIOUS
<1> DEFINE till == now + w
           out == Stuffed(r, till)
           prev == Moved(r, till)
           taken == dma.at \o s
<1>4. /\ now \in Nat /\ dma \in DmaState /\ index \in EdgeState /\ account \in Accounts /\ seen \in SeenState
  BY <1>2 DEF FluxTypes
<1>5. /\ dma.at \in Seq(Nat) /\ dma.prod \in Nat /\ dma.cons \in Nat /\ dma.prev \in Nat
      /\ seen.edges \in Seq(Nat) /\ Len(dma.at) \in Nat
  BY <1>4, LenProperties DEF DmaState, SeenState
<1>6. w \in Nat /\ w <= Work /\ till \in Nat /\ now <= till
  BY <1>4, Rates
<1>7. r \in Coded /\ \E q, t : Left(r, q, t, now + w)
  BY <1>1, <1>2, <1>3, PumpLeaves
<1> HIDE DEF r, taken
<1>8. PICK q, t : Left(r, q, t, till)
  BY <1>7
<1> HIDE DEF till
<1>9. /\ StreamIs(buf \o out, q, SubSeq(dma.at, 1, dma.prod), seen.edges, r.cap, Len(seen.edges))
      /\ t = q.t + q.pending /\ t \in Nat /\ prev = t % Top /\ t <= now
      /\ till - t <= 2 * Filler /\ q.pending \in Nat /\ (q.pending > 0 => now - t >= Long)
  BY <1>8 DEF Left
<1>10. r.cap \in Accounts /\ account' = r.cap
  BY <1>7, Zenon DEF Coded, Pumping
<1>11. dma.prod = Len(dma.at) /\ index.count = index.nr /\ Risen(dma.at, now)
  BY <1>1, <1>2 DEF Pumped
<1>12. SubSeq(dma.at, 1, dma.prod) = dma.at
  BY <1>5, <1>11, SubSeqAll
<1>13. prev \in Nat
  <2>1. t \in Int /\ Top \in Nat \ {0}
    BY <1>9, Rates
  <2>2. prev \in 0 .. Top - 1
    BY ONLY <1>9, <2>1, Divided
  <2> HIDE DEF prev
  <2> QED BY ONLY <2>1, <2>2
<1> HIDE DEF out, prev
<1>14. buf \o out \in Seq(Nat)
  BY <1>9 DEF StreamIs
<1>15. CASE seen.pumps < MaxPumps
  <2>1. /\ phase' = "between" /\ now' = till /\ index' = e /\ buf' = buf \o out
        /\ dma' = [at |-> taken, prod |-> dma.prod, cons |-> dma.prod, prev |-> prev]
    BY <1>15, Zenon DEF Pumping, till, out, prev, taken
  <2>2. Later(dma.at, taken, now, till) /\ Risen(taken, till)
    BY <1>4, <1>5, <1>6, <1>11, SamplesAre DEF taken, till
  <2>3. taken \in Seq(Nat) /\ Len(dma.at) <= Len(taken)
    BY <2>2 DEF Later
  <2>4. /\ dma'.at = taken /\ dma'.prod = dma.prod /\ dma'.cons = dma.prod /\ dma'.prev = prev
        /\ dma' \in DmaState
    BY <1>5, <1>13, <2>1, <2>3 DEF DmaState
  <2>5. e \in EdgeState /\ e.nr = index.nr /\ (e # index => now < e.at /\ e.at <= till)
    BY <1>4, <1>6, EdgesAre DEF till
  <2>6. FluxTypes'
    BY <1>1, <1>4, <1>6, <1>10, <2>1, <2>4, <2>5 DEF FluxTypes
  <2>7. Pumped'
    <3>1. dma'.cons <= dma'.prod /\ dma'.prod <= Len(dma'.at) /\ dma'.cons = dma'.prod
      BY <1>5, <1>11, <2>3, <2>4
    <3>2. Risen(dma'.at, now')
      BY <2>1, <2>2, <2>4
    <3> QED BY <2>1, <3>1, <3>2 DEF Pumped
  <2>8. Timely(t, q.pending)'
    <3>1. Ahead(dma.at, dma.prod, t, q.pending)
      <4>1. \A i \in dma.prod + 1 .. Len(dma.at) : FALSE
        BY <1>5, <1>11
      <4> QED BY ONLY <4>1, Zenon DEF Ahead
    <3>2. Ahead(taken, dma.prod, t, q.pending)
      BY <1>4, <1>5, <1>6, <1>9, <2>2, <3>1, AheadLater
    <3>3. t <= now' /\ now' - t <= 2 * Filler
      BY <1>4, <1>6, <1>9, <2>1
    <3>4. q.pending > 0 => now' - t >= Long
      <4>1. Long \in Nat
        BY Rates
      <4> QED BY <1>4, <1>6, <1>9, <2>1, <4>1
    <3>5. index'.count # index'.nr => t <= index'.at /\ index'.at <= now'
      <4>1. e.count # e.nr => e # index
        BY <1>11
      <4>2. e.at \in Nat
        BY <2>5 DEF EdgeState
      <4>3. e.count # e.nr => t <= e.at /\ e.at <= till
        BY <1>4, <1>9, <2>5, <4>1, <4>2
      <4> QED BY <2>1, <4>3
    <3> QED BY <1>9, <2>1, <2>4, <3>2, <3>3, <3>4, <3>5 DEF Timely
  <2>9. SubSeq(dma'.at, 1, dma'.cons) = SubSeq(dma.at, 1, dma.prod)
    <3>1. SubSeq(taken, 1, dma.prod) = SubSeq(dma.at, 1, dma.prod)
      BY <1>5, <1>11, <2>2, SubSeqLater
    <3> QED BY <2>4, <3>1
  <2>10. Streamed(q)'
    <3>1. StreamIs(buf', q, SubSeq(dma'.at, 1, dma'.cons), seen'.edges, account', Len(seen'.edges))
      BY ONLY <1>1, <1>9, <1>10, <2>1, <2>9, Zenon
    <3>2. Timely(q.t + q.pending, q.pending)'
      BY <1>9, <2>8
    <3> QED BY <3>1, <3>2 DEF Streamed
  <2> QED BY <2>1, <2>6, <2>7, <2>10 DEF FluxInv
<1>16. CASE ~(seen.pumps < MaxPumps)
  <2>1. /\ phase' = "sealed" /\ now' = 0 /\ index' = NoIndex
        /\ buf' = buf \o out \o Marker(END, AccountIs(r)) \o <<0>>
        /\ dma' = [at |-> SubSeq(dma.at, 1, dma.prod), prod |-> dma.prod, cons |-> dma.prod, prev |-> 0]
    BY <1>16, Zenon DEF Pumping, till, out, AccountIs
  <2>2. dma' \in DmaState /\ dma'.at = dma.at /\ dma'.cons = dma.prod
    BY <1>5, <1>12, <2>1 DEF DmaState
  <2>3. FluxTypes'
    <3>1. index' \in EdgeState /\ now' \in Nat
      BY <2>1 DEF EdgeState, NoIndex
    <3> QED BY <1>1, <1>4, <1>10, <2>1, <2>2, <3>1 DEF FluxTypes
  <2>4. StreamIs(buf \o out, q, dma.at, seen.edges, r.cap, Len(seen.edges))
    BY <1>9, <1>12
  <2>5. \A b, v : v = <<0, r.cap.flux, r.cap.bytes, r.cap.sum>> /\ b = (buf \o out) \o Marker(END, v) \o <<0>> =>
          /\ TellsAll(b, dma.at, seen.edges, Len(seen.edges)) /\ TellsCut(b, dma.at, seen.edges)
          /\ b \in Seq(Nat)
    BY <2>4, StreamEnds
  <2>6. TellsAll(buf', dma.at, seen.edges, Len(seen.edges)) /\ TellsCut(buf', dma.at, seen.edges) /\ buf' \in Seq(Nat)
    BY ONLY <2>1, <2>5, Zenon DEF AccountIs
  <2>7. Told'
    BY <1>1, <1>11, <2>2, <2>6 DEF Told
  <2> QED BY <2>1, <2>3, <2>7 DEF FluxInv
<1> QED BY <1>15, <1>16

LEMMA FluxStarts == StreamInit => FluxInv
<1> SUFFICES ASSUME StreamInit PROVE FluxInv
  OBVIOUS
<1>1. /\ now = 0
      /\ dma = [at |-> <<>>, prod |-> 0, cons |-> 0, prev |-> 0]
      /\ index = [count |-> 0, at |-> 0, nr |-> 0]
      /\ account = NoAccount /\ buf = Started /\ phase = "between"
      /\ seen = [edges |-> <<>>, pumps |-> 0]
  BY DEF StreamInit, NoIndex, NoAccount, Started
<1>2. FluxTypes
  BY <1>1 DEF FluxTypes, DmaState, EdgeState, Accounts, SeenState, NoAccount
<1>3. Pumped
  <2>1. (\A i \in 1 .. 0 : FALSE) /\ \A i \in 2 .. 0 : FALSE
    OBVIOUS
  <2>2. dma.at = <<>> /\ dma.prod = 0 /\ dma.cons = 0 /\ Len(<<>>) = 0
    BY <1>1
  <2>3. Risen(dma.at, now)
    BY ONLY <2>1, <2>2, Zenon DEF Risen
  <2> QED BY <1>1, <2>2, <2>3 DEF Pumped
<1>4. PICK p : StreamIs(Started, p, <<>>, <<>>, NoAccount, 0) /\ p.t = 0 /\ p.pending = 0
  BY StreamStarts
<1>5. Streamed(p)
  <2>1. SubSeq(dma.at, 1, dma.cons) = <<>> /\ seen.edges = <<>> /\ Len(seen.edges) = 0
    BY <1>1
  <2>2. StreamIs(buf, p, SubSeq(dma.at, 1, dma.cons), seen.edges, account, Len(seen.edges))
    BY ONLY <1>1, <1>4, <2>1, Zenon
  <2>3. Timely(0, 0)
    <3>1. 0 % Top = 0
      BY Rates, RemainderIs
    <3>2. Ahead(dma.at, dma.cons, 0, 0)
      <4>1. \A i \in 0 + 1 .. 0 : FALSE
        OBVIOUS
      <4>2. dma.at = <<>> /\ dma.cons = 0 /\ Len(<<>>) = 0
        BY <1>1
      <4> QED BY ONLY <4>1, <4>2, Zenon DEF Ahead
    <3> QED BY <1>1, <3>1, <3>2, Rates DEF Timely
  <2>4. p.t + p.pending = 0
    BY <1>4
  <2> QED BY <1>4, <2>2, <2>3, <2>4 DEF Streamed
<1> QED BY <1>1, <1>2, <1>3, <1>5 DEF FluxInv

LEMMA FluxStays == FluxInv /\ [StreamNext]_fluxVars => FluxInv'
<1> SUFFICES ASSUME FluxInv, [StreamNext]_fluxVars PROVE FluxInv'
  OBVIOUS
<1>1. CASE UNCHANGED fluxVars
  <2>1. /\ now' = now /\ dma' = dma /\ index' = index /\ account' = account /\ buf' = buf /\ phase' = phase
        /\ seen' = seen
    BY <1>1 DEF fluxVars
  <2> QED BY <2>1 DEF FluxInv, FluxTypes, Pumped, Streamed, Timely, Told
<1> QED BY <1>1, FluxBegins, FluxEnds DEF StreamNext

LEMMA PrefixIs == ASSUME NEW s, NEW t, Leads(s, t) PROVE IsPrefix(s, t)
<1>1. /\ s \in Seq(Nat) /\ t \in Seq(Nat) /\ Len(s) <= Len(t) /\ (\A i \in 1 .. Len(s) : s[i] = t[i])
      /\ Len(s) \in Nat /\ Len(t) \in Nat
  BY LenProperties DEF Leads
<1>2. SubSeq(s, 1, Len(s)) = s
  BY <1>1, SubSeqAll
<1> DEFINE u == SubSeq(t, 1, Len(s))
<1>3. u \in Seq(Nat) /\ Len(u) = Len(s) /\ \A i \in 1 .. Len(s) : u[i] = t[i]
  BY <1>1
<1> HIDE DEF u
<1>4. s = u
  <2>1. \A i \in 1 .. Len(s) : s[i] = u[i]
    BY <1>1, <1>3
  <2> QED BY <1>1, <1>3, <2>1, SeqEqual
<1> QED BY <1>1, <1>2, <1>4 DEF IsPrefix, u

LEMMA FluxExact == FluxInv => StreamIsExact
<1> SUFFICES ASSUME FluxInv, phase = "sealed" PROVE StreamIsExact
  BY DEF StreamIsExact
<1>1. dma.cons = Len(dma.at) /\ TellsAll(buf, dma.at, seen.edges, Len(seen.edges)) /\ dma.at \in Seq(Nat)
  BY DEF FluxInv, Told, FluxTypes, DmaState
<1>2. SubSeq(dma.at, 1, dma.cons) = dma.at
  BY <1>1, SubSeqAll
<1> QED BY <1>1, <1>2, Zenon DEF StreamIsExact, TellsAll, SegmentMarks

LEMMA FluxCuts == FluxInv => CutIsPrefix
<1> SUFFICES ASSUME FluxInv, phase = "sealed", NEW n \in 0 .. Len(buf) - 2
             PROVE  LET p == Parsed(SubSeq(buf, 1, n)) IN
                    /\ ~p.terminated /\ ~p.refused /\ ~Verified(p)
                    /\ IsPrefix(Times(p.intervals), dma.at) /\ IsPrefix(p.index, seen.edges)
  BY Zenon DEF CutIsPrefix
<1> DEFINE p == Parsed(SubSeq(buf, 1, n))
<1>1. Quiet(p, dma.at, seen.edges)
  BY DEF FluxInv, Told, TellsCut
<1> HIDE DEF p
<1>2. IsPrefix(Times(p.intervals), dma.at) /\ IsPrefix(p.index, seen.edges)
  BY <1>1, PrefixIs DEF Quiet
<1>3. ~p.terminated /\ ~p.refused /\ ~Verified(p)
  BY <1>1 DEF Quiet, Verified
<1> QED BY <1>2, <1>3 DEF p

\* Whatever transitions and INDEX edges come while the pumps run, and however far apart the
\* pumps are within what the filler and the counter allow: a sealed stream reads back with
\* every transition and every edge at its tick, a SEGMENT an edge, and END's count, bytes
\* and checksum are the parser's own (rdata_encode_flux(), qic_mark_end(), parse_body()).
THEOREM StreamIsExactAlways == StreamSpec => []StreamIsExact
<1>1. FluxInv => StreamIsExact
  BY FluxExact
<1> QED BY <1>1, FluxStarts, FluxStays, PTL DEF StreamSpec

\* A sealed stream that is cut before the end of its END, at any byte, is read without a
\* refusal as the beginning of what happened, and never verifies (parse_body()).
THEOREM CutIsPrefixAlways == StreamSpec => []CutIsPrefix
<1>1. FluxInv => CutIsPrefix
  BY FluxCuts
<1> QED BY <1>1, FluxStarts, FluxStays, PTL DEF StreamSpec

=============================================================================
