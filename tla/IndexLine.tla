----------------------------- MODULE IndexLine -----------------------------
(***************************************************************************)
(* A pass as the INDEX line shows it: a cue pulse while Logical Forward     *)
(* takes over, then the segments, evenly spaced up to a jitter, of which    *)
(* the drive may miss some.  Checks the health check of PassHealth.         *)
(***************************************************************************)
EXTENDS PassHealth

CONSTANTS
  TrackSegments,   \* segments on a track
  Period,          \* sample ticks from one segment to the next
  Jitters,         \* how far a pulse may be off, to either side
  Jitter,          \* and no further than this
  Leader,          \* ticks of blank tape before the first segment
  MaxHidden        \* segments in a row the drive misses, at most

ASSUME PulseAssumption ==
  /\ TrackSegments \in Nat /\ Period \in Nat \ {0} /\ Leader \in Nat /\ MaxHidden \in Nat
  /\ Jitter \in Nat /\ Jitters \subseteq -Jitter .. Jitter
  /\ CueHoldoff \in Nat /\ CueHoldoff + Jitter <= Leader + Period

VARIABLES
  passed,   \* segments that passed the head
  missed,   \* those of them the drive did not find
  ticks     \* ParsedStream.index_ticks

lineVars == <<passed, missed, ticks>>

LineInit == passed = 0 /\ missed = {} /\ ticks = <<>>

\* A ready drive pulses cues until Logical Forward takes over.
Cue ==
  /\ passed = 0 /\ ticks = <<>>
  /\ \E t \in 0 .. CueHoldoff - 1 : ticks' = <<t>>
  /\ UNCHANGED <<passed, missed>>

\* An INDEX opcode becomes the sample cursor plus its offset.
Found ==
  /\ passed < TrackSegments
  /\ passed' = passed + 1
  /\ \E j \in Jitters :
       ticks' = Append(ticks, Leader + Period * (passed + 1) + j)
  /\ UNCHANGED missed

Missed ==
  /\ passed < TrackSegments
  /\ ~(passed - MaxHidden + 1 .. passed \subseteq missed)
  /\ passed' = passed + 1
  /\ missed' = missed \cup {passed + 1}
  /\ UNCHANGED ticks

LineNext == Cue \/ Found \/ Missed

LineSpec == LineInit /\ [][LineNext]_lineVars

-----------------------------------------------------------------------------
(* Properties. *)

LineTypeOK ==
  /\ passed \in 0 .. TrackSegments /\ missed \subseteq 1 .. passed
  /\ ticks \in Seq(Nat)

FoundOnes == (1 .. passed) \ missed

\* The segments missed between the first and the last one found.
Interior == {s \in missed : \E a, b \in FoundOnes : a < s /\ s < b}

\* More than half of the neighbours found are neighbours on the tape.
MostlyWhole ==
  LET pairs == {s \in FoundOnes : \E b \in FoundOnes : s < b}
      whole == {s \in pairs : s + 1 \in FoundOnes}
  IN  Cardinality(pairs) >= 3 /\ 2 * Cardinality(whole) > Cardinality(pairs)

\* missing_segments() counts exactly the segments missed inside the pass,
\* through the jitter and whatever cue came first, as long as most segments
\* were found.
MissingIsExact ==
  MostlyWhole => MissingSegments(SegmentPulses(ticks)) = Cardinality(Interior)

\* The result check_pass() gets for this pass, sealed EOT and verified.
Result == [ackOk |-> TRUE, end |-> "EOT", verified |-> TRUE,
           found |-> Len(SegmentPulses(ticks)),
           missing |-> MissingSegments(SegmentPulses(ticks)),
           decoded |-> FALSE, sectors |-> 0, good |-> 0]

\* The stop rules are neither blind nor jumpy: a pass that found every segment
\* carries on, one that lost more than 5 percent inside it stops the dump, and
\* one that found less than nine tenths of an earlier whole track does too.
RulesProtectTape ==
  /\ missed = {} /\ passed = TrackSegments => CheckPass(Result, TrackSegments) = "none"
  /\ MostlyWhole /\ 20 * Cardinality(Interior) > Cardinality(FoundOnes)
       => CheckPass(Result, 0) # "none"
  /\ passed = TrackSegments /\ 10 * Cardinality(FoundOnes) < 9 * TrackSegments
       => CheckPass(Result, TrackSegments) # "none"

\* Both together: what a pass found is judged for what it is.
PassIsJudged == MissingIsExact /\ RulesProtectTape

=============================================================================
