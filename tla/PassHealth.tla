----------------------------- MODULE PassHealth -----------------------------
(***************************************************************************)
(* The decode-free health check of a pass (tape/dump.py): which INDEX       *)
(* pulses are segments, how many segments the gaps between them hide, and   *)
(* whether the dump stops.                                                 *)
(***************************************************************************)
EXTENDS Integers, Sequences, FiniteSets

CONSTANT CueHoldoff   \* CUE_HOLDOFF_S, in sample ticks

(* segment_pulses(), missing_segments(), check_pass(). *)

SegmentPulses(ticks) ==
  LET kept[n \in 0 .. Len(ticks)] ==
        IF n = 0 THEN <<>>
        ELSE IF ticks[n] >= CueHoldoff THEN Append(kept[n - 1], ticks[n]) ELSE kept[n - 1]
  IN  kept[Len(ticks)]

GapsOf(ticks) == [i \in 1 .. Len(ticks) - 1 |-> ticks[i + 1] - ticks[i]]

\* sorted(gaps)[len(gaps) // 2]
Median(gaps) ==
  CHOOSE m \in {gaps[i] : i \in DOMAIN gaps} :
    /\ Cardinality({i \in DOMAIN gaps : gaps[i] < m}) <= Len(gaps) \div 2
    /\ Cardinality({i \in DOMAIN gaps : gaps[i] <= m}) > Len(gaps) \div 2

\* round(a / b), halves to even.
Rounded(a, b) ==
  LET q == a \div b
      r == a % b
  IN  IF 2 * r > b \/ (2 * r = b /\ q % 2 = 1) THEN q + 1 ELSE q

\* round(g / median) - 1 for a gap longer than 1.5 medians.
HiddenWholeGap(gap, median) == IF 2 * gap > 3 * median THEN Rounded(gap, median) ELSE 0   \* mutant
Hidden(gap, median) == IF 2 * gap > 3 * median THEN Rounded(gap, median) - 1 ELSE 0

MissingSegments(ticks) ==
  LET gaps == GapsOf(ticks)
      m    == Median(gaps)
      hidden[n \in 0 .. Len(gaps)] == IF n = 0 THEN 0 ELSE hidden[n - 1] + Hidden(gaps[n], m)
  IN  IF Len(gaps) < 3 THEN 0 ELSE hidden[Len(gaps)]

\* A result: the GW flux status, the END reason ("none" without END), whether
\* the parse agreed with END, the segments found and missed and, with --check,
\* the sectors decoded and good.
\* Why the dump stops after it, "none" to carry on.
CheckPass(res, best) ==
  IF ~res.ackOk THEN "overflow"
  ELSE IF res.end # "EOT" THEN "end"
  ELSE IF ~res.verified THEN "unverified"
  ELSE IF best > 0 /\ 10 * res.found < 9 * best THEN "fewer"
  ELSE IF 20 * res.missing > IF res.found > 1 THEN res.found ELSE 1 THEN "missing"
  ELSE IF res.decoded /\ (res.sectors = 0 \/ 10 * res.good < 8 * res.sectors) THEN "sectors"
  ELSE "none"

=============================================================================
