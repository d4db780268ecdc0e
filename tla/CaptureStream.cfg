\* A byte of 3 bits; intervals of each form, and 4 ticks past one, two and three fillers.
\* Ten segments 710 ms apart (25 ticks), 4 percent jitter, a cue, up to three in
\* a row of them missed: both sides of the 0.9 and the 5 percent rule.
SPECIFICATION MCSpec
CONSTANTS
  Esc = 7
  TwoBytes = 5
  Filler = 21
  Top = 96
  Gaps = {7, 20}
  Work = 1
  Deltas = {1, 4, 5, 18, 25, 46, 67}
  MaxFlux = 2
  MaxIndex = 1
  MaxPumps = 5
  TrackSegments = 10
  Period = 25
  Jitters <- MCJitters
  Jitter = 1
  CueHoldoff = 1
  Leader = 40
  MaxHidden = 3
INVARIANTS
  StreamIsExact
  CutIsPrefix
  PassIsJudged
CHECK_DEADLOCK FALSE
