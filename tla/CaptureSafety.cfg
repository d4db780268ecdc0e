\* Captures among the other commands: what is sent, owned, timed and sealed.
CONSTANTS
  Cap = 2
  Mps = 2
  PumpMax = 2
  MaxFlux = 2
  Holdoff = 1
  IdleEnd = 1
  Watchdog = 2
  NoStart = 3
  Commands <- MCHost
SPECIFICATION Spec
INVARIANTS
  BuffersFit
  VerifiedIsComplete
  StatusTellsTheTruth
  CaptureOwnsTape
  NoStartNeverSeals
