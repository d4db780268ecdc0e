\* A capture implements the abstract session, ends, and the device comes back,
\* whatever host and drive do.
CONSTANTS
  Cap = 2
  Mps = 1
  PumpMax = 1
  MaxFlux = 2
  Holdoff = 1
  IdleEnd = 1
  Watchdog = 2
  NoStart = 3
  Commands <- MCPass
SPECIFICATION FairSpec
PROPERTIES
  ImplementsSession
  DeviceComesBack
