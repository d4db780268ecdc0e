\* ftape's four status tries; more late answers than a session has room for.
CONSTANTS
  Tries = 4
  MaxStalls = 8
SPECIFICATION FairSpec
INVARIANTS
  JogEndsStill
PROPERTIES
  WinnerAnswered
  SessionEnds
CHECK_DEADLOCK FALSE
