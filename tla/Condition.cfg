\* Every wrapper a handler can be run in, on one object.
CONSTANTS
  Modes = {"Do", "DoUntilTrue", "Once", "Track"}
  MaxTurns = 1
  MaxNewer = 1
  MaxTroubles = 1
SPECIFICATION Spec
INVARIANTS NoFlapping
PROPERTIES DecidedStays ComesTrue
CHECK_DEADLOCK FALSE
