CONSTANTS
  Wants <- MCWants
  ClientKinds <- MCClientKinds
  KeySeq <- MCKeySeq
  Foreign = {"h"}
  Burst = 1
  MaxRev = 3
  MaxForeign = 1
  MaxFaults = 1
SPECIFICATION Spec
INVARIANTS NothingForgotten
PROPERTIES Settles SilentMeansDone ForeignKept
CHECK_DEADLOCK FALSE
