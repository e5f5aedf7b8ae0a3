SPECIFICATION ProgramSpec
CONSTANTS
  Versions = {1, 2}
  Bad = {}
  RollbackAfter = 3
  GiveUpAfter = 5
  MaxFaults = 1
  TwoAtOnce = FALSE
INVARIANT BinaryLeft
