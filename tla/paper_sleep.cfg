SPECIFICATION FairSpec
CONSTANTS
  Brightest = 1
INVARIANTS
  ModesInForce
PROPERTIES
  DisplayFollows
