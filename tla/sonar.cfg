SPECIFICATION MCSpec
CONSTANTS
  Settings = {1, 2}
  Default = 1
  MaxDrops = 1
  Nets = {1, 2}
  MaxCuts = 1
INVARIANTS
  WholeFrames
  SetupWhenAsked
PROPERTIES
  SonarFollows
  Joinable
