SPECIFICATION MCSpec
CONSTANTS
  Engines <- TwoEngines
  CanStop <- SecondStops
  Retries = 1
  Preempted = FALSE
  MaxReboots = 0
  MaxAsks = 3
  HoldTimeout = 1
  CrankMax = 2
  Delay = 1
  ClockSize = 7
  HelmUptime = 3
  BoardBoot = 3
  Overtaken = TRUE
INVARIANTS
  NoGhostPower
  SettledAfterATick
  AnswerOnItsWay
  StarterInHand
PROPERTIES
  DroppedForAReason
