SPECIFICATION Spec
CONSTANTS
  Engines <- OneEngine
  CanStop <- FirstStops
  Retries = 1
  Preempted = FALSE
  MaxReboots = 1
PROPERTIES
  RunningKeepsIgnition
