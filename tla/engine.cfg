SPECIFICATION MCSpec
CONSTANTS
  Engines <- TwoEngines
  Kinds <- Temp
  MaxLosses = 1
  Boards = {e1, e2}
  NoBoard = NoBoard
  NoSlot = NoSlot
PROPERTIES
  NewAlarmSounds
  LastingAlarmReaches
  PanelSettles
  EveryBoardEnrolls
  RadioRecovers
