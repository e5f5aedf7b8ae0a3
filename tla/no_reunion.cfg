SPECIFICATION FairSpec
CONSTANTS
  Boards = {board}
  Displays = {}
  Channels = 2
  Retries = 1
  Fresh = 1
  MaxPaired = 1
  MaxCount = 2
  MaxFaults = 1
  MayUnplug = FALSE
PROPERTY Reunited
