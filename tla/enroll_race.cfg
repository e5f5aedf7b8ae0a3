SPECIFICATION Spec
CONSTANTS
  e1 = e1  e2 = e2  e3 = e3  al = al  loop = loop  radio = radio
  Boards = {e1, e2}
  Kinds <- MCKinds
  KindOf <- MCKindOf
  Size <- TwoEngineSlots
  Contexts = {loop, radio}
  MayFactoryReset = FALSE
  MaxRestarts = 1
  MaxPowerCuts = 1
  NoBoard = NoBoard
  NoSlot = NoSlot
INVARIANT UniqueIndex
