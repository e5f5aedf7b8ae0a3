SPECIFICATION MCSpec
CONSTANTS
  e1 = e1
  e2 = e2
  e3 = e3
  Boards = {e1, e2, e3}
  Kinds <- MCKinds
  KindOf <- MCKindOf
  Size <- TwoEngineSlots
  Contexts = {"loop"}
  MayFactoryReset = FALSE
  MaxRestarts = 1
  MaxPowerCuts = 1
  Pins = {2, 3}
  NoBoard = NoBoard
  NoSlot = NoSlot
SYMMETRY EngineBoards
INVARIANTS
  UniqueIndex
  SetupIsWhole
PROPERTIES
  SameIndexBack
  ImplementsRegistry
  PinByHand
