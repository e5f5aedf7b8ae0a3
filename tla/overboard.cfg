SPECIFICATION MCSpec
CONSTANTS
  NumSlots = 2
  e1 = e1
  e2 = e2
  e3 = e3
  Eids = {e1, e2, e3}
  NoEid = NoEid
  MissingRange = {1, 2}
  ActionRange = {1, 2}
  Hours = 1
  NumTags = 2
  Absent = {}
  Clocks = {1, 4}
  Wide = 3
  FinderQueueRoom = 1
  MaxResets = 1
INVARIANTS
  AlarmHasCause
  PressIsReal
PROPERTIES
  AlarmEscalates
  EveryTagFound
