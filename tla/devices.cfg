SPECIFICATION MCSpec
CONSTANTS
  Overlapping = {"demo"}
  EdgeRoom = 1
  QueueRoom = 2
  Matrices <- SomeMatrices
  Deepest = 2
  Rows = 1
  Columns = 3
  Letters = {"k"}
  Plain <- Commands
  Secret <- SecretOnes
  WithArgs <- SecretOnes
  LineMax = 3
  History = 2
  Sources = {"SeaTalk", "CAN"}
  PerSource = 2
  Limit = 3
  MaxSeq = 6
  Tasks = {"loop", "radio"}
  Texts <- Printed
  Size = 3
  Drops = TRUE
INVARIANTS
  NoFeedback
  SavedIsCurrent
  DemoNeverLeaks
  SweepIsCurrent
  ShownIsTheLine
  PageIsWhole
  PageIsTheTail
