CONSTANTS
  Arrays = {110}
  IoBase = 100
  IoSize = 20
  Ranges <- SomeRanges
  MaxBatch = 2
  Game = Game
  Spurs = Spurs
  Render = Render
  MaxDepth = 1
SPECIFICATION Spec
INVARIANTS
  DrawingSafe
  NearestShown
  DrawsTheBatch
  NothingUnshown
CHECK_DEADLOCK FALSE
