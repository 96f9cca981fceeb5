SPECIFICATION Spec
CONSTANTS
  Size = 2
  Protocol = "native"
  Workers = {w1}
  Start <- MCStart
  SurvivalThreshold = 2
  MaxMoves = 2
  MaxBarriers = 1
  BarrierCells <- MCBarrierCells
PROPERTIES RevealAfterBothCommits
