SPECIFICATION FairSpec
CONSTANTS
  Size = 2
  Protocol = "cop_v1"
  Workers = {w1}
  Start <- MCStart
  SurvivalThreshold = 3
  MaxMoves = 2
  MaxBarriers = 1
  BarrierCells <- MCOneBarrierCell
INVARIANTS SealedTrail VerdictJustified LossStands EndedIsReported
PROPERTIES Terminates
