SPECIFICATION Spec
CONSTANTS
  Size = 2
  Protocol = "native"
  Workers = {w1, w2}
  Start <- MCStart
  SurvivalThreshold = 2
  MaxMoves = 2
  MaxBarriers = 1
  BarrierCells <- MCBarrierCells
SYMMETRY WorkerSymmetry
INVARIANTS TypeOK Lockstep NoSealedRoundDropped VerdictJustified QuotaSlack
PROPERTIES ShownIsFinal ImplementsOutcome
