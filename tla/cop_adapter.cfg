SPECIFICATION Spec
CONSTANTS
  Size = 2
  CopStart <- MCCopStart
  ThiefStart <- MCThiefStart
  HerMoves <- MCHerMoves
  MovesPlayed <- MCMovesPlayed
  Suspects <- MCSuspects
  Workers = {w1, w2}
  MaxRounds = 3
  HerRounds = 2
  MaxRetries = 1
  Lies <- MCLies
SYMMETRY WorkersAlike
INVARIANT TypeOK
INVARIANT InStep
INVARIANT AuditIsFaithful
INVARIANT HonestCopPasses
INVARIANT ClaimTimely
PROPERTY CaughtThiefStops
