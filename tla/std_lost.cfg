SPECIFICATION Spec
CONSTANTS
  NumGames = 2
  MaxSteps = 2
  NaturalRoles <- MCComplementary
  Relayed = {1}
INVARIANT PlayedSubGamesKept
