SPECIFICATION FairSpec
CONSTANTS
  NumGames = 1
  MaxSteps = 2
  NaturalRoles <- MCAnyRoles
  Relayed = {2}
INVARIANT ConfirmedSettles
PROPERTY Concludes
