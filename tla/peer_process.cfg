SPECIFICATION Spec
CONSTANTS
  settled = settled
  roaming = roaming
  std = std
  url1 = url1
  url2 = url2
  lecturer = lecturer
  them = them
  Opponents <- MCOpponents
  StdOpponents <- MCStdOpponents
  Urls <- MCUrls
  UrlsOf <- MCUrlsOf
  DeclaredOverride <- MCDeclaredOverride
  Addresses <- MCAddresses
  Lecturer = lecturer
  Recipient <- MCRecipient
  OpponentRecipient <- MCOpponentRecipient
  CcOpponent <- MCCcOpponent
  TrustDocumented <- MCTrustDocumented
  HandshakeLimit = 1
  RoundLimit = 1
  WatchdogLimits = {2}
  MaxMoves = 2
  MaxRuns = 3
CHECK_DEADLOCK FALSE
INVARIANT TypeOK
INVARIANT NumbersInTurn
INVARIANT LeagueIsHonest
INVARIANT DeclaredAsRecorded
INVARIANT CountedStay
INVARIANT RewardedOnce
INVARIANT LecturerHearsOfCounted
INVARIANT AtMostTwoCopies
INVARIANT SparesTheHealthy
PROPERTY RunEnds
