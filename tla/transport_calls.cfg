SPECIFICATION FairSpec
CONSTANTS
  Threads = {main, handler}
  Main = main
  Nobody = nobody
  MaxCalls = 1
  ResponseTimeout = 4
  RetryBackoff = 1
  MaxRetries = 3
INVARIANTS CallBounded OneSession
PROPERTIES ImplementsRemoteCall CallsEnd
