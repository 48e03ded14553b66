\* Three requests, a restart of the server, the providers mounted twice, a
\* queue of one message.
CONSTANTS
  w1 = w1
  w2 = w2
  None = None
  Conns = {w1, w2}
  Scopes = {"global"}
  QueueCap = 1
  MaxRequests = 3
  MaxCrashes = 1
  MaxBreaks = 0
  MaxMounts = 1
SPECIFICATION FairSpec
INVARIANTS TypeOK LossIsCounted
PROPERTIES PolledCatchesUp StreamComesBack
