\* A queue that two summaries of one hand can fill: is the mutex released?
SPECIFICATION FairSpec
CONSTANTS
  Human = {1}
  Bot = {2, 3}
  QueueCap = 1
  Retries = 2
  MaxSummaries = 20
  MaxHands = 2
  MaxTurns = 2
  MaxAsides = 0
CHECK_DEADLOCK FALSE
PROPERTY LockReleased
