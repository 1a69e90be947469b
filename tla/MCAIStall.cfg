\* Is an AI player's turn always acted on?
SPECIFICATION FairSpec
CONSTANTS
  Human = {1, 2}
  Bot = {3}
  QueueCap = 256
  Retries = 2
  MaxSummaries = 20
  MaxHands = 1
  MaxTurns = 2
  MaxAsides = 3
CHECK_DEADLOCK FALSE
PROPERTY AIActs
