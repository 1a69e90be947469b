\* Two humans and an AI player; the queue never fills.
SPECIFICATION FairSpec
CONSTANTS
  Human = {1, 2}
  Bot = {3}
  QueueCap = 256
  Retries = 2
  MaxSummaries = 20
  MaxHands = 2
  MaxTurns = 2
  MaxAsides = 2
CHECK_DEADLOCK FALSE
INVARIANTS OneDecision TurnAttended SummaryOnce 
PROPERTIES ActsOnWhatItSaw TurnTaken SummarySettled
