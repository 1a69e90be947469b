\* Does every call to the store return?
SPECIFICATION Spec
CONSTANTS
  OpenBetMin = 2
  BetMin = 1
  DeckSize = 52
  Human = {1, 2}
  Bot = {3}
  Creator = 1
  DefaultStack = 2
  Orders <- SomeOrders
  Masks = {}
  MaxSeats = 3
  MaxEntries = 3
  MaxHands = 2
CHECK_DEADLOCK FALSE
INVARIANT CallsReturn
