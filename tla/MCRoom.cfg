\* Two humans, one AI player, three seats, two hands.
SPECIFICATION Spec
CONSTANTS
  OpenBetMin = 2
  BetMin = 1
  DeckSize = 11
  Human = {1, 2}
  Bot = {3}
  Creator = 1
  DefaultStack = 2
  Orders <- SomeOrders
  Masks = {1}
  MaxSeats = 3
  MaxEntries = 2
  MaxHands = 2
CHECK_DEADLOCK FALSE
INVARIANTS RoomTypeOK OwnerAtTable HandMatchesRoom VoteIsCurrent TurnIsOwedUnlessLeft
PROPERTIES CallsReturnUnlessLeft OthersKeepChips ChipsKept NextHandKeepsChips
