\* The same table; does the showdown distribute the pot?
SPECIFICATION Spec
CONSTANTS
  OpenBetMin = 2
  BetMin = 1
  DeckSize = 11
  Seating <- ThreeSeats
  Stacks = {1, 2, 4}
  Strengths <- ThreeOrders
  Moves <- AllMoves
  Masks = {}
CHECK_DEADLOCK FALSE
INVARIANT PotIsPaidOut
