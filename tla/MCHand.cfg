\* Three players whose stacks are below, at and above the blinds.
SPECIFICATION FairSpec
CONSTANTS
  OpenBetMin = 2
  BetMin = 1
  DeckSize = 11
  Seating <- ThreeSeats
  Stacks = {1, 2, 4}
  Strengths <- ThreeOrders
  Moves <- AllMoves
  Masks = {1}
\* A hand that is over, its masks set, stops.
CHECK_DEADLOCK FALSE
INVARIANTS TypeOK LedgerBalances TurnIsOwed StakesLevel BetIsStaked ChipsAccounted SidePotFair StrongestWins TiesSplit
INVARIANTS DecisionAccepted NoFreeFold NoBadFold OffersMatchRules
PROPERTIES CardsStayHidden StepsRespectSeats HonoursContract HandEnds
