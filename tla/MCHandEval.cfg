\* Every set of up to seven cards of a twelve-card deck.
SPECIFICATION Spec
CONSTANT Deck <- ShortDeck
\* When seven cards are dealt there is nothing left to draw.
CHECK_DEADLOCK FALSE
INVARIANTS RanksAsTheRules BestIsUnbeaten
