----------------------------- MODULE MCHandEval -----------------------------
(* A short deck that makes every kind of hand: one suit from the ace to the *)
(* six, and the aces and fives of the other suits.                          *)
EXTENDS HandEval

ShortDeck == [rank : {2, 3, 4, 5, 6, 14}, suit : {"c"}] \cup [rank : {5, 14}, suit : {"d", "h", "s"}]
=============================================================================
