-------------------------------- MODULE MCHand --------------------------------
(* Small instances of Hand: players are numbers, strengths weak orders. *)
EXTENDS GameView

TwoSeats   == <<1, 2>>
ThreeSeats == <<1, 2, 3>>

\* Every weak order of the hands, with ranks that leave no gap.
WeakOrders(n) ==
  {f \in [1..n -> 1..n] : \A p \in 1..n : f[p] = 1 \/ \E q \in 1..n : f[q] = f[p] - 1}

TwoOrders   == WeakOrders(2)
ThreeOrders == WeakOrders(3)

AllMoves == {"check", "call", "bet", "allin", "fold"}
=============================================================================
