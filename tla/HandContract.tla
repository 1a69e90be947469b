----------------------------- MODULE HandContract -----------------------------
(***************************************************************************)
(* What a hand of poker promises, whatever its rules for bets, cards and   *)
(* seats: chips go from a player to the pot only when that player answers  *)
(* the bet on the table; a raise asks everybody else again; a street       *)
(* closes only when nobody owes an answer, and the four streets come in    *)
(* order; and the pot goes back to the players once, without a chip more   *)
(* than was in it.  Hand is shown to implement this specification.         *)
(***************************************************************************)
EXTENDS Integers, Functions

CONSTANT Player

VARIABLES bank,    \* the chips in front of each player
          pot,     \* the chips at stake
          owed,    \* the players who still have to answer
          street   \* 1..4, or 5 when the hand is over

vars == <<bank, pot, owed, street>>

InBank(b) == SumFunctionOnSet(b, Player)

Init ==
  /\ bank \in [Player -> Nat] /\ pot \in Nat
  /\ owed \subseteq Player
  /\ street \in {1, 5}
  /\ (street = 1 <=> owed # {})

\* p answers with n chips and the street goes on.
Answer(p, n) ==
  /\ street < 5 /\ p \in owed
  /\ bank' = [bank EXCEPT ![p] = @ - n] /\ pot' = pot + n
  /\ street' = street
  /\ owed' # {} /\ owed' \subseteq Player \ {p}
  /\ owed \ {p} \subseteq owed'
  /\ (n = 0 => owed' \subseteq owed)

\* p is the last to answer; the next street asks some of the players.
CloseStreet(p, n) ==
  /\ street < 4 /\ owed = {p}
  /\ bank' = [bank EXCEPT ![p] = @ - n] /\ pot' = pot + n
  /\ street' = street + 1
  /\ owed' # {} /\ owed' \subseteq Player

\* p's answer ends the hand: when everybody has answered, or when all others
\* are out.
Settle(p, n) ==
  /\ street < 5 /\ p \in owed
  /\ street' = 5 /\ owed' = {}
  /\ bank' \in [Player -> Nat]
  /\ \A q \in Player \ {p} : bank'[q] >= bank[q]
  /\ bank'[p] >= bank[p] - n
  /\ InBank(bank') <= InBank(bank) + pot

Next == \E p \in Player : \E n \in 0 .. bank[p] :
          Answer(p, n) \/ CloseStreet(p, n) \/ Settle(p, n)

Spec == Init /\ [][Next]_vars
=============================================================================
