--------------------------------- MODULE Hand ---------------------------------
(***************************************************************************)
(* One hand from the deal to the settlement, played by a fixed table: the  *)
(* state machine of GameState.  Each action is one call of ApplyAction (or *)
(* SetRevealSelection) that the code accepts; a call it refuses changes    *)
(* nothing.  The order of the hands at the showdown is chosen when it is   *)
(* first looked at, which no earlier step can tell from a choice made by   *)
(* the shuffle.                                                            *)
(***************************************************************************)
EXTENDS HandEngine

CONSTANTS Seating,     \* the players in seat order
          Stacks,      \* the stacks a player may bring to the hand
          Strengths,   \* the orders in which the hands may rank
          Moves,       \* the kinds of action the players use
          Masks        \* the reveal masks they ask for

ASSUME SeatingAssumption ==
  /\ Seating \in Seq(Range(Seating))
  /\ Len(Seating) >= 2
  /\ \A i, j \in DOMAIN Seating : Seating[i] = Seating[j] => i = j
ASSUME StacksAssumption    == Stacks \subseteq Nat \ {0}
ASSUME StrengthsAssumption == Strengths \subseteq [Range(Seating) -> Nat]

\* NewGame puts no limit on the players and draw does not look at the end of the
\* deck: of 52 cards there are enough for 23 players.
DeckSuffices == 2 * Len(Seating) + 5 <= DeckSize

VARIABLES g,       \* the hand
          dealt    \* the stacks at the deal (a history variable)

vars == <<g, dealt>>

Player == Range(Seating)

Init ==
  /\ dealt \in [Player -> Stacks]
  /\ \E dealer \in 0 .. Len(Seating) - 1, s \in Strengths :
        g = NewGame(Seating, dealt, dealer, s)

PlayCheck(u) ==
  /\ "check" \in Moves /\ CanCheck(g, u)
  /\ \E s \in Strengths : g' = Check(g, u, s)
  /\ UNCHANGED dealt

PlayCall(u) ==
  /\ "call" \in Moves /\ CanCall(g, u)
  /\ \E s \in Strengths : g' = Call(g, u, s)
  /\ UNCHANGED dealt

PlayBet(u) ==
  /\ "bet" \in Moves
  /\ \E amount \in 1 .. g.stack[u], s \in Strengths :
        CanBet(g, u, amount) /\ g' = Bet(g, u, amount, s)
  /\ UNCHANGED dealt

PlayAllIn(u) ==
  /\ "allin" \in Moves /\ CanAllIn(g, u)
  /\ \E s \in Strengths : g' = AllIn(g, u, s)
  /\ UNCHANGED dealt

PlayFold(u) ==
  /\ "fold" \in Moves /\ CanFold(g, u)
  /\ \E s \in Strengths : g' = Fold(g, u, s)
  /\ UNCHANGED dealt

Reveal(u) ==
  /\ \E mask \in Masks : CanReveal(g, u, mask) /\ g' = SetReveal(g, u, mask)
  /\ UNCHANGED dealt

Act(u) == PlayCheck(u) \/ PlayCall(u) \/ PlayBet(u) \/ PlayAllIn(u) \/ PlayFold(u)

Next == \E u \in Player : Act(u) \/ Reveal(u)

Spec == Init /\ [][Next]_vars

\* The server waits for the player whose turn it is without a time limit: that
\* a hand ends is a promise about players who do answer.  Some Act is possible
\* exactly while the hand is in a betting stage (TurnIsOwed; a fold is always
\* accepted), so this is WF_vars(\E u \in Player : Act(u)) written out.
PlayersAnswer == []<>(~Betting(g)) \/ []<><<Betting(g)>>_g

FairSpec == Spec /\ PlayersAnswer

-----------------------------------------------------------------------------
Sum(f) == SumFunctionOnSet(f, Player)

Finished == g.stage = "finished"

\* A call that does not return has run out of cards, which it never does with
\* two for every player and five for the board in the deck; after every other
\* call the hand has its shape.
TypeOK ==
  /\ dealt \in [Player -> Nat]
  /\ \/ g.stage = "panic" /\ ~DeckSuffices
     \/ /\ g.players = Seating
        /\ g.stage \in Streets \cup {"finished"}
        /\ {g.dealer, g.bb, g.turn} \subseteq Seats(g)
        /\ g.pot \in Nat /\ g.roundBet \in Nat /\ g.board \in {0, 3, 4, 5} /\ g.drawn \in Nat
        /\ \A f \in {g.stack, g.contributed, g.roundContrib, g.won, g.strength} : f \in [Player -> Nat]
        /\ g.folded \cup g.allIn \cup g.hasActed \subseteq Player
        /\ g.reveal \in [Player -> 0..3]
        /\ g.reason \in {"none", "others folded", "showdown"} /\ g.winners \subseteq Player

\* Until the hand ends every chip a player brought is in front of the player or
\* in the pot, and the stakes are the pot (Commit's four updates agree).
LedgerBalances ==
  Betting(g) => /\ \A p \in Player : g.stack[p] + g.contributed[p] = dealt[p]
                /\ g.pot = Sum(g.contributed)

\* The hand is never waiting for somebody who cannot answer: the turn is with a
\* player who may act and has not yet answered the bet on the table, so neither
\* nextTurnSeat nor ensureTurnPlayable ever stops one seat early or late.
TurnIsOwed ==
  Betting(g) => LET u == At(g, g.turn) IN
    /\ u \in Playable(g)
    /\ u \notin g.hasActed
    /\ ~RoundComplete(g)

\* A street is closed only when the stakes are level: whoever can still act has
\* put as much into the earlier streets as anybody at the table.
StakesLevel ==
  Betting(g) => LET before(p) == g.contributed[p] - g.roundContrib[p] IN
    \A p \in Playable(g), q \in Player : before(p) >= before(q)

\* The bet to match is what somebody has staked on this street; only the big
\* blind of a short stack leaves it higher than every stake.
BetIsStaked ==
  Betting(g) =>
    /\ \A p \in Player : g.roundContrib[p] <= g.roundBet
    /\ \/ \E p \in Player : g.roundContrib[p] = g.roundBet
       \/ g.stage = "preflop" /\ g.roundBet = OpenBetMin /\ At(g, g.bb) \in g.allIn

\* No chip is created, and the chips that leave the table at a showdown are
\* exactly the stakes of folded players above the highest stake that two of
\* the remaining players reached: refundUnmatchedChips looks only at the
\* latter, and so do the levels of the pot.
ChipsAccounted ==
  Finished =>
    LET dead(p) == IF p \in g.folded /\ g.reason = "showdown"
                   THEN Max({0, g.contributed[p] - CalledLevel(g, Active(g))}) ELSE 0
    IN  Sum(dealt) = Sum(g.stack) + Sum([p \in Player |-> dead(p)])

\* Side pots: no winner takes from anybody more than the winner's own stake.
SidePotFair ==
  Finished /\ g.reason = "showdown" =>
    \A p \in Player :
      g.won[p] <= Sum([q \in Player |-> Min({g.contributed[p], g.contributed[q]})])

\* At a showdown chips go to the strongest hand that is entitled to them: a
\* player beaten by one who staked at least as much wins nothing, the best
\* hand of all wins something, and a folded player never does.
StrongestWins ==
  Finished /\ g.reason = "showdown" =>
    /\ \A p \in g.folded : g.won[p] = 0
    /\ \A p, q \in Active(g) :
         g.strength[q] > g.strength[p] /\ g.contributed[q] >= g.contributed[p] => g.won[p] = 0
    /\ \A p \in Active(g) :
         (\A q \in Active(g) : g.strength[q] <= g.strength[p]) => g.won[p] > 0

\* Equal hands that staked the same are paid the same, up to one odd chip for
\* each layer of the pot.
TiesSplit ==
  Finished /\ g.reason = "showdown" =>
    \A p, q \in Active(g) :
      g.strength[p] = g.strength[q] /\ g.contributed[p] = g.contributed[q] =>
        g.won[p] - g.won[q] <= Cardinality(Levels(g))

\* What a call may change: a player's stack falls only by that player's own
\* action, and never while another one is asked; the bet to match falls only
\* with a new street; a player who folded or is all-in stays so; a finished
\* hand keeps its chips.
StepsRespectSeats ==
  [][ /\ \A p \in Player : g'.stack[p] < g.stack[p] => p = At(g, g.turn)
      /\ (g'.roundBet < g.roundBet => g'.stage # g.stage)
      /\ g.folded \subseteq g'.folded /\ g.allIn \subseteq g'.allIn
      /\ (Finished => g'.stage = g.stage /\ g'.stack = g.stack /\ g'.won = g.won) ]_vars

\* If the player asked always answers, the hand ends: every street closes and
\* raising stops when the stacks do.
HandEnds == <>Finished

\* The hand implements the contract of a hand.  The pot of a finished hand has
\* been paid out, although Pot keeps its value.
StreetNumber == [preflop |-> 1, flop |-> 2, turn |-> 3, river |-> 4, finished |-> 5]

Contract == INSTANCE HandContract WITH
  bank   <- g.stack,
  pot    <- IF Betting(g) THEN g.pot ELSE 0,
  owed   <- IF Betting(g) THEN Playable(g) \ g.hasActed ELSE {},
  street <- StreetNumber[g.stage]

\* Every step of a hand is a step of HandContract or changes none of its
\* variables: streets close only when all who can act have answered the last
\* raise, and chips move only as the contract allows.
HonoursContract == Contract!Spec

\* README.md:321, "showdown: compare the best five of seven and distribute the
\* pot": all of the pot is distributed.
PotIsPaidOut == Finished => Sum(g.won) = g.pot

\* README.md:322, "side pots are not implemented": the pot goes undivided to
\* the best hand.
NoSidePot ==
  Finished /\ g.reason = "showdown" =>
    \A p, q \in g.winners : g.strength[p] = g.strength[q]
=============================================================================
