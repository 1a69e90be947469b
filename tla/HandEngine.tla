------------------------------ MODULE HandEngine ------------------------------
(***************************************************************************)
(* The rules of one hand, as internal/domain/game.go implements them.  A   *)
(* hand is a record g; every operator below maps a hand to the hand that   *)
(* the function of the same name leaves behind, so that the state machine  *)
(* Hand and the room that owns a hand (Room) share one translation.        *)
(*                                                                         *)
(*   players       GamePlayer order; positions are 0-based, as in the code *)
(*   stage         Stage, or "panic" when the call never returns (a slice  *)
(*                 index out of range, or unbounded recursion)             *)
(*   dealer bb turn  DealerPos, BigBlindPos, TurnPos                       *)
(*   pot roundBet    Pot, RoundBet                                         *)
(*   board drawn   len(CommunityCards) and DeckPos                         *)
(*   stack ... won   one function per number in GamePlayer, and one set    *)
(*                 per flag: folded, allIn and hasActed                    *)
(*   reveal        RevealMask                                              *)
(*   reason winners  Result                                                *)
(*   strength      HandValue of each player, compared at the showdown      *)
(*                                                                         *)
(* The cards are abstracted to their number and to the order of the hands  *)
(* they make: an operator that may reach the showdown takes that order as  *)
(* the parameter s, a function from players to naturals.                   *)
(***************************************************************************)
EXTENDS Integers, Sequences, FiniteSets, FiniteSetsExt, Functions

CONSTANTS OpenBetMin,   \* the big blind and the least opening bet
          BetMin,       \* the least raise
          DeckSize      \* cards in the deck: NewDeck makes 52

ASSUME BlindsAssumption == OpenBetMin \in Nat \ {0} /\ BetMin \in Nat \ {0}
ASSUME DeckAssumption   == DeckSize \in Nat

Streets == {"preflop", "flop", "turn", "river"}

At(g, pos) == g.players[pos + 1]
Seats(g)   == 0 .. Len(g.players) - 1
InHand(g)  == Range(g.players)
SeatOf(g, p) == CHOOSE pos \in Seats(g) : At(g, pos) = p

Betting(g)  == g.stage \in Streets
Active(g)   == InHand(g) \ g.folded
Playable(g) == Active(g) \ g.allIn

\* Mutant: the seat search of nextEligibleSeat, which stops at all-in players.
NextSeatNotFolded(g, pos) ==
  LET n    == Len(g.players)
      Hops == {i \in 1..n : At(g, (pos + i) % n) \in Active(g)}
  IN  IF Hops = {} THEN pos ELSE (pos + Min(Hops)) % n

\* The first seat after pos whose player may still act, or pos itself.
NextTurnSeat(g, pos) ==
  LET n    == Len(g.players)
      Hops == {i \in 1..n : At(g, (pos + i) % n) \in Playable(g)}
  IN  IF Hops = {} THEN pos ELSE (pos + Min(Hops)) % n

\* Mutant: the two early returns of roundComplete run together.
RoundCompleteJoined(g) ==
  \A p \in Playable(g) \cap g.hasActed : g.roundContrib[p] = g.roundBet

RoundComplete(g) ==
  \A p \in Playable(g) : p \in g.hasActed /\ g.roundContrib[p] = g.roundBet

-----------------------------------------------------------------------------
(* The end of a hand. *)

\* Mutant: whoever is left of the hand shows the cards.
DefaultRevealOfWinner(g, hidden) ==
  [p \in DOMAIN g.reveal |-> IF p \notin InHand(g) THEN g.reveal[p]
                             ELSE IF p \in g.folded THEN 0 ELSE 3]

DefaultReveal(g, hidden) ==
  [p \in DOMAIN g.reveal |-> IF p \notin InHand(g) THEN g.reveal[p]
                             ELSE IF p \in g.folded \cup hidden THEN 0 ELSE 3]

\* finishByLastStanding: the first player who has not folded takes the pot.
\* The pot itself keeps its value.
LastStanding(g) ==
  LET Standing == {pos \in Seats(g) : At(g, pos) \in Active(g)}
      winner   == At(g, Min(Standing))
  IN  IF Standing = {} THEN g
      ELSE [g EXCEPT !.stack[winner] = @ + g.pot,
                     !.won[winner]   = g.pot,
                     !.stage   = "finished",
                     !.reason  = "others folded",
                     !.winners = {winner},
                     !.reveal  = DefaultReveal(g, {winner})]

\* The most that at least two of the players in S have put in: what the
\* largest stake exceeds it by is unmatched, and is returned.
CalledLevel(g, S) ==
  Max(UNION {{Min({g.contributed[p], g.contributed[q]}) : q \in S \ {p}} : p \in S})

\* Mutant: the refund leaves the stake as it was.
RefundKeepsStake(g) ==
  LET called  == CalledLevel(g, Active(g))
      over(p) == IF p \in Active(g) /\ g.contributed[p] > called
                 THEN g.contributed[p] - called ELSE 0
  IN  [g EXCEPT !.stack = [p \in DOMAIN @ |-> @[p] + over(p)]]

Refund(g) ==
  LET called  == CalledLevel(g, Active(g))
      over(p) == IF p \in Active(g) /\ g.contributed[p] > called
                 THEN g.contributed[p] - called ELSE 0
  IN  [g EXCEPT !.contributed = [p \in DOMAIN @ |-> @[p] - over(p)],
                !.stack       = [p \in DOMAIN @ |-> @[p] + over(p)],
                !.pot         = @ - SumFunctionOnSet([p \in InHand(g) |-> over(p)], InHand(g))]

Levels(g) == {g.contributed[p] : p \in Active(g)} \ {0}

\* The chips every player of the hand has in the layer of the pot that ends at
\* a level and begins at the level below it.
PotPart(g, level) ==
  LET prev     == Max({0} \cup {l \in Levels(g) : l < level})
      layer(p) == Min({g.contributed[p], level}) - Min({g.contributed[p], prev})
  IN  SumFunctionOnSet([p \in InHand(g) |-> layer(p)], InHand(g))

\* Mutants: nobody is left out of a layer; the layer's own stake does not
\* qualify for it; the first of equal hands takes it all.
BestOfAll(g, level) ==
  {p \in Active(g) : \A q \in Active(g) : g.strength[q] <= g.strength[p]}
BestAbove(g, level) ==
  LET Eligible == {p \in Active(g) : g.contributed[p] > level}
  IN  {p \in Eligible : \A q \in Eligible : g.strength[q] <= g.strength[p]}
BestFirst(g, level) ==
  LET Eligible == {p \in Active(g) : g.contributed[p] >= level}
      Best     == {p \in Eligible : \A q \in Eligible : g.strength[q] <= g.strength[p]}
  IN  {p \in Best : \A q \in Best : SeatOf(g, p) <= SeatOf(g, q)}

BestPlayers(g, level) ==
  LET Eligible == {p \in Active(g) : g.contributed[p] >= level}
  IN  {p \in Eligible : \A q \in Eligible : g.strength[q] <= g.strength[p]}

\* What p receives of one layer: an equal share, the odd chips one each to the
\* winners in seat order.
Share(g, p, level) ==
  LET Best  == BestPlayers(g, level)
      part  == PotPart(g, level)
      ahead == {q \in Best : SeatOf(g, q) < SeatOf(g, p)}
  IN  IF p \notin Best THEN 0
      ELSE part \div Cardinality(Best)
           + (IF Cardinality(ahead) < part % Cardinality(Best) THEN 1 ELSE 0)

Payout(g, p) == SumFunctionOnSet([l \in Levels(g) |-> Share(g, p, l)], Levels(g))

\* finishShowdown.  At least two players are active when the code reaches it:
\* its branch for an empty table, and Winners = the first active player when
\* nobody won a chip, cannot be taken.
Showdown(g, s) ==
  LET ranked == [g EXCEPT !.strength = [p \in DOMAIN @ |-> IF p \in Active(g) THEN s[p] ELSE 0]]
      h      == Refund(ranked)
      wins   == [p \in DOMAIN g.won |-> IF p \in InHand(g) THEN Payout(h, p) ELSE g.won[p]]
  IN  [h EXCEPT !.won     = wins,
                !.stack   = [p \in DOMAIN @ |-> IF p \in InHand(g) THEN @[p] + wins[p] ELSE @[p]],
                !.stage   = "finished",
                !.reason  = "showdown",
                !.winners = {p \in InHand(g) : wins[p] > 0},
                !.reveal  = DefaultReveal(g, {})]

-----------------------------------------------------------------------------
(* From one street to the next. *)

StreetAfter == [preflop |-> "flop", flop |-> "turn", turn |-> "river"]
BoardOn     == [flop |-> 3, turn |-> 4, river |-> 5]

Panic(g) == [g EXCEPT !.stage = "panic"]

\* With two players left advanceStage gives the turn to Players[BigBlindPos].
BlindSeatLost(g) == Len(g.players) = 2 /\ g.bb >= 2

\* Mutant: a new street also forgets who is all-in.
ResetRoundAndAllIn(g) ==
  [g EXCEPT !.roundContrib = [p \in DOMAIN @ |-> 0],
            !.allIn        = {},
            !.hasActed     = {},
            !.roundBet     = 0]

ResetRound(g) ==
  [g EXCEPT !.roundContrib = [p \in DOMAIN @ |-> IF p \in InHand(g) THEN 0 ELSE @[p]],
            !.hasActed     = @ \ Playable(g),
            !.roundBet     = 0]

OpeningSeat(g) ==
  LET first == IF Len(g.players) = 2 THEN g.bb ELSE NextTurnSeat(g, g.dealer)
  IN  IF At(g, first) \in Playable(g) THEN first ELSE NextTurnSeat(g, first)

\* Mutant: a card is burnt before the missing ones are dealt.
RunOutBurning(g, s) ==
  LET drawn == g.drawn + 1 + (5 - g.board)
  IN  IF drawn > DeckSize \/ (g.stage # "river" /\ BlindSeatLost(g)) THEN Panic(g)
      ELSE Showdown([g EXCEPT !.board = 5, !.drawn = drawn], s)

\* advanceStage on the river, and the recursion advanceStage and
\* ensureTurnPlayable enter when nobody can act: every card that is missing is
\* drawn and the hand goes to the showdown.
RunOut(g, s) ==
  LET drawn == g.drawn + (5 - g.board)
      h     == IF g.stage = "river" THEN g
               ELSE [ResetRound(g) EXCEPT !.board = 5, !.drawn = drawn, !.turn = OpeningSeat(g)]
  IN  IF drawn > DeckSize \/ (g.stage # "river" /\ BlindSeatLost(g)) THEN Panic(g)
      ELSE Showdown(h, s)

\* advanceStage when somebody can act on the street that begins.
NextStreet(g) ==
  LET street == StreetAfter[g.stage]
      drawn  == g.drawn + (BoardOn[street] - g.board)
  IN  IF drawn > DeckSize \/ BlindSeatLost(g) THEN Panic(g)
      ELSE [ResetRound(g) EXCEPT !.stage = street, !.board = BoardOn[street],
                                 !.drawn = drawn,  !.turn  = OpeningSeat(g)]

AdvanceStage(g, s) ==
  IF g.stage = "river" \/ Playable(g) = {} THEN RunOut(g, s) ELSE NextStreet(g)

-----------------------------------------------------------------------------
(* The operations of a hand. *)

\* NewGame: every player of seating has chips, and there are at least two.
\* Heads-up the dealer is the small blind; a short stack posts what it has,
\* and the bet to match is the big blind all the same.
NewGame(seating, stacks, dealer, s) ==
  LET n     == Len(seating)
      In    == Range(seating)
      sb    == IF n = 2 THEN dealer ELSE (dealer + 1) % n
      bb    == (sb + 1) % n
      small == Max({OpenBetMin \div 2, 1})
      blind(p) == IF p = seating[sb + 1] THEN Min({small, stacks[p]})
                  ELSE IF p = seating[bb + 1] THEN Min({OpenBetMin, stacks[p]})
                  ELSE 0
      g == [players |-> seating, stage |-> "preflop", dealer |-> dealer, bb |-> bb, turn |-> bb,
            pot |-> blind(seating[sb + 1]) + blind(seating[bb + 1]), roundBet |-> OpenBetMin,
            board |-> 0, drawn |-> 2 * n,
            stack        |-> [p \in In |-> stacks[p] - blind(p)],
            contributed  |-> [p \in In |-> blind(p)],
            roundContrib |-> [p \in In |-> blind(p)],
            won          |-> [p \in In |-> 0],
            reveal       |-> [p \in In |-> 0],
            strength     |-> [p \in In |-> 0],
            folded |-> {}, allIn |-> {p \in In : stacks[p] = blind(p)}, hasActed |-> {},
            reason |-> "none", winners |-> {}]
  IN  IF g.drawn > DeckSize THEN Panic(g)
      ELSE IF Playable(g) = {} THEN RunOut(g, s)
      ELSE [g EXCEPT !.turn = NextTurnSeat(g, bb)]

MayAct(g, u) == Betting(g) /\ At(g, g.turn) = u /\ u \in Playable(g)

\* Mutant: the stake of the street is booked, that of the hand is not.
CommitRoundOnly(g, u, n) ==
  [g EXCEPT !.stack[u] = @ - n, !.roundContrib[u] = @ + n,
            !.pot = @ + n, !.allIn = IF g.stack[u] = n THEN @ \cup {u} ELSE @]

\* The chips u moves into the pot; a player left with none is all-in.
Commit(g, u, n) ==
  [g EXCEPT !.stack[u] = @ - n, !.contributed[u] = @ + n, !.roundContrib[u] = @ + n,
            !.pot = @ + n, !.allIn = IF g.stack[u] = n THEN @ \cup {u} ELSE @]

\* Mutants: an all-in below the bet also sets it; a raise asks nobody again.
RaiseAlways(g, u) ==
  [g EXCEPT !.roundBet = g.roundContrib[u],
            !.hasActed = @ \ (Playable(g) \ {u})]
RaiseAsksNobody(g, u) ==
  IF g.roundContrib[u] <= g.roundBet THEN g ELSE [g EXCEPT !.roundBet = g.roundContrib[u]]

\* A bet above RoundBet becomes the bet to match, and asks again everybody who
\* can still act.
Raise(g, u) ==
  IF g.roundContrib[u] <= g.roundBet THEN g
  ELSE [g EXCEPT !.roundBet = g.roundContrib[u],
                 !.hasActed = @ \ (Playable(g) \ {u})]

\* Mutant: HasActed is not set.
SettleUnmarked(g, u, s) ==
  IF Cardinality(Active(g)) = 1 THEN LastStanding(g)
  ELSE IF RoundComplete(g) THEN AdvanceStage(g, s)
  ELSE [g EXCEPT !.turn = NextTurnSeat(g, g.turn)]

\* The tail of ApplyAction.
Settle(g, u, s) ==
  LET h == [g EXCEPT !.hasActed = @ \cup {u}]
  IN  IF Cardinality(Active(h)) = 1 THEN LastStanding(h)
      ELSE IF RoundComplete(h) THEN AdvanceStage(h, s)
      ELSE [h EXCEPT !.turn = NextTurnSeat(h, h.turn)]

CanCheck(g, u) == MayAct(g, u) /\ g.roundBet = g.roundContrib[u]
Check(g, u, s) == Settle(g, u, s)

CanCall(g, u) == MayAct(g, u) /\ g.roundBet > g.roundContrib[u] /\ g.stack[u] > 0
\* Mutant: the call is not capped by the stack.
CallUncapped(g, u, s) == Settle(Commit(g, u, g.roundBet - g.roundContrib[u]), u, s)

Call(g, u, s) ==
  Settle(Commit(g, u, Min({g.roundBet - g.roundContrib[u], g.stack[u]})), u, s)

LeastBet(g, u) ==
  IF g.roundBet = 0 THEN OpenBetMin ELSE (g.roundBet - g.roundContrib[u]) + BetMin

CanBet(g, u, amount) == MayAct(g, u) /\ amount \in LeastBet(g, u) .. g.stack[u]
Bet(g, u, amount, s) == Settle(Raise(Commit(g, u, amount), u), u, s)

CanAllIn(g, u) == MayAct(g, u) /\ g.stack[u] > 0
AllIn(g, u, s) == Bet(g, u, g.stack[u], s)

CanFold(g, u) == MayAct(g, u)
Fold(g, u, s) == Settle([g EXCEPT !.folded = @ \cup {u}], u, s)

\* ForceLeaveForStore.  When the player who leaves was the last who could act
\* and several all-in players remain, ensureTurnPlayable deals the hand out to
\* its end; roundComplete still holds, and advanceStage, now in the finished
\* stage, and ensureTurnPlayable call each other for ever.
ForceLeave(g, u, s) ==
  LET h == IF u \in InHand(g) THEN [g EXCEPT !.folded = @ \cup {u}, !.hasActed = @ \cup {u}] ELSE g
      k == IF At(h, h.turn) \in Playable(h) THEN h
           ELSE [h EXCEPT !.turn = NextTurnSeat(h, h.turn)]
  IN  IF ~Betting(g) THEN g
      ELSE IF Cardinality(Active(h)) <= 1 THEN LastStanding(h)
      ELSE IF Playable(h) = {} THEN Panic(h)
      ELSE IF RoundComplete(k) THEN AdvanceStage(k, s)
      ELSE k

\* SetRevealSelection: any player of the hand, once the hand is over.
CanReveal(g, u, mask) == g.stage = "finished" /\ u \in InHand(g) /\ mask \in 0..3
SetReveal(g, u, mask) == [g EXCEPT !.reveal[u] = mask]
=============================================================================
