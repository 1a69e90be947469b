------------------------------ MODULE HandProofs ------------------------------
(***************************************************************************)
(* The theorems about Hand, and about what the server decides and shows in *)
(* its states (Decisions, GameView).  The inductive invariant is Inv: a    *)
(* hand is over, or in play, where InPlay of HandFacts says what the       *)
(* fields of a hand in play have to do with one another, or has run out of *)
(* cards, which only a table too large for the deck can do.                *)
(***************************************************************************)
EXTENDS GameView, HandFacts, TLAPS

(* The invariant and the theorems. *)

Inv ==
  /\ dealt \in [Player -> Nat \ {0}]
  /\ \/ Stuck(Seating, g)
     \/ /\ g.bb \in Places(Seating)
        /\ Over(Seating, g) \/ InPlay(Seating, g, dealt)

\* The players of Hand are a table; a call that does not return has run out of
\* cards.
LEMMA TableSeated ==
  /\ Seated(Seating) /\ N(Seating) >= 2 /\ Range(Seating) = Player
  /\ \A k : Stuck(Seating, k) => ~DeckSuffices /\ ~Betting(k) /\ k.stage = "panic"
BY SeatingAssumption
   DEF Seated, Player, N, Stuck, DeckHolds, DeckSuffices, Betting, Streets

\* The deal leaves a hand in play before the flop, or one that is over, unless
\* the cards do not suffice.
LEMMA TheDeal ==
  ASSUME Init
  PROVE  /\ dealt \in [Player -> Nat \ {0}]
         /\ \/ Stuck(Seating, g)
            \/ /\ g.bb \in Places(Seating)
               /\ Ended(Seating, g, dealt) \/ (InPlay(Seating, g, dealt) /\ g.stage = "preflop")
<1>1. dealt \in [Player -> Nat \ {0}]
  BY StacksAssumption DEF Init
<1>2. PICK dealer \in Places(Seating), s \in Strengths : g = NewGame(Seating, dealt, dealer, s)
  BY DEF Init, Places, N
<1>3. \A p \in Range(Seating) : s[p] \in Nat /\ dealt[p] \in Nat \ {0}
  BY <1>1, StrengthsAssumption DEF Player
<1>4. dealt = [p \in Range(Seating) |-> dealt[p]]
  BY <1>1 DEF Player
<1>5. \/ Stuck(Seating, g)
      \/ /\ g.bb \in Places(Seating)
         /\ Ended(Seating, g, dealt) \/ (InPlay(Seating, g, dealt) /\ g.stage = "preflop")
  BY <1>2, <1>3, <1>4, TableSeated, NewGameInPlay
<1> QED BY <1>1, <1>5

\* The deal establishes the invariant.
LEMMA InitInv == Init => Inv
BY TheDeal DEF Inv, Ended

\* A hand in play and a hand that is over cannot be taken for each other.
LEMMA BettingIsInPlay ==
  ASSUME Inv
  PROVE  /\ Betting(g) => InPlay(Seating, g, dealt)
         /\ ~Betting(g) => Over(Seating, g) \/ Stuck(Seating, g)
BY TableSeated DEF Inv, Betting, Over, InPlay, Stakes, Shape, Streets

\* What an accepted action does: the hand after it, whoever played.
LEMMA ActLemma ==
  ASSUME Inv, NEW u \in Player, Act(u)
  PROVE  /\ dealt' = dealt /\ MayAct(g, u) /\ Betting(g) /\ InPlay(Seating, g, dealt)
         /\ Stuck(Seating, g') \/ Over(Seating, g') \/ InPlay(Seating, g', dealt)
         /\ g'.bb = g.bb /\ g.bb \in Places(Seating)
         /\ \E c : Offers(Seating, g, u, c) /\ Closes(Seating, c, g') /\ Goes(Seating, c, u, g', dealt)
<1>1. dealt' = dealt
  BY DEF Act, PlayCheck, PlayCall, PlayBet, PlayAllIn, PlayFold
<1>2. MayAct(g, u)
  BY DEF Act, PlayCheck, PlayCall, PlayBet, PlayAllIn, PlayFold,
         CanCheck, CanCall, CanBet, CanAllIn, CanFold
<1>3. Betting(g) /\ InPlay(Seating, g, dealt)
  BY <1>2, BettingIsInPlay DEF MayAct
<1>4. \E s \in Strengths :
        \/ CanCheck(g, u) /\ g' = Check(g, u, s)
        \/ CanCall(g, u) /\ g' = Call(g, u, s)
        \/ CanFold(g, u) /\ g' = Fold(g, u, s)
        \/ CanAllIn(g, u) /\ g' = AllIn(g, u, s)
        \/ \E amount : CanBet(g, u, amount) /\ g' = Bet(g, u, amount, s)
  <2>1. CASE PlayCheck(u)
    BY <2>1 DEF PlayCheck
  <2>2. CASE PlayCall(u)
    BY <2>2 DEF PlayCall
  <2>3. CASE PlayBet(u)
    BY <2>3 DEF PlayBet
  <2>4. CASE PlayAllIn(u)
    BY <2>4 DEF PlayAllIn
  <2>5. CASE PlayFold(u)
    BY <2>5 DEF PlayFold
  <2> QED BY <2>1, <2>2, <2>3, <2>4, <2>5 DEF Act
<1>5. \A s \in Strengths : \A p \in Range(Seating) : s[p] \in Nat
  BY StrengthsAssumption DEF Player
<1>6. \E c : Offers(Seating, g, u, c) /\ Closes(Seating, c, g') /\ Goes(Seating, c, u, g', dealt)
  BY <1>2, <1>3, <1>4, <1>5, TableSeated, MovesInPlay
<1>7. PICK c : Offers(Seating, g, u, c) /\ Closes(Seating, c, g') /\ Goes(Seating, c, u, g', dealt)
  BY <1>6
<1>8. g'.bb = g.bb
  BY <1>7 DEF Offers, Closes
<1>9. Stuck(Seating, g') \/ Over(Seating, g') \/ InPlay(Seating, g', dealt)
  BY <1>7 DEF Goes, Ended
<1>10. g.bb \in Places(Seating)
  BY <1>3, TableSeated DEF Inv
<1> QED BY <1>1, <1>2, <1>3, <1>6, <1>8, <1>9, <1>10

\* Showing cards after the hand changes the reveal mask and nothing else.
LEMMA RevealLemma ==
  ASSUME Inv, NEW u \in Player, Reveal(u)
  PROVE  /\ dealt' = dealt /\ Over(Seating, g) /\ Over(Seating, g')
         /\ g'.stage = g.stage /\ g'.stack = g.stack /\ g'.won = g.won
         /\ g'.roundBet = g.roundBet /\ g'.folded = g.folded /\ g'.allIn = g.allIn
         /\ g'.contributed = g.contributed /\ g'.strength = g.strength /\ g'.reason = g.reason
         /\ g'.bb = g.bb /\ g.bb \in Places(Seating)
         /\ \A p \in Player \ {u} : g'.reveal[p] = g.reveal[p]
<1>1. PICK mask : CanReveal(g, u, mask) /\ g' = [g EXCEPT !.reveal[u] = mask] /\ dealt' = dealt
  BY DEF Reveal, SetReveal
<1>2. Over(Seating, g) /\ g.bb \in Places(Seating) /\ mask \in 0..3
  BY <1>1, BettingIsInPlay, TableSeated DEF CanReveal, Betting, Streets, Inv
<1>3. DOMAIN g' = Fields
  BY <1>1, <1>2, Zenon DEF Over, Table
<1>4. Over(Seating, g')
  BY <1>1, <1>2, <1>3 DEF Over, Table, Fields
<1> QED BY <1>1, <1>2, <1>4, TableSeated DEF Over, Table, Fields

\* Every accepted call keeps the invariant.
LEMMA StepInv == Inv /\ [Next]_vars => Inv'
<1> SUFFICES ASSUME Inv, [Next]_vars PROVE Inv'
  OBVIOUS
<1>1. CASE UNCHANGED vars
  BY <1>1 DEF Inv, vars
<1>2. ASSUME NEW u \in Player, Act(u) PROVE Inv'
  BY <1>2, ActLemma DEF Inv
<1>3. ASSUME NEW u \in Player, Reveal(u) PROVE Inv'
  BY <1>3, RevealLemma DEF Inv
<1> QED BY <1>1, <1>2, <1>3 DEF Next

\* Inv is an invariant of every hand.
THEOREM HandInvariant == Spec => []Inv
BY InitInv, StepInv, PTL DEF Spec

\* GameState is well formed in every reachable state.  ApplyAction never runs
\* into an index it does not have, and into the end of the deck only when the
\* table is too large for it: with 52 cards, at more than 23 players, whom the
\* code does not refuse.
THEOREM HandTyped == Spec => []TypeOK
<1>1. Inv => TypeOK
  <2> SUFFICES ASSUME Inv, ~Stuck(Seating, g) PROVE TypeOK
    BY TableSeated DEF Inv, TypeOK
  <2>1. Table(Seating, g) /\ g.stage \in Streets \cup {"finished"}
        /\ g.reason \in {"none", "others folded", "showdown"} /\ g.winners \subseteq Player
    BY TableSeated DEF Inv, Over, InPlay, Stakes, Shape
  <2>2. Seats(g) = Places(Seating) /\ g.bb \in Places(Seating)
    BY <2>1, TableSeated, SeatsOfShape DEF Table, Inv
  <2>3. dealt \in [Player -> Nat]
    BY DEF Inv
  <2> QED BY <2>1, <2>2, <2>3, TableSeated DEF TypeOK, Table
<1> QED BY <1>1, HandInvariant, PTL

\* Commit's updates of Stack, Contributed, RoundContrib and Pot agree for ever.
THEOREM LedgerAlwaysBalances == Spec => []LedgerBalances
<1>1. Inv => LedgerBalances
  BY BettingIsInPlay, TableSeated DEF InPlay, Stakes, Booked, LedgerBalances, Sum
<1> QED BY <1>1, HandInvariant, PTL

\* nextTurnSeat, advanceStage and ensureTurnPlayable always leave the turn with
\* a player who can act and owes an answer, so that no hand is ever stuck.
THEOREM TurnAlwaysOwed == Spec => []TurnIsOwed
<1>1. Inv => TurnIsOwed
  <2> SUFFICES ASSUME Inv, Betting(g)
               PROVE  /\ At(g, g.turn) \in Playable(g) /\ At(g, g.turn) \notin g.hasActed
                      /\ ~RoundComplete(g)
    BY DEF TurnIsOwed
  <2>1. InPlay(Seating, g, dealt)
    BY BettingIsInPlay
  <2>2. At(g, g.turn) = Seating[g.turn + 1]
    BY <2>1, TableSeated, PlayableOfShape DEF InPlay, Stakes
  <2> QED BY <2>1, <2>2 DEF InPlay, Owed, RoundComplete
<1> QED BY <1>1, HandInvariant, PTL

\* roundComplete closes no street before the stakes are level.
THEOREM StakesAlwaysLevel == Spec => []StakesLevel
<1>1. Inv => StakesLevel
  BY BettingIsInPlay, TableSeated DEF InPlay, Stakes, Level, StakesLevel
<1> QED BY <1>1, HandInvariant, PTL

\* RoundBet is a stake of the street, but for the big blind of a short stack.
THEOREM BetAlwaysStaked == Spec => []BetIsStaked
<1>1. Inv => BetIsStaked
  <2> SUFFICES ASSUME Inv, Betting(g)
               PROVE  BetIsStaked
    BY DEF BetIsStaked
  <2>1. InPlay(Seating, g, dealt)
    BY BettingIsInPlay
  <2>2. At(g, g.bb) = Seating[g.bb + 1]
    BY <2>1, TableSeated, PlayableOfShape DEF InPlay, Stakes
  <2> QED BY <2>1, <2>2 DEF InPlay, Stakes, Bounded, Staked, BetIsStaked, Player
<1> QED BY <1>1, HandInvariant, PTL

\* No call of ApplyAction or SetRevealSelection takes chips from a player who
\* did not act, lowers the bet within a street, unfolds a player or revises a
\* hand that is over.
THEOREM StepsAlwaysRespectSeats == Spec => StepsRespectSeats
<1> DEFINE Respect ==
      /\ \A p \in Player : g'.stack[p] < g.stack[p] => p = At(g, g.turn)
      /\ (g'.roundBet < g.roundBet => g'.stage # g.stage)
      /\ g.folded \subseteq g'.folded /\ g.allIn \subseteq g'.allIn
      /\ (Finished => g'.stage = g.stage /\ g'.stack = g.stack /\ g'.won = g.won)
<1>1. Inv /\ [Next]_vars => [Respect]_vars
  <2> SUFFICES ASSUME Inv, Next PROVE Respect
    OBVIOUS
  <2>1. ASSUME ~Stuck(Seating, g)
        PROVE  Table(Seating, g) /\ (\A p \in Player : g.stack[p] \in Nat) /\ g.roundBet \in Nat
    BY <2>1, TableSeated DEF Inv, Over, InPlay, Stakes, Shape, Table
  <2>2. ASSUME NEW u \in Player, Act(u) PROVE Respect
    <3>1. /\ MayAct(g, u) /\ Betting(g) /\ ~Stuck(Seating, g)
          /\ Stuck(Seating, g') \/ Over(Seating, g') \/ InPlay(Seating, g', dealt)
          /\ \E c : Offers(Seating, g, u, c) /\ Closes(Seating, c, g')
      BY <2>2, ActLemma, TableSeated
    <3>2. PICK c : Offers(Seating, g, u, c) /\ Closes(Seating, c, g')
      BY <3>1
    <3>3. u = At(g, g.turn) /\ ~Finished
      BY <3>1 DEF MayAct, Betting, Streets, Finished
    <3>4. /\ \A p \in Player : g'.stack[p] \in Nat /\ g.stack[p] \in Nat
          /\ g.roundBet \in Nat /\ g.roundBet <= c.roundBet
      BY <2>1, <3>1, <3>2, TableSeated DEF Offers, Closes
    <3>5. \A p \in Player : g'.stack[p] < g.stack[p] => p = u
      BY <3>2, <3>4, TableSeated DEF Offers, Closes
    <3>6. g'.roundBet < g.roundBet => g'.stage # g.stage
      <4>1. CASE Stuck(Seating, g')
        BY <3>1, <4>1, TableSeated DEF Betting, Streets
      <4>2. CASE ~Stuck(Seating, g')
        <5>1. g'.roundBet \in Nat
          BY <3>1, <4>2, TableSeated DEF Over, InPlay, Stakes, Shape, Table
        <5> QED BY <3>2, <3>4, <5>1 DEF Offers, Closes
      <4> QED BY <4>1, <4>2
    <3>7. g.folded \subseteq g'.folded /\ g.allIn \subseteq g'.allIn
      BY <3>2 DEF Offers, Closes
    <3> QED BY <3>3, <3>5, <3>6, <3>7
  <2>3. ASSUME NEW u \in Player, Reveal(u) PROVE Respect
    <3>1. Over(Seating, g) /\ ~Stuck(Seating, g)
      BY <2>3, RevealLemma, TableSeated DEF Over
    <3> QED BY <2>1, <2>3, <3>1, RevealLemma
  <2> QED BY <2>2, <2>3 DEF Next
<1> QED BY <1>1, HandInvariant, PTL DEF Spec, StepsRespectSeats

-----------------------------------------------------------------------------
(* The settlement. *)

\* Every hand that is over has been divided.
Shared == Inv /\ (Over(Seating, g) => Divided(Seating, g, dealt))

LEMMA InitShared == Init => Shared
<1> SUFFICES ASSUME Init PROVE Shared
  OBVIOUS
<1>4. Stuck(Seating, g) \/ Ended(Seating, g, dealt) \/ InPlay(Seating, g, dealt)
  BY TheDeal
<1>5. Over(Seating, g) => Divided(Seating, g, dealt)
  BY <1>4, TableSeated, EndedDivided, OverNotInPlay DEF Over
<1> QED BY <1>5, InitInv DEF Shared

\* What the division promises depends on the chips and the cards alone, so
\* that showing cards leaves it as it is.
LEMMA DividedAlike ==
  ASSUME NEW h, NEW k, NEW d, Table(Seating, h), Table(Seating, k), Divided(Seating, h, d),
         k.stack = h.stack, k.won = h.won, k.contributed = h.contributed,
         k.strength = h.strength, k.folded = h.folded, k.reason = h.reason
  PROVE  Divided(Seating, k, d)
<1>1. Active(k) = Active(h)
  <2>1. k.players = Seating /\ h.players = Seating /\ k.folded = h.folded
    BY DEF Table
  <2>2. Active(k) = Range(Seating) \ k.folded
    BY ONLY TableSeated, <2>1, SeatsOfShape
  <2>3. Active(h) = Range(Seating) \ h.folded
    BY ONLY TableSeated, <2>1, SeatsOfShape
  <2> QED BY <2>1, <2>2, <2>3
<1> DEFINE S      == Active(h)
           c      == h.contributed
<1>2. CalledLevel(k, Active(k)) = CalledLevel(h, S) /\ Levels(k) = Levels(h)
  BY <1>1 DEF CalledLevel, Levels
<1>3. Accounted(Seating, k, d)
  BY <1>1, <1>2 DEF Divided, Accounted
<1>4. ASSUME k.reason = "showdown" PROVE Fair(Seating, k) /\ Deserved(k) /\ Even(k)
  BY <1>1, <1>2, <1>4 DEF Divided, Fair, Deserved, Even
<1> QED BY <1>3, <1>4 DEF Divided

LEMMA StepShared == Shared /\ [Next]_vars => Shared'
<1> SUFFICES ASSUME Shared, [Next]_vars PROVE Shared'
  OBVIOUS
<1>1. CASE UNCHANGED vars
  BY <1>1 DEF Shared, Inv, vars
<1>2. ASSUME NEW u \in Player, Act(u) PROVE Shared'
  <2>1. dealt' = dealt /\ \E c : Goes(Seating, c, u, g', dealt)
    BY <1>2, ActLemma DEF Shared
  <2>2. Stuck(Seating, g') \/ Ended(Seating, g', dealt) \/ InPlay(Seating, g', dealt)
    BY <2>1 DEF Goes
  <2>3. Over(Seating, g') => Divided(Seating, g', dealt)
    BY <2>2, TableSeated, EndedDivided, OverNotInPlay DEF Over
  <2> QED BY <2>1, <2>3, StepInv DEF Shared
<1>3. ASSUME NEW u \in Player, Reveal(u) PROVE Shared'
  <2>1. Inv /\ Divided(Seating, g, dealt)
    BY <1>3, RevealLemma DEF Shared
  <2>2. Divided(Seating, g', dealt)
    BY <1>3, <2>1, RevealLemma, DividedAlike DEF Over
  <2>3. dealt' = dealt
    BY <1>3, <2>1, RevealLemma
  <2> QED BY <2>1, <2>2, <2>3, StepInv DEF Shared
<1> QED BY <1>1, <1>2, <1>3 DEF Next

LEMMA SharedInvariant == Spec => []Shared
BY InitShared, StepShared, PTL DEF Spec

\* A finished hand has been divided.
LEMMA FinishedDivided ==
  ASSUME Shared, Finished
  PROVE  Over(Seating, g) /\ Divided(Seating, g, dealt) /\ InHand(g) = Player
<1>1. Over(Seating, g)
  BY BettingIsInPlay, TableSeated DEF Shared, Finished, Betting, Streets
<1> QED BY <1>1, TableSeated, SeatsOfShape DEF Shared, Over, Table

\* finishShowdown and finishByLastStanding neither make a chip nor lose one,
\* but for what folded players staked above the called level.
THEOREM ChipsAlwaysAccounted == Spec => []ChipsAccounted
<1>1. Shared => ChipsAccounted
  BY FinishedDivided, TableSeated DEF ChipsAccounted, Divided, Accounted, Sum
<1> QED BY <1>1, SharedInvariant, PTL

\* Nobody wins from another player more than the winner's own stake.
THEOREM SidePotsAlwaysFair == Spec => []SidePotFair
<1>1. Shared => SidePotFair
  BY FinishedDivided, TableSeated DEF SidePotFair, Divided, Fair, Sum
<1> QED BY <1>1, SharedInvariant, PTL

\* finishShowdown pays the strongest hand of those entitled to each layer.
THEOREM StrongestAlwaysWins == Spec => []StrongestWins
<1>1. Shared => StrongestWins
  BY FinishedDivided, TableSeated DEF StrongestWins, Divided, Deserved
<1> QED BY <1>1, SharedInvariant, PTL

\* Equal hands with equal stakes are paid the same, up to the odd chips.
THEOREM TiesAlwaysSplit == Spec => []TiesSplit
<1>1. Shared => TiesSplit
  BY FinishedDivided, TableSeated DEF TiesSplit, Divided, Even
<1> QED BY <1>1, SharedInvariant, PTL

-----------------------------------------------------------------------------
(* A hand implements HandContract. *)

\* The variables of the contract, of a hand in play and of one that is over.
LEMMA ContractInPlay ==
  ASSUME NEW h, NEW d, InPlay(Seating, h, d)
  PROVE  /\ Betting(h) /\ h.stage \in Streets /\ StreetNumber[h.stage] \in 1 .. 4
         /\ h.stage # "river" => /\ StreetNumber[h.stage] < 4
                                 /\ StreetNumber[StreetAfter[h.stage]] = StreetNumber[h.stage] + 1
         /\ h.stack \in [Player -> Nat] /\ h.pot \in Nat
         /\ Due(h) \subseteq Player /\ Seating[h.turn + 1] \in Due(h)
<1>1. Shape(Seating, h) /\ Owed(Seating, h)
  BY DEF InPlay, Stakes
<1>2. h.stage \in Streets /\ Playable(h) \subseteq Player
  BY <1>1, TableSeated, PlayableOfShape DEF Shape
<1>3. /\ StreetNumber[h.stage] \in 1 .. 4
      /\ h.stage # "river" => /\ StreetNumber[h.stage] < 4
                              /\ StreetNumber[StreetAfter[h.stage]] = StreetNumber[h.stage] + 1
  BY <1>2 DEF Streets, StreetNumber, StreetAfter
<1> QED BY <1>1, <1>2, <1>3, TableSeated DEF Betting, Shape, Table, Due, Owed

LEMMA ContractOver ==
  ASSUME NEW h, Over(Seating, h)
  PROVE  ~Betting(h) /\ StreetNumber[h.stage] = 5 /\ h.stack \in [Player -> Nat]
<1>1. h.stage = "finished" /\ h.stack \in [Player -> Nat]
  BY TableSeated DEF Over, Table
<1>2. StreetNumber["finished"] = 5
  BY DEF StreetNumber
<1> QED BY <1>1, <1>2 DEF Betting, Streets

\* The contract's sum is the sum.
LEMMA ContractSum ==
  ASSUME NEW f, NEW S
  PROVE  Contract!SumFunctionOnSet(f, S) = SumFunctionOnSet(f, S)
BY DEF SumFunctionOnSet, FoldFunctionOnSet, MapThenFoldSet,
       Contract!SumFunctionOnSet, Contract!FoldFunctionOnSet, Contract!MapThenFoldSet

\* The deal begins the contract.
LEMMA ContractInit == DeckSuffices /\ Init => Contract!Init
<1> SUFFICES ASSUME DeckSuffices, Init PROVE Contract!Init
  OBVIOUS
<1>4. Ended(Seating, g, dealt) \/ (InPlay(Seating, g, dealt) /\ g.stage = "preflop")
  BY TheDeal, TableSeated
<1>5. CASE Ended(Seating, g, dealt)
  <2>1. ~Betting(g) /\ StreetNumber[g.stage] = 5 /\ g.stack \in [Player -> Nat]
    BY <1>5, TableSeated, EndedDivided, ContractOver
  <2> QED BY <2>1 DEF Contract!Init
<1>6. CASE InPlay(Seating, g, dealt) /\ g.stage = "preflop"
  <2>1. /\ Betting(g) /\ g.stack \in [Player -> Nat] /\ g.pot \in Nat
        /\ Due(g) \subseteq Player /\ Due(g) # {}
    BY <1>6, ContractInPlay
  <2>2. StreetNumber[g.stage] = 1
    BY <1>6 DEF StreetNumber
  <2> QED BY <2>1, <2>2 DEF Contract!Init, Due
<1> QED BY <1>4, <1>5, <1>6

\* Every accepted action keeps the contract: the turn passes on, a street
\* opens, or the pot is divided.
LEMMA ContractAct ==
  ASSUME DeckSuffices, Inv, NEW u \in Player, Act(u)
  PROVE  Contract!Next
<1>1. dealt' = dealt /\ MayAct(g, u) /\ Betting(g) /\ InPlay(Seating, g, dealt)
  BY ActLemma
<1>2. PICK c : /\ Offers(Seating, g, u, c) /\ Closes(Seating, c, g')
               /\ Goes(Seating, c, u, g', dealt) /\ ~Stuck(Seating, g')
  BY ActLemma, TableSeated
<1>3. /\ g.stage \in Streets /\ StreetNumber[g.stage] \in 1 .. 4
      /\ g.stage # "river" => /\ StreetNumber[g.stage] < 4
                              /\ StreetNumber[StreetAfter[g.stage]] = StreetNumber[g.stage] + 1
      /\ g.stack \in [Player -> Nat] /\ g.pot \in Nat
      /\ Due(g) \subseteq Player /\ u \in Due(g)
  <2>1. u = Seating[g.turn + 1]
    BY <1>1, TableSeated, ActorFacts
  <2> QED BY <1>1, <2>1, ContractInPlay
<1>4. PICK n \in 0 .. g.stack[u] : /\ c.stack[u] = g.stack[u] - n /\ c.pot = g.pot + n
                                   /\ n = 0 => Due(c) \ {u} \subseteq Due(g)
  BY <1>2 DEF Offers
<1>5. /\ c.stage = g.stage /\ \A p \in Player \ {u} : c.stack[p] = g.stack[p]
      /\ Due(g) \ {u} \subseteq Due(c)
  BY <1>2, TableSeated DEF Offers
<1>6. ASSUME InPlay(Seating, g', dealt)
      PROVE  /\ Betting(g') /\ g'.stack \in [Player -> Nat]
             /\ Due(g') \subseteq Player /\ Due(g') # {}
  BY <1>6, ContractInPlay
<1>7. ASSUME InPlay(Seating, g', dealt), g'.stack = c.stack
      PROVE  g'.stack = [g.stack EXCEPT ![u] = @ - n]
  BY <1>3, <1>4, <1>5, <1>6, <1>7
<1>8. ASSUME InPlay(Seating, g', dealt), Passes(c, u, g')
      PROVE  Contract!Answer(u, n)
  <2>1. /\ g'.stage = g.stage /\ g'.stack = c.stack /\ g'.pot = g.pot + n
        /\ Due(g') = Due(c) \ {u}
    BY <1>4, <1>5, <1>8 DEF Passes
  <2>2. /\ Due(g') # {} /\ Due(g') \subseteq Player \ {u} /\ Due(g) \ {u} \subseteq Due(g')
        /\ n = 0 => Due(g') \subseteq Due(g)
    BY <1>4, <1>5, <1>6, <1>8, <2>1
  <2>3. StreetNumber[g'.stage] = StreetNumber[g.stage] /\ StreetNumber[g.stage] < 5
    BY <1>3, <2>1
  <2> QED BY <1>1, <1>3, <1>6, <1>7, <1>8, <2>1, <2>2, <2>3 DEF Contract!Answer, Due
<1>9. ASSUME InPlay(Seating, g', dealt), Opens(c, u, g')
      PROVE  Contract!CloseStreet(u, n)
  <2>1. /\ g.stage # "river" /\ g'.stage = StreetAfter[g.stage] /\ g'.stack = c.stack
        /\ g'.pot = g.pot + n /\ Due(c) \subseteq {u}
    BY <1>4, <1>5, <1>9 DEF Opens
  <2>2. Due(g) = {u}
    BY <1>3, <1>5, <2>1
  <2>3. StreetNumber[g.stage] < 4 /\ StreetNumber[g'.stage] = StreetNumber[g.stage] + 1
    BY <1>3, <2>1
  <2> QED BY <1>1, <1>6, <1>7, <1>9, <2>1, <2>2, <2>3 DEF Contract!CloseStreet, Due
<1>10. ASSUME Ended(Seating, g', dealt)
       PROVE  Contract!Settle(u, n)
  <2>1. ~Betting(g') /\ StreetNumber[g'.stage] = 5 /\ g'.stack \in [Player -> Nat]
    BY <1>10, TableSeated, EndedDivided, ContractOver
  <2>2. \A p \in Player : g'.stack[p] >= c.stack[p]
    BY <1>2, TableSeated DEF Closes
  <2>3. /\ \A q \in Player \ {u} : g'.stack[q] >= g.stack[q]
        /\ g'.stack[u] >= g.stack[u] - n
    BY <1>4, <1>5, <2>2
  <2>4. SumFunctionOnSet(g'.stack, Player) <= SumFunctionOnSet(g.stack, Player) + g.pot
    <3>1. /\ \A p \in Player : g.stack[p] + g.contributed[p] = dealt[p]
          /\ g.pot = SumFunctionOnSet(g.contributed, Player)
          /\ Table(Seating, g)
      BY <1>1, TableSeated DEF InPlay, Stakes, Booked, Shape
    <3>2. /\ IsFiniteSet(Player)
          /\ \A p \in Player : /\ g.stack[p] \in Int /\ g.contributed[p] \in Int
                               /\ dealt[p] = g.stack[p] + g.contributed[p]
      BY <3>1, TableSeated, SeatingFacts DEF Table
    <3>3. SumFunctionOnSet(dealt, Player) = SumFunctionOnSet(g.stack, Player) + g.pot
      BY <3>1, <3>2, SumAdd
    <3>4. SumFunctionOnSet(g'.stack, Player) <= SumFunctionOnSet(dealt, Player)
      BY <1>10, TableSeated, EndedDivided
    <3> QED BY <3>3, <3>4
  <2>5. StreetNumber[g.stage] < 5
    BY <1>3
  <2>6. Contract!InBank(g'.stack) <= Contract!InBank(g.stack) + g.pot
    BY <2>4, ContractSum DEF Contract!InBank
  <2> QED BY <1>1, <1>3, <2>1, <2>3, <2>5, <2>6 DEF Contract!Settle, Due
<1>11. Contract!Answer(u, n) \/ Contract!CloseStreet(u, n) \/ Contract!Settle(u, n)
  BY <1>2, <1>8, <1>9, <1>10 DEF Goes
<1> QED BY <1>4, <1>11 DEF Contract!Next

\* Showing cards changes none of the contract's variables.
LEMMA ContractReveal ==
  ASSUME Inv, NEW u \in Player, Reveal(u)
  PROVE  UNCHANGED Contract!vars
<1>1. Over(Seating, g) /\ Over(Seating, g') /\ g'.stage = g.stage /\ g'.stack = g.stack
  BY RevealLemma
<1>2. ~Betting(g) /\ ~Betting(g')
  BY <1>1, ContractOver
<1> QED BY <1>1, <1>2 DEF Contract!vars

\* GameState implements HandContract: every call it accepts is an answer, the
\* end of a street or the settlement, or changes nothing the contract sees.  A
\* table that the deck does not suffice for stops in the middle of a hand, and
\* is excepted.
THEOREM ContractHonoured == DeckSuffices => (Spec => HonoursContract)
<1>1. DeckSuffices /\ Inv /\ [Next]_vars => [Contract!Next]_(Contract!vars)
  <2> SUFFICES ASSUME DeckSuffices, Inv, [Next]_vars PROVE [Contract!Next]_(Contract!vars)
    OBVIOUS
  <2>1. CASE UNCHANGED vars
    BY <2>1 DEF vars, Contract!vars, Betting, Playable, Active, InHand
  <2>2. ASSUME NEW u \in Player, Act(u) PROVE Contract!Next
    BY <2>2, ContractAct
  <2>3. ASSUME NEW u \in Player, Reveal(u) PROVE UNCHANGED Contract!vars
    BY <2>3, ContractReveal
  <2> QED BY <2>1, <2>2, <2>3 DEF Next
<1> SUFFICES ASSUME DeckSuffices PROVE Spec => HonoursContract
  OBVIOUS
<1>2. (Init => Contract!Init) /\ (Inv /\ [Next]_vars => [Contract!Next]_(Contract!vars))
  BY <1>1, ContractInit
<1> QED BY <1>2, HandInvariant, PTL DEF Spec, HonoursContract, Contract!Spec

-----------------------------------------------------------------------------
(* Decisions and views: whatever the model answers and however the scores  *)
(* fall, the server decides on a move that the hand accepts; the copies of *)
(* the rules agree; cards stay hidden.                                     *)

\* What the local strategy and the guard rely on: an input offers the moves
\* that the bet to call and the stack leave open.
Offered(i) ==
  /\ i.stack \in Nat /\ i.stack > 0 /\ i.call \in Nat
  /\ i.allowed \subseteq {"fold", "check", "call", "bet", "allin"}
  /\ {"fold", "allin"} \subseteq i.allowed
  /\ "check" \in i.allowed <=> i.call = 0
  /\ "call" \in i.allowed <=> i.call > 0
  /\ BetFloor(i) \in Nat
  /\ "bet" \in i.allowed => BetFloor(i) <= i.stack
  /\ i.facingRaise => i.call > 0

-----------------------------------------------------------------------------
(* The input. *)

\* The player on turn has chips, and owes an answer to a bet unless the street
\* is still as it opened.
LEMMA TurnFacts ==
  ASSUME NEW h, NEW d, InPlay(Seating, h, d)
  PROVE  /\ MayAct(h, OnTurn(h))
         /\ OnTurn(h) \in Player /\ OnTurn(h) \in Playable(h)
         /\ h.stack[OnTurn(h)] \in Nat /\ h.stack[OnTurn(h)] > 0
         /\ h.roundBet \in Nat /\ h.roundContrib[OnTurn(h)] \in Nat
         /\ h.roundContrib[OnTurn(h)] <= h.roundBet
         /\ h.roundContrib[OnTurn(h)] < h.roundBet \/ h.roundBet = OpeningBet(h)
<1> DEFINE u == OnTurn(h)
<1>1. Shape(Seating, h) /\ Funded(Seating, h) /\ Owed(Seating, h) /\ Asked(h)
  BY DEF InPlay, Stakes
<1>2. u = Seating[h.turn + 1] /\ u \in Playable(h) /\ u \notin h.hasActed
  BY <1>1, TableSeated, PlayableOfShape DEF Owed, OnTurn
<1>3. MayAct(h, u)
  BY <1>1, <1>2 DEF MayAct, Betting, Shape, OnTurn
<1>4. /\ u \in Player /\ u \notin h.allIn
      /\ h.stack[u] \in Nat /\ h.roundBet \in Nat /\ h.roundContrib[u] \in Nat
      /\ h.roundContrib[u] <= h.roundBet
  BY <1>1, <1>3, TableSeated, ActorFacts
<1>5. h.stack[u] > 0
  BY <1>1, <1>4, TableSeated DEF Funded
<1> QED BY <1>1, <1>2, <1>3, <1>4, <1>5 DEF Asked

\* What buildAIDecisionInput says of the player on turn.
LEMMA InputFacts ==
  ASSUME NEW h, NEW d, InPlay(Seating, h, d), NEW u, u = OnTurn(h), NEW i, i = DecisionInput(h, u)
  PROVE  /\ Offered(i)
         /\ i.stack = h.stack[u] /\ i.call = h.roundBet - h.roundContrib[u]
         /\ BetFloor(i) = LeastBet(h, u) \/ "bet" \notin i.allowed
         /\ "bet" \in i.allowed <=> LeastBet(h, u) <= h.stack[u]
<1> DEFINE diff     == h.roundBet - h.roundContrib[u]
           canOpen  == h.roundBet = 0 /\ h.stack[u] >= OpenBetMin
           canRaise == h.roundBet > 0 /\ h.stack[u] >= LeastRaise(h, u)
<1>1. /\ MayAct(h, u) /\ u \in Playable(h)
      /\ h.stack[u] \in Nat /\ h.stack[u] > 0
      /\ h.roundBet \in Nat /\ h.roundContrib[u] \in Nat /\ h.roundContrib[u] <= h.roundBet
      /\ h.roundContrib[u] < h.roundBet \/ h.roundBet = OpeningBet(h)
  BY TurnFacts
<1>2. /\ i.stage = h.stage /\ i.roundBet = h.roundBet /\ i.stack = h.stack[u] /\ i.call = diff
      /\ i.minBet = IF canOpen THEN OpenBetMin ELSE 0
      /\ i.minRaise = IF canRaise THEN LeastRaise(h, u) ELSE 0
      /\ i.facingRaise = (h.stage = "preflop" /\ h.roundBet > OpenBetMin)
  BY DEF DecisionInput
<1>3. i.allowed = {"fold"}
                   \cup {a \in {"check"} : diff = 0} \cup {a \in {"call"} : diff > 0}
                   \cup {a \in {"bet"} : canOpen \/ canRaise}
                   \cup {a \in {"allin"} : h.stack[u] > 0}
  BY <1>1, Zenon DEF DecisionInput
<1>4. diff \in Nat /\ OpenBetMin \in Nat \ {0} /\ BetMin \in Nat \ {0}
      /\ LeastRaise(h, u) = diff + BetMin
  BY <1>1, BlindsAssumption DEF LeastRaise
<1>5. LeastBet(h, u) = IF h.roundBet = 0 THEN OpenBetMin ELSE diff + BetMin
  BY DEF LeastBet
<1> DEFINE floor == IF i.roundBet > 0 THEN i.minRaise ELSE i.minBet
<1>6. floor \in Nat /\ (canOpen \/ canRaise => floor = LeastBet(h, u) /\ floor >= 1)
  BY <1>1, <1>2, <1>4, <1>5
<1>7. BetFloor(i) = IF 1 <= floor THEN floor ELSE 1
  <2>1. BetFloor(i) = Max({1, floor})
    BY DEF BetFloor
  <2> HIDE DEF floor
  <2> QED BY <1>6, <2>1, MaxOfPair
<1>8. "bet" \in i.allowed <=> canOpen \/ canRaise
  BY <1>3
<1>9. canOpen \/ canRaise <=> LeastBet(h, u) <= h.stack[u]
  BY <1>1, <1>4, <1>5
<1>10. i.facingRaise => i.call > 0
  <2>1. i.facingRaise => h.stage = "preflop" /\ h.roundBet > OpenBetMin
    BY <1>2, Zenon
  <2>2. h.stage = "preflop" /\ h.roundBet > OpenBetMin => diff > 0
    BY <1>1, <1>4 DEF OpeningBet
  <2> QED BY <1>2, <2>1, <2>2
<1>11. /\ "check" \in i.allowed <=> diff = 0
       /\ "call" \in i.allowed <=> diff > 0
       /\ "fold" \in i.allowed /\ "allin" \in i.allowed
       /\ i.allowed \subseteq {"fold", "check", "call", "bet", "allin"}
  BY <1>1, <1>3
<1> HIDE DEF diff, canOpen, canRaise, floor
<1>12. Offered(i)
  BY <1>1, <1>2, <1>4, <1>6, <1>7, <1>8, <1>9, <1>10, <1>11 DEF Offered
<1> QED BY <1>2, <1>6, <1>7, <1>8, <1>9, <1>12, <1>4 DEF diff

\* allowedActionsForPlayer and the floor of a bet admit a decision exactly when
\* the hand accepts it.
LEMMA AcceptedAsAllowed ==
  ASSUME NEW h, NEW d, InPlay(Seating, h, d), NEW u, u = OnTurn(h), NEW i, i = DecisionInput(h, u),
         NEW a
  PROVE  AllowedByInput(i, a) <=> Accepts(h, u, a)
<1>1. /\ MayAct(h, u) /\ h.stack[u] \in Nat /\ h.stack[u] > 0
      /\ h.roundBet \in Nat /\ h.roundContrib[u] \in Nat /\ h.roundContrib[u] <= h.roundBet
  BY TurnFacts
<1>2. /\ Offered(i)
      /\ i.stack = h.stack[u] /\ i.call = h.roundBet - h.roundContrib[u]
      /\ BetFloor(i) = LeastBet(h, u) \/ "bet" \notin i.allowed
      /\ "bet" \in i.allowed <=> LeastBet(h, u) <= h.stack[u]
  BY InputFacts
<1>3. LeastBet(h, u) \in Nat
  BY <1>1, BlindsAssumption DEF LeastBet
<1>4. CASE a.action = "check"
  <2>1. Accepts(h, u, a) <=> CanCheck(h, u)
    BY <1>4 DEF Accepts
  <2>2. AllowedByInput(i, a) <=> "check" \in i.allowed
    BY <1>4 DEF AllowedByInput
  <2>3. "check" \in i.allowed <=> h.roundBet = h.roundContrib[u]
    BY <1>1, <1>2 DEF Offered
  <2> QED BY <1>1, <2>1, <2>2, <2>3 DEF CanCheck
<1>5. CASE a.action = "call"
  <2>1. Accepts(h, u, a) <=> CanCall(h, u)
    BY <1>5 DEF Accepts
  <2>2. AllowedByInput(i, a) <=> "call" \in i.allowed
    BY <1>5 DEF AllowedByInput
  <2>3. "call" \in i.allowed <=> h.roundBet > h.roundContrib[u]
    BY <1>1, <1>2 DEF Offered
  <2> QED BY <1>1, <2>1, <2>2, <2>3 DEF CanCall
<1>6. CASE a.action = "bet"
  <2>1. Accepts(h, u, a) <=> CanBet(h, u, a.amount)
    BY <1>6 DEF Accepts
  <2>2. AllowedByInput(i, a) <=> "bet" \in i.allowed /\ a.amount \in BetFloor(i) .. i.stack
    BY <1>6 DEF AllowedByInput
  <2>3. CASE "bet" \in i.allowed
    BY <1>1, <1>2, <2>1, <2>2, <2>3 DEF CanBet
  <2>4. CASE "bet" \notin i.allowed
    <3>1. LeastBet(h, u) .. h.stack[u] = {}
      BY <1>1, <1>2, <1>3, <2>4
    <3> QED BY <2>1, <2>2, <2>4, <3>1 DEF CanBet
  <2> QED BY <2>3, <2>4
<1>7. CASE a.action = "allin"
  <2>1. Accepts(h, u, a) <=> CanAllIn(h, u)
    BY <1>7 DEF Accepts
  <2> QED BY <1>1, <1>2, <1>7, <2>1 DEF AllowedByInput, CanAllIn, Offered
<1>8. CASE a.action = "fold"
  <2>1. Accepts(h, u, a) <=> CanFold(h, u)
    BY <1>8 DEF Accepts
  <2> QED BY <1>1, <1>2, <1>8, <2>1 DEF AllowedByInput, CanFold, Offered
<1>9. CASE a.action \notin {"check", "call", "bet", "allin", "fold"}
  <2>1. ~Accepts(h, u, a)
    BY <1>9 DEF Accepts
  <2> QED BY <1>2, <1>9, <2>1 DEF AllowedByInput, Offered
<1> QED BY <1>4, <1>5, <1>6, <1>7, <1>8, <1>9

-----------------------------------------------------------------------------
(* The local strategy and the guard. *)

\* A move without an amount is allowed when its action is.
LEMMA MoveAllowed ==
  ASSUME NEW i, NEW a \in i.allowed, a # "bet"
  PROVE  AllowedByInput(i, Move(a)) /\ Move(a).action = a
BY DEF AllowedByInput, Move

\* What the branches of the local strategy choose from is allowed.
LEMMA BranchAllowed ==
  ASSUME NEW i, Offered(i), NEW actions, "bet" \notin actions
  PROVE  /\ \A f \in Perhaps(i, actions) : AllowedByInput(i, f) /\ f.action \in actions
         /\ \A f \in Bets(i) : AllowedByInput(i, f) /\ f.action = "bet"
         /\ \A f \in Jams(i) : AllowedByInput(i, f) /\ f.action = "allin"
<1>1. ASSUME NEW as, "bet" \notin as, NEW f \in Perhaps(i, as)
      PROVE  AllowedByInput(i, f) /\ f.action \in as
  <2>1. PICK a \in as \cap i.allowed : f = Move(a)
    BY <1>1 DEF Perhaps
  <2> QED BY <1>1, <2>1, MoveAllowed
<1>2. ASSUME NEW f \in Jams(i) PROVE AllowedByInput(i, f) /\ f.action = "allin"
  <2>1. f \in Perhaps(i, {"allin"})
    BY <1>2 DEF Jams
  <2> QED BY <2>1, <1>1
<1>3. ASSUME NEW f \in Bets(i) PROVE AllowedByInput(i, f) /\ f.action = "bet"
  <2>1. "bet" \in i.allowed /\ i.stack \in Nat /\ BetFloor(i) \in Nat /\ BetFloor(i) <= i.stack
    BY <1>3 DEF Bets, Offered
  <2>2. PICK n \in BetAmounts(i) : f = Wager(n)
    BY <1>3 DEF Bets
  <2>3. n \in BetFloor(i) .. i.stack
    BY <2>1, <2>2 DEF BetAmounts
  <2>4. f.action = "bet" /\ f.amount = n
    BY <2>2 DEF Wager
  <2> QED BY <2>1, <2>3, <2>4 DEF AllowedByInput
<1> QED BY <1>1, <1>2, <1>3

\* FirstOf finds the first action that is allowed.
LEMMA FirstAllowed ==
  ASSUME NEW i, NEW order, DOMAIN order \subseteq Nat, NEW last,
         \A k \in DOMAIN order : order[k] # "bet",
         \E k \in DOMAIN order : order[k] \in i.allowed,
         NEW f, f = FirstOf(i, order, last)
  PROVE  \E k \in DOMAIN order :
           /\ f = Move(order[k]) /\ f.action = order[k] /\ AllowedByInput(i, f)
           /\ \A j \in DOMAIN order : j < k => order[j] \notin i.allowed
<1> DEFINE Ok == {k \in DOMAIN order : order[k] \in i.allowed}
           k  == Min(Ok)
<1>1. Ok \in SUBSET Nat /\ Ok # {}
  OBVIOUS
<1>2. f = Move(order[k])
  BY <1>1 DEF FirstOf
<1>3. k \in Ok /\ \A j \in Ok : k <= j
  <2> HIDE DEF Ok
  <2> QED BY <1>1, MinOfNaturals
<1>4. \A j \in DOMAIN order : j < k => order[j] \notin i.allowed
  <2>1. SUFFICES ASSUME NEW j \in DOMAIN order, j < k, order[j] \in i.allowed PROVE FALSE
    OBVIOUS
  <2>2. j \in Ok /\ j \in Nat /\ k \in Nat
    BY <1>1, <1>3, <2>1
  <2>3. k <= j
    BY <1>3, <2>2
  <2> QED BY <2>1, <2>2, <2>3
<1>5. k \in DOMAIN order /\ order[k] \in i.allowed
  BY <1>3
<1> HIDE DEF k, Ok
<1>6. AllowedByInput(i, f) /\ f.action = order[k]
  BY <1>2, <1>5, MoveAllowed
<1> QED BY <1>2, <1>4, <1>5, <1>6

\* The local strategy decides on a move that is allowed, and not on a fold when
\* it may check.
LEMMA FallbackFacts ==
  ASSUME NEW i, Offered(i), NEW f \in FallbackDecisions(i)
  PROVE  AllowedByInput(i, f) /\ ("check" \in i.allowed => f.action # "fold")
<1> DEFINE Good(d) == AllowedByInput(i, d) /\ ("check" \in i.allowed => d.action # "fold")
<1>1. /\ {"fold", "allin"} \subseteq i.allowed /\ i.call \in Nat
      /\ "check" \in i.allowed <=> i.call = 0
      /\ "call" \in i.allowed <=> i.call > 0
      /\ i.facingRaise => i.call > 0
  BY DEF Offered
<1>2. /\ \A as : "bet" \notin as => \A d \in Perhaps(i, as) : AllowedByInput(i, d) /\ d.action \in as
      /\ \A d \in Bets(i) : Good(d)
      /\ \A d \in Jams(i) : Good(d)
  <2>1. ASSUME NEW as, "bet" \notin as, NEW d \in Perhaps(i, as)
        PROVE  AllowedByInput(i, d) /\ d.action \in as
    BY <2>1, BranchAllowed
  <2>2. "bet" \notin {}
    OBVIOUS
  <2>3. \A d \in Bets(i) : AllowedByInput(i, d) /\ d.action = "bet"
    BY <2>2, BranchAllowed
  <2>4. \A d \in Jams(i) : AllowedByInput(i, d) /\ d.action = "allin"
    BY <2>2, BranchAllowed
  <2> QED BY <2>1, <2>3, <2>4
<1>3. \A as : as \cap {"bet", "fold"} = {} => \A d \in Perhaps(i, as) : Good(d)
  BY <1>2
<1>4. FacingBet(i) => \A as : "bet" \notin as => \A d \in Perhaps(i, as) : Good(d)
  <2>1. FacingBet(i) => "check" \notin i.allowed
    BY <1>1 DEF FacingBet
  <2> QED BY <1>2, <2>1
<1>5. \A last : /\ Good(FirstOf(i, <<"check", "call", "fold", "allin">>, last))
                /\ "check" \notin i.allowed => Good(FirstOf(i, <<"fold", "call", "check">>, last))
                /\ "check" \notin i.allowed => Good(FirstOf(i, <<"fold", "call">>, last))
  <2>1. TAKE last
  <2> DEFINE F == FirstOf(i, <<"check", "call", "fold", "allin">>, last)
             G == FirstOf(i, <<"fold", "call", "check">>, last)
             H == FirstOf(i, <<"fold", "call">>, last)
  <2>2. Good(F)
    <3> DEFINE order == <<"check", "call", "fold", "allin">>
    <3>1. DOMAIN order = 1 .. 4 /\ order[1] = "check" /\ order[2] = "call" /\ order[3] = "fold"
          /\ order[4] = "allin"
      OBVIOUS
    <3> HIDE DEF order
    <3>2. PICK k \in DOMAIN order : /\ F.action = order[k] /\ AllowedByInput(i, F)
                                    /\ \A j \in DOMAIN order : j < k => order[j] \notin i.allowed
      BY <1>1, <3>1, FirstAllowed DEF order
    <3>3. order[k] = "fold" => k = 3
      BY <3>1, <3>2
    <3> QED BY <3>1, <3>2, <3>3
  <2>3. "check" \notin i.allowed => Good(G)
    <3> DEFINE order == <<"fold", "call", "check">>
    <3>1. DOMAIN order = 1 .. 3 /\ order[1] = "fold" /\ order[2] = "call" /\ order[3] = "check"
      OBVIOUS
    <3> HIDE DEF order
    <3>2. AllowedByInput(i, G)
      BY <1>1, <3>1, FirstAllowed DEF order
    <3> QED BY <3>2
  <2>4. "check" \notin i.allowed => Good(H)
    <3> DEFINE order == <<"fold", "call">>
    <3>1. DOMAIN order = 1 .. 2 /\ order[1] = "fold" /\ order[2] = "call"
      OBVIOUS
    <3> HIDE DEF order
    <3>2. AllowedByInput(i, H)
      BY <1>1, <3>1, FirstAllowed DEF order
    <3> QED BY <3>2
  <2> QED BY <2>2, <2>3, <2>4
<1>8. SUFFICES Good(f)
  OBVIOUS
<1> HIDE DEF Good
<1>6. CASE i.stage = "preflop"
  <2>1. f \in PreflopDecisions(i)
    BY <1>1, <1>6 DEF FallbackDecisions
  <2>2. CASE f \in Perhaps(i, {"allin"}) \cup Bets(i) \cup Perhaps(i, {"call"})
    BY <1>2, <1>3, <2>2
  <2>3. CASE i.facingRaise /\ f = FirstOf(i, <<"fold", "call", "check">>, Move("fold"))
    BY <1>1, <1>5, <2>3
  <2>4. CASE "check" \in i.allowed /\ f = Move("check")
    <3>1. AllowedByInput(i, f) /\ f.action = "check"
      BY <2>4, MoveAllowed
    <3> QED BY <3>1 DEF Good
  <2>5. CASE "check" \notin i.allowed /\ f = FirstOf(i, <<"fold", "call">>, Move("check"))
    BY <1>5, <2>5
  <2> QED BY <2>1, <2>2, <2>3, <2>4, <2>5, Zenon DEF PreflopDecisions, Good
<1>7. CASE i.stage # "preflop"
  <2>1. \/ f \in RiverDecisions(i)
        \/ f \in StrongDecisions(i)
        \/ f \in GoodDecisions(i)
        \/ f \in WeakDecisions(i)
        \/ f = FirstOf(i, <<"check", "call", "fold", "allin">>, Move("fold"))
    BY <1>1, <1>7 DEF FallbackDecisions
  <2>2. \A d \in RiverDecisions(i) : Good(d)
    BY <1>2, <1>3, <1>4 DEF RiverDecisions
  <2>3. \A d \in StrongDecisions(i) : Good(d)
    BY <1>2, <1>3, <1>4 DEF StrongDecisions
  <2>4. \A d \in GoodDecisions(i) : Good(d)
    BY <1>2, <1>3, <1>4 DEF GoodDecisions
  <2>5. \A d \in WeakDecisions(i) : Good(d)
    BY <1>2, <1>3, <1>4 DEF WeakDecisions
  <2> QED BY <1>5, <2>1, <2>2, <2>3, <2>4, <2>5 DEF Good
<1> QED BY <1>6, <1>7

\* The guard hands on the model's decision or the local strategy's only when
\* the EV guard lets it pass, and otherwise finds one itself.
LEMMA GuardFacts ==
  ASSUME NEW i, Offered(i), NEW edge, NEW m, NEW f, NEW e \in Guarded(i, edge, m, f)
  PROVE  /\ AllowedByInput(i, e)
         /\ FacingBet(i) /\ edge = "ahead" => e.action # "fold"
<1>1. /\ {"fold", "allin"} \subseteq i.allowed /\ i.call \in Nat
      /\ "check" \in i.allowed <=> i.call = 0
      /\ "call" \in i.allowed <=> i.call > 0
  BY DEF Offered
<1>2. ASSUME NEW a, TRUE \in EVVerdicts(i, edge, a)
      PROVE  AllowedByInput(i, a) /\ (FacingBet(i) /\ edge = "ahead" => a.action # "fold")
  <2>1. AllowedByInput(i, a)
    BY <1>2 DEF EVVerdicts
  <2>2. a.action = "fold" => ~(FacingBet(i) /\ edge = "ahead")
    BY <1>2, <2>1 DEF EVVerdicts
  <2> QED BY <2>1, <2>2
<1>3. \/ e = m /\ TRUE \in EVVerdicts(i, edge, m)
      \/ e = f /\ TRUE \in EVVerdicts(i, edge, f)
      \/ e = LastResort(i, f)
  <2>1. PICK v \in EVVerdicts(i, edge, m) \X EVVerdicts(i, edge, f) \X PreferVerdicts(i, edge, m, f) :
          e \in {IF v[1] /\ ~(v[2] /\ v[3]) THEN m ELSE IF v[2] THEN f ELSE LastResort(i, f)}
    BY Zenon DEF Guarded
  <2>2. v[1] \in EVVerdicts(i, edge, m) /\ v[2] \in EVVerdicts(i, edge, f)
    BY <2>1
  <2>3. ASSUME NEW a PROVE EVVerdicts(i, edge, a) \subseteq BOOLEAN
    <3>1. CASE ~AllowedByInput(i, a)
      BY <3>1 DEF EVVerdicts
    <3>2. CASE AllowedByInput(i, a)
      <4>1. a.action \in {"fold", "check", "call", "bet", "allin"}
        BY <3>2 DEF AllowedByInput, Offered
      <4> QED BY <3>2, <4>1 DEF EVVerdicts
    <3> QED BY <3>1, <3>2
  <2> QED BY <2>1, <2>2, <2>3, Zenon
<1>4. /\ AllowedByInput(i, LastResort(i, f))
      /\ FacingBet(i) => LastResort(i, f).action # "fold"
  <2>1. CASE i.call = 0
    <3>1. LastResort(i, f) = Move("check")
      BY <1>1, <2>1 DEF LastResort
    <3> QED BY <1>1, <2>1, <3>1, MoveAllowed DEF FacingBet
  <2>2. CASE i.call # 0
    <3> DEFINE order == <<"call", "fold", "allin">>
    <3>1. LastResort(i, f) = FirstOf(i, order, f)
      BY <2>2 DEF LastResort
    <3>2. DOMAIN order = 1 .. 3 /\ order[1] = "call" /\ order[2] = "fold" /\ order[3] = "allin"
      OBVIOUS
    <3> HIDE DEF order
    <3>3. PICK k \in DOMAIN order :
            /\ LastResort(i, f).action = order[k] /\ AllowedByInput(i, LastResort(i, f))
            /\ \A j \in DOMAIN order : j < k => order[j] \notin i.allowed
      BY <1>1, <3>1, <3>2, FirstAllowed
    <3>4. order[k] # "fold"
      BY <1>1, <2>2, <3>2, <3>3
    <3> QED BY <3>3, <3>4
  <2> QED BY <2>1, <2>2
<1> QED BY <1>2, <1>3, <1>4

-----------------------------------------------------------------------------
(* Theorems. *)

\* What the worker and self play send is allowed by the input.
LEMMA DecisionsAllowed ==
  ASSUME NEW i, Offered(i), NEW edge, NEW e
  PROVE  /\ \A answer : e \in Sent(i, edge, answer) =>
              AllowedByInput(i, e) /\ (FacingBet(i) /\ edge = "ahead" => e.action # "fold")
         /\ e \in SelfPlayed(i, edge) => AllowedByInput(i, e)
<1>1. ASSUME NEW answer, e \in Sent(i, edge, answer) PROVE \E a, f : e \in Guarded(i, edge, a, f)
  <2>1. \E f \in FallbackDecisions(i) :
          e \in UNION {Guarded(i, edge, a, f) : a \in Taken(i, edge, f, answer)}
    BY <1>1 DEF Sent
  <2> QED BY <2>1
<1>2. ASSUME e \in SelfPlayed(i, edge) PROVE \E a, f : e \in Guarded(i, edge, a, f)
  <2>1. \E f \in FallbackDecisions(i) :
          e \in UNION {Guarded(i, edge, a, f) : a \in OptionDecisions(i, edge, f) \cup {f}}
    BY <1>2 DEF SelfPlayed
  <2> QED BY <2>1
<1> QED BY <1>1, <1>2, GuardFacts

\* Whatever an AI model answers, aiEventLoop sends applyActionFromAI a decision
\* that ApplyAction accepts, at every table and with every stack.
THEOREM DecisionsAlwaysAccepted == Spec => []DecisionAccepted
<1>1. Inv => DecisionAccepted
  <2> SUFFICES ASSUME Inv, Betting(g), NEW edge \in Edges,
                      NEW u, u = OnTurn(g), NEW i, i = DecisionInput(g, u)
               PROVE  /\ \A answer \in Answers(i) : \A d \in Sent(i, edge, answer) : Accepts(g, u, d)
                      /\ \A d \in SelfPlayed(i, edge) : Accepts(g, u, d)
    BY Zenon DEF DecisionAccepted
  <2>1. InPlay(Seating, g, dealt)
    BY BettingIsInPlay
  <2>2. Offered(i)
    BY <2>1, InputFacts
  <2>3. \A d : AllowedByInput(i, d) => Accepts(g, u, d)
    BY <2>1, AcceptedAsAllowed
  <2> QED BY <2>2, <2>3, DecisionsAllowed
<1> QED BY <1>1, HandInvariant, PTL

\* fallbackDecision never folds a hand that may be checked.
THEOREM FallbackNeverFoldsFree == Spec => []NoFreeFold
<1>1. Inv => NoFreeFold
  <2> SUFFICES ASSUME Inv, Betting(g), NEW i, i = DecisionInput(g, OnTurn(g)),
                      "check" \in i.allowed, Move("fold") \in FallbackDecisions(i)
               PROVE  FALSE
    BY Zenon DEF NoFreeFold
  <2>1. Offered(i)
    BY BettingIsInPlay, InputFacts
  <2> QED BY <2>1, FallbackFacts DEF Move
<1> QED BY <1>1, HandInvariant, PTL

\* guardAIDecision refuses to fold at a price that is clearly too good, whoever
\* proposes it.
THEOREM GuardRefusesBadFold == Spec => []NoBadFold
<1>1. Inv => NoBadFold
  <2> SUFFICES ASSUME Inv, Betting(g), NEW i, i = DecisionInput(g, OnTurn(g)), FacingBet(i),
                      NEW answer, Move("fold") \in Sent(i, "ahead", answer)
               PROVE  FALSE
    BY Zenon DEF NoBadFold
  <2>1. Offered(i)
    BY BettingIsInPlay, InputFacts
  <2> QED BY <2>1, DecisionsAllowed DEF Move
<1> QED BY <1>1, HandInvariant, PTL

\* allowedActionsForPlayer, GetState's buttons and ApplyAction agree on what the
\* player on turn may do.
THEOREM CopiesOfRulesAgree == Spec => []OffersMatchRules
<1>1. Inv => OffersMatchRules
  <2> SUFFICES ASSUME Inv, Betting(g), NEW u, u = OnTurn(g), NEW i, i = DecisionInput(g, u),
                      NEW b, b = Buttons(g, u, {}), NEW diff, diff = g.roundBet - g.roundContrib[u]
               PROVE  /\ \A d \in Answers(i) : AllowedByInput(i, d) <=> Accepts(g, u, d)
                      /\ b.check <=> CanCheck(g, u)
                      /\ b.call  <=> CanCall(g, u) /\ g.stack[u] >= diff
                      /\ \A n \in 1 .. g.stack[u] :
                           CanBet(g, u, n) <=> \/ b.bet > 0 /\ n >= b.bet
                                               \/ b.raise > 0 /\ n >= b.raise
                      /\ b.fold <=> CanFold(g, u)
    BY Zenon DEF OffersMatchRules
  <2>1. InPlay(Seating, g, dealt)
    BY BettingIsInPlay
  <2>2. /\ MayAct(g, u) /\ u \in Playable(g) /\ g.stack[u] \in Nat /\ g.stack[u] > 0
        /\ g.roundBet \in Nat /\ g.roundContrib[u] \in Nat /\ g.roundContrib[u] <= g.roundBet
    BY <2>1, TurnFacts
  <2>3. \A d : AllowedByInput(i, d) <=> Accepts(g, u, d)
    BY <2>1, AcceptedAsAllowed
  <2> DEFINE live == Betting(g) /\ u = At(g, g.turn) /\ u \notin g.folded \cup {}
  <2>4. live
    BY <2>2 DEF OnTurn, Playable, Active
  <2>5. /\ b.check = (live /\ diff = 0)
        /\ b.call = (live /\ diff > 0 /\ g.stack[u] >= diff)
        /\ b.bet = IF live /\ g.roundBet = 0 /\ g.stack[u] >= OpenBetMin THEN OpenBetMin ELSE 0
        /\ b.raise = IF live /\ g.roundBet > 0 /\ g.stack[u] >= diff + BetMin THEN diff + BetMin ELSE 0
        /\ b.fold = live
    BY DEF Buttons
  <2> HIDE DEF live
  <2>6. b.check <=> CanCheck(g, u)
    <3>1. b.check <=> diff = 0
      BY <2>4, <2>5, Zenon
    <3>2. diff = 0 <=> g.roundBet = g.roundContrib[u]
      BY <2>2
    <3> QED BY <2>2, <3>1, <3>2, Zenon DEF CanCheck
  <2>7. b.call <=> CanCall(g, u) /\ g.stack[u] >= diff
    <3>1. b.call <=> diff > 0 /\ g.stack[u] >= diff
      BY <2>4, <2>5, Zenon
    <3>2. diff > 0 <=> g.roundBet > g.roundContrib[u]
      BY <2>2
    <3> QED BY <2>2, <3>1, <3>2, Zenon DEF CanCall
  <2>8. b.fold <=> CanFold(g, u)
    BY <2>2, <2>4, <2>5, Zenon DEF CanFold
  <2>9. ASSUME NEW n \in 1 .. g.stack[u]
        PROVE  CanBet(g, u, n) <=> \/ b.bet > 0 /\ n >= b.bet
                                   \/ b.raise > 0 /\ n >= b.raise
    <3>1. OpenBetMin \in Nat \ {0} /\ BetMin \in Nat \ {0} /\ diff \in Nat
      BY <2>2, BlindsAssumption
    <3>2. CanBet(g, u, n) <=>
            n >= IF g.roundBet = 0 THEN OpenBetMin ELSE diff + BetMin
      BY <2>2, <3>1 DEF CanBet, LeastBet
    <3>3. /\ b.bet = IF g.roundBet = 0 /\ g.stack[u] >= OpenBetMin THEN OpenBetMin ELSE 0
          /\ b.raise = IF g.roundBet > 0 /\ g.stack[u] >= diff + BetMin THEN diff + BetMin ELSE 0
      BY <2>4, <2>5, Zenon
    <3> QED BY <2>2, <3>1, <3>2, <3>3
  <2> QED BY <2>3, <2>6, <2>7, <2>8, <2>9
<1> QED BY <1>1, HandInvariant, PTL

\* A hand that ends shows the cards of those who compared them, and no others.
LEMMA ShownAtEnd ==
  ASSUME NEW k, NEW d, Ended(Seating, k, d), NEW p \in Player, k.reveal[p] # 0
  PROVE  k.reason = "showdown" /\ p \notin k.folded
<1>1. CASE \E h, s : Divisible(Seating, h, d) /\ (\A q \in Player : s[q] \in Nat) /\ k = Showdown(h, s)
  <2>1. PICK h, s : Divisible(Seating, h, d) /\ (\A q \in Player : s[q] \in Nat) /\ k = Showdown(h, s)
    BY <1>1, TableSeated
  <2> QED BY <2>1, TableSeated, ShowdownOver DEF Divisible
<1>2. CASE \E h : Stakes(Seating, h, d) /\ (\E w : Active(h) = {w}) /\ k = LastStanding(h)
  <2>1. PICK h, w : Stakes(Seating, h, d) /\ Active(h) = {w} /\ k = LastStanding(h)
    BY <1>2
  <2>2. Shape(Seating, h) /\ Active(h) # {}
    BY <2>1 DEF Stakes
  <2>3. k.reveal[p] = 0
    BY <2>1, <2>2, TableSeated, LastStandingOver
  <2> QED BY <2>3
<1> QED BY <1>1, <1>2, TableSeated DEF Ended

\* visibleHoleCards and setDefaultReveal: play shows a player's cards to others
\* only at a showdown the player did not fold out of, and afterwards only that
\* player's own choice does.
THEOREM CardsAlwaysStayHidden == Spec => CardsStayHidden
<1> DEFINE Hidden ==
      \A viewer \in Viewer, p \in Player :
        viewer # p /\ CardsShown(g', viewer, p) # CardsShown(g, viewer, p) =>
          \/ Betting(g) /\ g'.reason = "showdown" /\ p \notin g'.folded
          \/ ~Betting(g) /\ g'.stack = g.stack /\ \A q \in Player \ {p} : g'.reveal[q] = g.reveal[q]
<1>1. Inv /\ [Next]_vars => [Hidden]_vars
  <2> SUFFICES ASSUME Inv, Next, NEW viewer \in Viewer, NEW p \in Player, viewer # p,
                      CardsShown(g', viewer, p) # CardsShown(g, viewer, p)
               PROVE  \/ Betting(g) /\ g'.reason = "showdown" /\ p \notin g'.folded
                      \/ /\ ~Betting(g) /\ g'.stack = g.stack
                         /\ \A q \in Player \ {p} : g'.reveal[q] = g.reveal[q]
    BY Zenon
  <2>1. CASE \E u \in Player : Act(u)
    <3>1. PICK u \in Player : Act(u)
      BY <2>1
    <3>2. Betting(g) /\ \E c : Goes(Seating, c, u, g', dealt)
      BY <3>1, ActLemma
    <3>3. CardsShown(g, viewer, p) = {}
      BY <3>2 DEF CardsShown, Betting, Streets
    <3>4. CASE Ended(Seating, g', dealt)
      <4>1. g'.reveal[p] # 0
        <5>1. SUFFICES ASSUME g'.reveal[p] = 0 PROVE FALSE
          OBVIOUS
        <5>2. \A j \in {1, 2} : (0 \div j) % 2 = 0
          OBVIOUS
        <5>3. {j \in {1, 2} : (g'.reveal[p] \div j) % 2 = 1} = {}
          BY <5>1, <5>2
        <5>4. CardsShown(g', viewer, p) = {}
          BY <5>3, Zenon DEF CardsShown
        <5> QED BY <3>3, <5>4
      <4> QED BY <3>2, <3>4, <4>1, ShownAtEnd
    <3>5. CASE ~Ended(Seating, g', dealt)
      <4>1. g'.stage \in Streets \/ g'.stage = "panic"
        BY <3>2, <3>5, TableSeated DEF Goes, InPlay, Stakes, Shape
      <4> QED BY <3>3, <4>1 DEF CardsShown, Streets
    <3> QED BY <3>4, <3>5
  <2>2. CASE \E u \in Player : Reveal(u)
    <3>1. PICK u \in Player : Reveal(u)
      BY <2>2
    <3>2. /\ Over(Seating, g) /\ g'.stage = g.stage /\ g'.stack = g.stack
          /\ \A q \in Player \ {u} : g'.reveal[q] = g.reveal[q]
      BY <3>1, RevealLemma
    <3>3. ~Betting(g)
      BY <3>2 DEF Over, Betting, Streets
    <3>4. p = u
      BY <3>2 DEF CardsShown
    <3> QED BY <3>2, <3>3, <3>4
  <2> QED BY <2>1, <2>2 DEF Next
<1> QED BY <1>1, HandInvariant, PTL DEF Spec, CardsStayHidden
=============================================================================
