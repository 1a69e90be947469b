------------------------------ MODULE HandFacts ------------------------------
(***************************************************************************)
(* What the operators of HandEngine do to a well-formed hand of any table  *)
(* Q: the shape they preserve, the seat the turn search finds, the numbers *)
(* a stake, a new street and the settlement leave behind.  Hand and Room   *)
(* build their inductive invariants on these lemmas.                       *)
(*                                                                         *)
(* InPlay is the invariant of a hand that nobody has left since the deal:  *)
(*                                                                         *)
(*   Booked    every chip is in front of its player or in the pot          *)
(*   Bounded   nobody has staked more than the bet to match                *)
(*   Staked    somebody has staked it                                      *)
(*   Level     the earlier streets were closed on equal stakes             *)
(*   Funded    who is all-in has no chips left, and who is not has some    *)
(*   Matched   whoever has answered and can act again matches the bet      *)
(*   Asked     whoever has not answered is short of the bet, unless the    *)
(*             bet is still the one the street opened with                 *)
(*   InOrder   from the turn onwards come first the players who owe an     *)
(*             answer and then those who have answered                     *)
(*   Owed      the player whose turn it is owes an answer                  *)
(*                                                                         *)
(* InOrder is the part that is not visible in any property: it is why the  *)
(* first playable seat after the turn, which is all nextTurnSeat looks     *)
(* for, is always a seat that still owes an answer.                        *)
(***************************************************************************)
EXTENDS HandEngine, SumFacts

N(Q)      == Len(Q)
Places(Q) == 0 .. N(Q) - 1

\* A table: somebody sits there, and nobody has two seats.
Seated(Q) ==
  /\ Q \in Seq(Range(Q)) /\ Q # <<>>
  /\ \A i, j \in DOMAIN Q : Q[i] = Q[j] => i = j

Fields ==
  {"players", "stage", "dealer", "bb", "turn", "pot", "roundBet", "board", "drawn",
   "stack", "contributed", "roundContrib", "won", "reveal", "strength",
   "folded", "allIn", "hasActed", "reason", "winners"}

\* The types every hand has, in play or over.
Table(Q, h) ==
  /\ DOMAIN h = Fields
  /\ h.players = Q
  /\ h.dealer \in Places(Q) /\ h.turn \in Places(Q) /\ h.bb \in Nat
  /\ h.pot \in Nat /\ h.roundBet \in Nat /\ h.board \in {0, 3, 4, 5} /\ h.drawn \in Nat
  /\ h.stack \in [Range(Q) -> Nat] /\ h.contributed \in [Range(Q) -> Nat]
  /\ h.roundContrib \in [Range(Q) -> Nat]
  /\ h.won \in [Range(Q) -> Nat] /\ h.reveal \in [Range(Q) -> 0..3] /\ h.strength \in [Range(Q) -> Nat]
  /\ h.folded \subseteq Range(Q) /\ h.allIn \subseteq Range(Q) /\ h.hasActed \subseteq Range(Q)

\* A hand in play, and a hand that is over.
Shape(Q, h) == Table(Q, h) /\ h.stage \in Streets /\ h.reason = "none" /\ h.winners = {}
Over(Q, h)  == Table(Q, h) /\ h.stage = "finished" /\ h.reason \in {"others folded", "showdown"}
                     /\ h.winners \subseteq Range(Q)

-----------------------------------------------------------------------------
(* Seats. *)

\* Q numbers the players from 0 to N(Q) - 1, each with one seat.
LEMMA SeatingFacts ==
  ASSUME NEW Q, Seated(Q)
  PROVE  /\ N(Q) \in Nat \ {0}
         /\ \A i \in Places(Q) : Q[i + 1] \in Range(Q)
         /\ \A p \in Range(Q) : \E i \in Places(Q) : Q[i + 1] = p
         /\ \A i, j \in Places(Q) : Q[i + 1] = Q[j + 1] => i = j
         /\ IsFiniteSet(Range(Q))
<1>1. Q \in Seq(Range(Q)) /\ Q # <<>>
  BY DEF Seated
<1>2. N(Q) \in Nat \ {0} /\ DOMAIN Q = 1 .. N(Q)
  BY <1>1 DEF N
<1>3. Range(Q) = {Q[i] : i \in 1 .. N(Q)}
  BY <1>2 DEF Range
<1>4. \A p \in Range(Q) : \E i \in Places(Q) : Q[i + 1] = p
  <2>1. TAKE p \in Range(Q)
  <2>2. PICK i \in 1 .. N(Q) : Q[i] = p
    BY <1>3
  <2>3. i - 1 \in Places(Q) /\ (i - 1) + 1 = i
    BY <1>2 DEF Places
  <2> QED BY <2>2, <2>3
<1>5. \A i, j \in Places(Q) : Q[i + 1] = Q[j + 1] => i = j
  <2>1. TAKE i, j \in Places(Q)
  <2>2. i + 1 \in 1 .. N(Q) /\ j + 1 \in 1 .. N(Q)
    BY <1>2 DEF Places
  <2>3. Q[i + 1] = Q[j + 1] => i + 1 = j + 1
    BY <1>2, <2>2 DEF Seated
  <2> QED BY <2>3, <1>2 DEF Places
<1>6. \A i \in Places(Q) : Q[i + 1] \in Range(Q)
  BY <1>2, <1>3 DEF Places
<1>7. IsFiniteSet(Range(Q))
  <2>1. IsFiniteSet(1 .. N(Q))
    BY <1>2, FS_Interval
  <2>2. Q \in Surjection(1 .. N(Q), Range(Q))
    BY <1>1, <1>2, <1>3 DEF Surjection
  <2> QED BY <2>1, <2>2, FS_Surjection
<1> QED BY <1>2, <1>4, <1>5, <1>6, <1>7

\* The players of a hand of the table Q, and their seats.
LEMMA SeatsOfShape ==
  ASSUME NEW Q, Seated(Q), NEW h, h.players = Q
  PROVE  /\ InHand(h) = Range(Q) /\ Len(h.players) = N(Q) /\ Seats(h) = Places(Q)
         /\ \A pos : At(h, pos) = Q[pos + 1]
         /\ Active(h) = Range(Q) \ h.folded
         /\ Playable(h) = (Range(Q) \ h.folded) \ h.allIn
  BY DEF InHand, At, Playable, Active, N, Seats, Places

\* How many seats after a the seat b comes, from 1 to N(Q).
Ahead(Q, a, b) == IF b > a THEN b - a ELSE b - a + N(Q)

\* Walking i seats on from a, modulo N(Q), reaches the seat that is i ahead of a.
LEMMA AheadFacts ==
  ASSUME NEW Q, Seated(Q), NEW a \in Places(Q), NEW b \in Places(Q), NEW i \in 1 .. N(Q)
  PROVE  /\ Ahead(Q, a, b) \in 1 .. N(Q)
         /\ (a + Ahead(Q, a, b)) % N(Q) = b
         /\ (a + i) % N(Q) \in Places(Q)
         /\ Ahead(Q, a, (a + i) % N(Q)) = i
<1>1. N(Q) \in Nat \ {0}
  BY SeatingFacts
<1>2. Ahead(Q, a, b) \in 1 .. N(Q)
  BY <1>1 DEF Places, Ahead
<1>3. \A j \in 1 .. N(Q) : (a + j) % N(Q) = IF a + j < N(Q) THEN a + j ELSE a + j - N(Q)
  <2>1. TAKE j \in 1 .. N(Q)
  <2>2. N(Q) \in Nat \ {0} /\ a + j \in 0 .. 2 * N(Q) - 1
    BY <1>1 DEF Places
  <2> QED BY <1>1, <2>2 DEF Places
<1>4. (a + Ahead(Q, a, b)) % N(Q) = b
  BY <1>1, <1>2, <1>3 DEF Places, Ahead
<1>5. (a + i) % N(Q) \in Places(Q) /\ Ahead(Q, a, (a + i) % N(Q)) = i
  BY <1>1, <1>3 DEF Places, Ahead
<1> QED BY <1>2, <1>4, <1>5

\* nextTurnSeat finds the first seat after pos whose player may act.
LEMMA TurnSearch ==
  ASSUME NEW Q, Seated(Q), NEW h, h.players = Q, NEW pos \in Places(Q)
  PROVE  LET m == NextTurnSeat(h, pos) IN
         /\ m \in Places(Q)
         /\ Playable(h) # {} => Q[m + 1] \in Playable(h)
         /\ \A b \in Places(Q) : Q[b + 1] \in Playable(h) => Ahead(Q, pos, m) <= Ahead(Q, pos, b)
<1> DEFINE Hops == {i \in 1 .. N(Q) : Q[((pos + i) % N(Q)) + 1] \in Playable(h)}
           m    == NextTurnSeat(h, pos)
<1>1. N(Q) \in Nat \ {0}
  BY SeatingFacts
<1>2. m = IF Hops = {} THEN pos ELSE (pos + Min(Hops)) % N(Q)
  BY DEF NextTurnSeat, At, N
<1>3. \A b \in Places(Q) : Q[b + 1] \in Playable(h) => Ahead(Q, pos, b) \in Hops
  <2>1. TAKE b \in Places(Q)
  <2>2. 1 \in 1 .. N(Q)
    BY <1>1
  <2>3. Ahead(Q, pos, b) \in 1 .. N(Q) /\ (pos + Ahead(Q, pos, b)) % N(Q) = b
    BY <2>2, AheadFacts
  <2> QED BY <2>3
<1>4. CASE Hops = {}
  <2>1. m = pos
    BY <1>2, <1>4
  <2>2. \A b \in Places(Q) : Q[b + 1] \notin Playable(h)
    BY <1>3, <1>4
  <2>3. Playable(h) = {}
    BY <2>2, SeatingFacts DEF Playable, Active, InHand
  <2> QED BY <2>1, <2>2, <2>3
<1>5. CASE Hops # {}
  <2>1. Min(Hops) \in Hops /\ \A i \in Hops : Min(Hops) <= i
    <3>1. Hops \in SUBSET Nat
      OBVIOUS
    <3> HIDE DEF Hops
    <3> QED BY <3>1, <1>5, MinOfNaturals
  <2>2. m = (pos + Min(Hops)) % N(Q) /\ Min(Hops) \in 1 .. N(Q)
    BY <1>2, <1>5, <2>1
  <2>3. m \in Places(Q) /\ Ahead(Q, pos, m) = Min(Hops)
    <3> HIDE DEF Hops, m
    <3> QED BY <2>2, AheadFacts
  <2>4. Q[m + 1] \in Playable(h)
    BY <2>1, <2>2
  <2> QED BY <1>3, <2>1, <2>3, <2>4
<1> QED BY <1>4, <1>5

-----------------------------------------------------------------------------
(* Stakes and streets. *)

\* What a stake changes, field by field.
LEMMA CommitEffect ==
  ASSUME NEW Q, Seated(Q), NEW h, Shape(Q, h), NEW u \in Range(Q), NEW n \in 0 .. h.stack[u],
         NEW k, k = Commit(h, u, n)
  PROVE
    /\ Shape(Q, k)
    /\ k.turn = h.turn /\ k.bb = h.bb
    /\ k.pot = h.pot + n /\ k.drawn = h.drawn
    /\ k.stage = h.stage /\ k.roundBet = h.roundBet /\ k.board = h.board
    /\ k.folded = h.folded /\ k.hasActed = h.hasActed
    /\ k.stack[u] = h.stack[u] - n /\ k.contributed[u] = h.contributed[u] + n
    /\ k.roundContrib[u] = h.roundContrib[u] + n
    /\ \A p \in Range(Q) \ {u} : k.stack[p] = h.stack[p] /\ k.contributed[p] = h.contributed[p]
                               /\ k.roundContrib[p] = h.roundContrib[p]
    /\ h.stack[u] = n => k.allIn = h.allIn \cup {u}
    /\ h.stack[u] # n => k.allIn = h.allIn
<1>1. DOMAIN k = Fields
  BY Zenon DEF Commit, Shape, Table
<1> QED BY <1>1 DEF Commit, Shape, Table, Fields

\* What the start of a new street changes, field by field.
LEMMA ResetRoundEffect ==
  ASSUME NEW Q, Seated(Q), NEW h, Shape(Q, h)
  PROVE  LET k == ResetRound(h) IN
    /\ Shape(Q, k)
    /\ k.stage = h.stage /\ k.turn = h.turn /\ k.bb = h.bb /\ k.dealer = h.dealer
    /\ k.stack = h.stack /\ k.contributed = h.contributed
    /\ k.folded = h.folded /\ k.allIn = h.allIn /\ k.drawn = h.drawn
    /\ k.pot = h.pot /\ k.board = h.board /\ k.roundBet = 0
    /\ k.roundContrib = [p \in Range(Q) |-> 0]
    /\ k.hasActed = h.hasActed \ Playable(h)
<1> DEFINE k == ResetRound(h)
<1>1. DOMAIN k = Fields
  BY Zenon DEF ResetRound, Shape, Table
<1>2. k.roundContrib = [p \in Range(Q) |-> 0]
  BY SeatsOfShape DEF ResetRound, Shape, Table, Fields
<1> QED BY <1>1, <1>2 DEF ResetRound, Shape, Table, Fields

\* A street opens with a player who may act, if there is one.
LEMMA OpeningSeatPlayable ==
  ASSUME NEW Q, Seated(Q), NEW h, Shape(Q, h), ~BlindSeatLost(h)
  PROVE  /\ OpeningSeat(h) \in Places(Q)
         /\ Playable(h) # {} => Q[OpeningSeat(h) + 1] \in Playable(h)
<1> DEFINE first == IF N(Q) = 2 THEN h.bb ELSE NextTurnSeat(h, h.dealer)
<1>0. /\ h.players = Q /\ h.dealer \in Places(Q) /\ h.bb \in Nat
      /\ N(Q) = 2 => ~(h.bb >= 2)
  BY DEF Shape, Table, BlindSeatLost, N
<1>1. first \in Places(Q)
  <2>1. N(Q) = 2 => h.bb \in Places(Q)
    BY <1>0 DEF Places
  <2> QED BY <1>0, <2>1, TurnSearch
<1>2. /\ NextTurnSeat(h, first) \in Places(Q)
      /\ Playable(h) # {} => Q[NextTurnSeat(h, first) + 1] \in Playable(h)
  <2> HIDE DEF first
  <2> QED BY ONLY Seated(Q), <1>0, <1>1, TurnSearch
<1>3. OpeningSeat(h) = IF Q[first + 1] \in Playable(h) THEN first ELSE NextTurnSeat(h, first)
  BY <1>0, SeatsOfShape DEF OpeningSeat
<1> QED BY <1>1, <1>2, <1>3


-----------------------------------------------------------------------------
(* The settlement. *)

\* The reveal masks at the end of a hand are masks.
LEMMA RevealType ==
  ASSUME NEW Q, Seated(Q), NEW h, Table(Q, h), NEW hidden
  PROVE  DefaultReveal(h, hidden) \in [Range(Q) -> 0..3]
BY DEF DefaultReveal, Table

\* One player takes the pot.
TakesPot(Q, h, k) ==
  \E w \in Range(Q) : /\ k.stack[w] = h.stack[w] + h.pot
                      /\ \A p \in Range(Q) \ {w} : k.stack[p] = h.stack[p]

\* finishByLastStanding ends the hand, gives one player the pot and shows no
\* card.
LEMMA LastStandingOver ==
  ASSUME NEW Q, Seated(Q), NEW h, Shape(Q, h), Active(h) # {}
  PROVE  LET k == LastStanding(h) IN
         /\ Over(Q, k) /\ k.folded = h.folded /\ k.allIn = h.allIn /\ k.bb = h.bb
         /\ k.reason = "others folded"
         /\ \A p \in Range(Q) : k.stack[p] >= h.stack[p]
         /\ TakesPot(Q, h, k)
         /\ \A w : Active(h) = {w} => \A p \in Range(Q) : k.reveal[p] = 0
<1> DEFINE k        == LastStanding(h)
           Standing == {pos \in Seats(h) : At(h, pos) \in Active(h)}
           winner   == At(h, Min(Standing))
           shown    == DefaultReveal(h, {winner})
<1>1. Table(Q, h) /\ h.players = Q
  BY DEF Shape, Table
<1>2. /\ Seats(h) = Places(Q) /\ Active(h) \subseteq Range(Q)
      /\ \A pos : At(h, pos) = Q[pos + 1]
  BY <1>1, SeatsOfShape
<1>3. Standing \in SUBSET Nat /\ Standing # {}
  <2>1. PICK p \in Range(Q) : p \in Active(h)
    BY <1>2
  <2>2. PICK pos \in Places(Q) : Q[pos + 1] = p
    BY SeatingFacts
  <2> QED BY <1>2, <2>1, <2>2 DEF Places
<1>4. winner \in Range(Q)
  <2>1. Min(Standing) \in Standing
    <3> HIDE DEF Standing
    <3> QED BY <1>3, MinOfNaturals
  <2> QED BY <1>2, <2>1
<1>5. k = [h EXCEPT !.stack[winner] = @ + h.pot, !.won[winner] = h.pot,
                    !.stage = "finished", !.reason = "others folded",
                    !.winners = {winner}, !.reveal = shown]
  BY <1>3 DEF LastStanding
<1>6. shown \in [Range(Q) -> 0..3]
  BY <1>1, RevealType
<1>10. ASSUME NEW w, Active(h) = {w}, NEW p \in Range(Q) PROVE shown[p] = 0
  <2>1. winner \in Active(h)
    <3>1. Min(Standing) \in Standing
      <4> HIDE DEF Standing
      <4> QED BY <1>3, MinOfNaturals
    <3> QED BY <3>1
  <2>2. winner = w /\ InHand(h) = Range(Q) /\ Active(h) = Range(Q) \ h.folded
    BY <1>1, <1>10, <2>1, SeatsOfShape
  <2>3. p \in h.folded \cup {winner} /\ p \in DOMAIN h.reveal
    BY <1>1, <1>10, <2>2 DEF Table
  <2> HIDE DEF winner
  <2> QED BY <2>2, <2>3 DEF DefaultReveal
<1> HIDE DEF winner, Standing, k, shown
<1>7. DOMAIN k = Fields
  BY <1>1, <1>5, Zenon DEF Table
<1>8. Over(Q, k) /\ k.folded = h.folded /\ k.allIn = h.allIn /\ k.bb = h.bb
  BY <1>1, <1>4, <1>5, <1>6, <1>7 DEF Over, Table, Fields
<1>9. \A p \in Range(Q) : k.stack[p] >= h.stack[p]
  BY <1>1, <1>4, <1>5 DEF Table, Fields
<1>11. k.reveal = shown /\ k.reason = "others folded"
  BY <1>1, <1>5 DEF Table, Fields
<1>12. TakesPot(Q, h, k)
  <2>1. /\ k.stack[winner] = h.stack[winner] + h.pot
        /\ \A p \in Range(Q) \ {winner} : k.stack[p] = h.stack[p]
    BY <1>1, <1>4, <1>5 DEF Table, Fields
  <2> QED BY <1>4, <2>1 DEF TakesPot
<1> QED BY <1>4, <1>8, <1>9, <1>10, <1>11, <1>12 DEF k

\* Two players are left: the hand is contested.
Contested(h) == \E p, q \in Active(h) : p # q

\* In a contested hand some stake is called, so that the called level is a
\* number of chips.
LEMMA CalledLevelType ==
  ASSUME NEW Q, Seated(Q), NEW h, Table(Q, h), Contested(h)
  PROVE  CalledLevel(h, Active(h)) \in Nat
<1> DEFINE S == Active(h)
           low(p, q) == Min({h.contributed[p], h.contributed[q]})
           Row(p) == {low(p, q) : q \in S \ {p}}
           M == UNION {Row(p) : p \in S}
           b == SumFunctionOnSet(h.contributed, Range(Q))
<1>1. S \subseteq Range(Q) /\ IsFiniteSet(Range(Q))
  BY SeatsOfShape, SeatingFacts DEF Table
<1>2. \A p \in Range(Q) : h.contributed[p] \in Nat
  BY DEF Table
<1>3. b \in Nat /\ \A p \in Range(Q) : h.contributed[p] <= b
  BY <1>1, <1>2, SumType, SumBounds
<1> HIDE DEF b
<1>4. \A p, q \in S : low(p, q) \in 0 .. b
  BY <1>1, <1>2, <1>3, MinOfPair
<1>5. CalledLevel(h, S) = Max(M)
  BY DEF CalledLevel
<1>6. PICK p, q \in S : p # q
  BY DEF Contested
<1> HIDE DEF S, low
<1>7. \A r \in S : Row(r) \in SUBSET (0 .. b)
  BY <1>4
<1>8. low(p, q) \in Row(p)
  BY <1>6
<1> HIDE DEF Row
<1>9. M \in SUBSET (0 .. b) /\ M # {}
  BY <1>6, <1>7, <1>8
<1> HIDE DEF M
<1>10. Max(M) \in M
  BY <1>3, <1>9, MaxOfNaturals
<1>11. Max(M) \in 0 .. b
  BY <1>9, <1>10
<1>12. Max(M) \in Nat
  BY <1>3, <1>11
<1> QED BY <1>5, <1>12, Zenon DEF S

\* refundUnmatchedChips returns what a player staked above the called level,
\* and takes it out of the pot.
LEMMA RefundEffect ==
  ASSUME NEW Q, Seated(Q), NEW h, Table(Q, h), Contested(h),
         SumFunctionOnSet(h.contributed, Range(Q)) <= h.pot
  PROVE  LET k == Refund(h) IN
         /\ Table(Q, k) /\ k.folded = h.folded /\ k.allIn = h.allIn /\ k.bb = h.bb
         /\ k.stage = h.stage
         /\ k.pot - SumFunctionOnSet(k.contributed, Range(Q))
              = h.pot - SumFunctionOnSet(h.contributed, Range(Q))
         /\ k.strength = h.strength
         /\ \A p \in Range(Q) : k.stack[p] >= h.stack[p]
         /\ \A p \in Range(Q) : k.stack[p] + k.contributed[p] = h.stack[p] + h.contributed[p]
         /\ \A p \in Range(Q) :
              k.contributed[p] =
                IF p \in Active(h) /\ h.contributed[p] > CalledLevel(h, Active(h))
                THEN CalledLevel(h, Active(h)) ELSE h.contributed[p]
<1> DEFINE k       == Refund(h)
           called  == CalledLevel(h, Active(h))
           over(p) == IF p \in Active(h) /\ h.contributed[p] > called
                      THEN h.contributed[p] - called ELSE 0
           back    == [p \in Range(Q) |-> over(p)]
           left    == [p \in Range(Q) |-> h.contributed[p] - over(p)]
           rich    == [p \in Range(Q) |-> h.stack[p] + over(p)]
<1>1. /\ InHand(h) = Range(Q) /\ IsFiniteSet(Range(Q)) /\ called \in Nat
      /\ DOMAIN h.stack = Range(Q) /\ DOMAIN h.contributed = Range(Q)
      /\ \A p \in Range(Q) : h.contributed[p] \in Nat /\ h.stack[p] \in Nat
  BY SeatsOfShape, SeatingFacts, CalledLevelType DEF Table
<1>2. k = [h EXCEPT !.contributed = left, !.stack = rich,
                    !.pot = h.pot - SumFunctionOnSet(back, Range(Q))]
  BY <1>1, Zenon DEF Refund
<1> HIDE DEF called
<1>3. \A p \in Range(Q) :
        /\ over(p) \in Nat /\ over(p) <= h.contributed[p]
        /\ h.contributed[p] - over(p)
             = IF p \in Active(h) /\ h.contributed[p] > called THEN called ELSE h.contributed[p]
  BY <1>1
<1> HIDE DEF over
<1>4. /\ left \in [Range(Q) -> Nat] /\ rich \in [Range(Q) -> Nat]
      /\ \A p \in Range(Q) : rich[p] >= h.stack[p]
      /\ \A p \in Range(Q) : rich[p] + left[p] = h.stack[p] + h.contributed[p]
      /\ \A p \in Range(Q) :
           left[p] = IF p \in Active(h) /\ h.contributed[p] > called THEN called ELSE h.contributed[p]
      /\ \A p \in Range(Q) : back[p] \in Int /\ left[p] \in Int /\ h.contributed[p] = left[p] + back[p]
  BY <1>1, <1>3
<1> HIDE DEF left, rich, back
<1>5. SumFunctionOnSet(h.contributed, Range(Q))
      = SumFunctionOnSet(left, Range(Q)) + SumFunctionOnSet(back, Range(Q))
  BY <1>1, <1>4, SumAdd
<1>6. SumFunctionOnSet(left, Range(Q)) \in Nat /\ SumFunctionOnSet(back, Range(Q)) \in Int
  BY <1>1, <1>4, SumType
<1> DEFINE pot == h.pot - SumFunctionOnSet(back, Range(Q))
<1>7. /\ pot \in Nat
      /\ pot - SumFunctionOnSet(left, Range(Q)) = h.pot - SumFunctionOnSet(h.contributed, Range(Q))
  <2>1. h.pot \in Nat
    BY DEF Table
  <2> QED BY <1>5, <1>6, <2>1
<1> HIDE DEF pot
<1> HIDE DEF k
<1>8. DOMAIN k = Fields
  BY <1>2, Zenon DEF Table
<1>9. /\ k.contributed = left /\ k.stack = rich /\ k.pot = pot
      /\ k.folded = h.folded /\ k.allIn = h.allIn /\ k.stage = h.stage /\ k.bb = h.bb
      /\ k.strength = h.strength
  BY <1>2 DEF Table, Fields, pot
<1>10. Table(Q, k)
  BY <1>2, <1>4, <1>7, <1>8, <1>9 DEF Table, Fields
<1> QED BY <1>4, <1>7, <1>9, <1>10 DEF k, called

\* A layer of the pot is a number of chips: it ends no lower than it begins.
LEMMA PotPartType ==
  ASSUME NEW Q, Seated(Q), NEW h, Table(Q, h), NEW level \in Levels(h)
  PROVE  PotPart(h, level) \in Nat
<1> DEFINE c        == h.contributed
           below    == {l \in Levels(h) : l < level}
           prev     == Max({0} \cup below)
           layer(p) == Min({c[p], level}) - Min({c[p], prev})
           part     == [p \in Range(Q) |-> layer(p)]
<1>1. Active(h) \subseteq Range(Q) /\ InHand(h) = Range(Q) /\ IsFiniteSet(Range(Q))
  BY SeatsOfShape, SeatingFacts DEF Table
<1>2. \A p \in Range(Q) : c[p] \in Nat
  BY DEF Table
<1>3. level \in Nat /\ Levels(h) \subseteq Nat
  BY <1>1, <1>2 DEF Levels
<1> HIDE DEF c
<1>4. {0} \cup below \in SUBSET (0 .. level)
  BY <1>3
<1>5. prev \in 0 .. level
  <2> HIDE DEF below
  <2> QED BY <1>3, <1>4, MaxOfNaturals
<1> HIDE DEF prev
<1>6. \A p \in Range(Q) : layer(p) \in Nat
  <2>1. TAKE p \in Range(Q)
  <2>2. /\ Min({c[p], level}) = IF c[p] <= level THEN c[p] ELSE level
        /\ Min({c[p], prev}) = IF c[p] <= prev THEN c[p] ELSE prev
    BY <1>2, <1>3, <1>5, MinOfPair
  <2> QED BY <1>2, <1>3, <1>5, <2>2
<1>7. PotPart(h, level) = SumFunctionOnSet(part, Range(Q))
  BY <1>1 DEF PotPart, prev, c
<1>8. \A p \in Range(Q) : part[p] \in Nat
  BY <1>6
<1> HIDE DEF part
<1> QED BY <1>1, <1>7, <1>8, SumType

\* What a player receives of one layer is a number of chips: no layer is
\* divided among nobody.
LEMMA ShareType ==
  ASSUME NEW Q, Seated(Q), NEW h, Table(Q, h), NEW level \in Levels(h), NEW p \in Range(Q)
  PROVE  Share(h, p, level) \in Nat
<1> DEFINE Best  == BestPlayers(h, level)
           part  == PotPart(h, level)
           ahead == {q \in Best : SeatOf(h, q) < SeatOf(h, p)}
<1>1. part \in Nat
  BY PotPartType
<1>2. Best \subseteq Range(Q) /\ IsFiniteSet(Range(Q))
  BY SeatsOfShape, SeatingFacts DEF BestPlayers, Table
<1>3. IsFiniteSet(Best) /\ IsFiniteSet(ahead)
  BY <1>2, FS_Subset
<1>4. Cardinality(Best) \in Nat /\ Cardinality(ahead) \in Nat
  BY <1>3, FS_CardinalityType
<1>5. p \in Best => Cardinality(Best) # 0
  BY <1>3, FS_EmptySet
<1>6. Share(h, p, level) =
        IF p \notin Best THEN 0
        ELSE part \div Cardinality(Best)
             + (IF Cardinality(ahead) < part % Cardinality(Best) THEN 1 ELSE 0)
  BY DEF Share
<1> HIDE DEF Best, part, ahead
<1>7. CASE p \notin Best
  BY <1>6, <1>7
<1>8. CASE p \in Best
  <2>1. Cardinality(Best) \in Nat \ {0}
    BY <1>4, <1>5, <1>8
  <2>2. part \div Cardinality(Best) \in Nat
    BY <1>1, <2>1
  <2> QED BY <1>6, <1>8, <2>2
<1> QED BY <1>7, <1>8

\* What a player receives of the whole pot is a number of chips.
LEMMA PayoutType ==
  ASSUME NEW Q, Seated(Q), NEW h, Table(Q, h), NEW p \in Range(Q)
  PROVE  Payout(h, p) \in Nat
<1> DEFINE b   == SumFunctionOnSet(h.contributed, Range(Q))
           won == [l \in Levels(h) |-> Share(h, p, l)]
<1>1. Active(h) \subseteq Range(Q) /\ IsFiniteSet(Range(Q)) /\ \A q \in Range(Q) : h.contributed[q] \in Nat
  BY SeatsOfShape, SeatingFacts DEF Table
<1>2. b \in Nat /\ \A q \in Range(Q) : h.contributed[q] <= b
  BY <1>1, SumType, SumBounds
<1> HIDE DEF b
<1>3. Levels(h) \subseteq 0 .. b
  BY <1>1, <1>2 DEF Levels
<1>4. IsFiniteSet(Levels(h))
  <2>1. IsFiniteSet(0 .. b)
    BY <1>2, FS_Interval
  <2> QED BY <1>3, <2>1, FS_Subset
<1>5. \A l \in Levels(h) : won[l] \in Nat
  BY ShareType
<1>6. Payout(h, p) = SumFunctionOnSet(won, Levels(h))
  BY DEF Payout
<1> HIDE DEF won
<1> QED BY <1>4, <1>5, <1>6, SumType

\* k is what finishShowdown makes of e, a hand of which the cards are ranked:
\* the refund is returned, and every layer of what is left is shared.
PaidOut(Q, e, k) ==
  LET r == Refund(e) IN
  /\ k.contributed = r.contributed /\ k.strength = r.strength /\ k.pot = r.pot
  /\ \A p \in Range(Q) : k.won[p] = Payout(r, p) /\ k.stack[p] = r.stack[p] + Payout(r, p)

\* finishShowdown ends the hand, takes nobody's chips, shows the cards of
\* those who did not fold, and divides the pot.
LEMMA ShowdownOver ==
  ASSUME NEW Q, Seated(Q), NEW h, Table(Q, h), Contested(h),
         SumFunctionOnSet(h.contributed, Range(Q)) <= h.pot,
         NEW s, \A p \in Range(Q) : s[p] \in Nat
  PROVE  LET k == Showdown(h, s) IN
         /\ Over(Q, k) /\ k.reason = "showdown" /\ k.folded = h.folded /\ k.allIn = h.allIn
         /\ k.bb = h.bb
         /\ \A p \in Range(Q) : k.stack[p] >= h.stack[p]
         /\ \A p \in Range(Q) : k.reveal[p] # 0 => p \notin h.folded
         /\ \E e : /\ Table(Q, e) /\ e.folded = h.folded /\ e.pot = h.pot
                   /\ e.stack = h.stack /\ e.contributed = h.contributed
                   /\ PaidOut(Q, e, k)
<1> DEFINE order  == [p \in DOMAIN h.strength |-> IF p \in Active(h) THEN s[p] ELSE 0]
           ranked == [h EXCEPT !.strength = order]
           r      == Refund(ranked)
           wins   == [p \in DOMAIN h.won |-> IF p \in InHand(h) THEN Payout(r, p) ELSE h.won[p]]
           paid   == [p \in DOMAIN r.stack |-> IF p \in InHand(h) THEN r.stack[p] + wins[p] ELSE r.stack[p]]
           best   == {p \in InHand(h) : wins[p] > 0}
           shown  == DefaultReveal(h, {})
           k      == [r EXCEPT !.won = wins, !.stack = paid, !.stage = "finished",
                               !.reason = "showdown", !.winners = best, !.reveal = shown]
<1>1. InHand(h) = Range(Q)
  BY SeatsOfShape DEF Table
<1>2. order \in [Range(Q) -> Nat]
  BY DEF Table
<1> HIDE DEF order
<1>3. DOMAIN ranked = Fields
  BY Zenon DEF Table
<1>4. /\ Table(Q, ranked) /\ ranked.contributed = h.contributed /\ ranked.pot = h.pot
      /\ ranked.folded = h.folded /\ ranked.allIn = h.allIn /\ ranked.stack = h.stack
      /\ ranked.bb = h.bb
  BY ONLY Table(Q, h), <1>2, <1>3 DEF Table, Fields
<1> HIDE DEF ranked
<1>5. Contested(ranked)
  <2>1. ranked.players = Q /\ h.players = Q /\ ranked.folded = h.folded
    BY <1>4 DEF Table
  <2>2. Active(ranked) = Range(Q) \ ranked.folded
    BY ONLY Seated(Q), <2>1, SeatsOfShape
  <2>3. Active(h) = Range(Q) \ h.folded
    BY ONLY Seated(Q), <2>1, SeatsOfShape
  <2> QED BY <2>1, <2>2, <2>3 DEF Contested
<1>6. /\ Table(Q, r) /\ r.folded = h.folded /\ r.allIn = h.allIn /\ r.bb = h.bb
      /\ \A p \in Range(Q) : r.stack[p] >= h.stack[p]
  BY <1>4, <1>5, RefundEffect
<1> HIDE DEF r
<1>7. wins \in [Range(Q) -> Nat] /\ \A p \in Range(Q) : wins[p] = Payout(r, p)
  BY <1>1, <1>6, PayoutType DEF Table
<1> HIDE DEF wins
<1>8. /\ paid \in [Range(Q) -> Nat] /\ \A p \in Range(Q) : paid[p] >= h.stack[p]
      /\ \A p \in Range(Q) : paid[p] = r.stack[p] + Payout(r, p)
  BY <1>1, <1>6, <1>7 DEF Table
<1>9. shown \in [Range(Q) -> 0..3] /\ \A p \in Range(Q) : shown[p] # 0 => p \notin h.folded
  BY <1>1, RevealType DEF DefaultReveal, Table
<1>10. best \subseteq Range(Q)
  BY <1>1
<1>11. Showdown(h, s) = k
  BY Zenon DEF Showdown, order, ranked, r, wins
<1> HIDE DEF paid, shown, best
<1>12. DOMAIN k = Fields
  BY <1>6, Zenon DEF Table
<1>13. Over(Q, k) /\ k.reason = "showdown" /\ k.folded = h.folded /\ k.allIn = h.allIn
       /\ k.reveal = shown /\ k.bb = h.bb
  BY <1>6, <1>7, <1>8, <1>9, <1>10, <1>12 DEF Over, Table, Fields
<1>14. \A p \in Range(Q) : k.stack[p] >= h.stack[p]
  BY <1>6, <1>8 DEF Table, Fields
<1>15. PaidOut(Q, ranked, k)
  <2>1. /\ k.contributed = r.contributed /\ k.strength = r.strength /\ k.pot = r.pot
        /\ k.won = wins /\ k.stack = paid
    BY <1>6 DEF Table, Fields
  <2> HIDE DEF k
  <2>2. \A p \in Range(Q) : k.won[p] = Payout(r, p) /\ k.stack[p] = r.stack[p] + Payout(r, p)
    BY <1>7, <1>8, <2>1
  <2> QED BY <2>1, <2>2, Zenon DEF PaidOut, r
<1> HIDE DEF k
<1> QED BY <1>4, <1>9, <1>11, <1>13, <1>14, <1>15

-----------------------------------------------------------------------------
(* The invariant of a hand in play. *)

BoardAt == [preflop |-> 0, flop |-> 3, turn |-> 4, river |-> 5]

Booked(Q, h, d) ==
  /\ d \in [Range(Q) -> Nat \ {0}]
  /\ \A p \in Range(Q) : h.stack[p] + h.contributed[p] = d[p]
  /\ h.pot = SumFunctionOnSet(h.contributed, Range(Q)) /\ h.pot > 0
  /\ h.board = BoardAt[h.stage] /\ h.drawn = 2 * N(Q) + h.board /\ h.bb \in Places(Q)

Bounded(Q, h) ==
  \A p \in Range(Q) : h.roundContrib[p] <= h.roundBet /\ h.roundContrib[p] <= h.contributed[p]

Staked(Q, h) ==
  \/ \E p \in Range(Q) : h.roundContrib[p] = h.roundBet
  \/ h.stage = "preflop" /\ h.roundBet = OpenBetMin /\ Q[h.bb + 1] \in h.allIn

Level(Q, h) ==
  \A p \in Playable(h), q \in Range(Q) :
    h.contributed[p] - h.roundContrib[p] >= h.contributed[q] - h.roundContrib[q]

Funded(Q, h) == \A p \in Range(Q) : p \in h.allIn <=> h.stack[p] = 0

Stakes(Q, h, d) ==
  Shape(Q, h) /\ Booked(Q, h, d) /\ Bounded(Q, h) /\ Staked(Q, h) /\ Level(Q, h) /\ Funded(Q, h)

Matched(h) == \A p \in Playable(h) \cap h.hasActed : h.roundContrib[p] = h.roundBet

OpeningBet(h) == IF h.stage = "preflop" THEN OpenBetMin ELSE 0

Asked(h) ==
  \A p \in Playable(h) \ h.hasActed :
    h.roundContrib[p] < h.roundBet \/ h.roundBet = OpeningBet(h)

\* How many seats after a the seat b comes, from 0 to N(Q) - 1.
Hop(Q, a, b) == IF b >= a THEN b - a ELSE b - a + N(Q)

InOrder(Q, h) ==
  \A a, b \in Places(Q) :
    Hop(Q, h.turn, a) < Hop(Q, h.turn, b) /\ Q[a + 1] \in Playable(h) \cap h.hasActed
      /\ Q[b + 1] \in Playable(h) => Q[b + 1] \in h.hasActed

Owed(Q, h) == Q[h.turn + 1] \in Playable(h) \ h.hasActed

InPlay(Q, h, d) ==
  Stakes(Q, h, d) /\ Contested(h) /\ Matched(h) /\ Asked(h) /\ InOrder(Q, h) /\ Owed(Q, h)

\* k differs from h at most in whose turn it is and who has answered.
Alike(Q, h, k) ==
  /\ Shape(Q, k)
  /\ k.stage = h.stage /\ k.board = h.board /\ k.drawn = h.drawn /\ k.bb = h.bb
  /\ k.pot = h.pot /\ k.roundBet = h.roundBet
  /\ k.stack = h.stack /\ k.contributed = h.contributed /\ k.roundContrib = h.roundContrib
  /\ k.folded = h.folded /\ k.allIn = h.allIn

\* Who still has to answer.
Due(h) == Playable(h) \ h.hasActed

\* What u's answer changes before the turn passes on: u puts in n chips, and
\* only a stake asks others again.
Offers(Q, h, u, k) ==
  /\ k.stage = h.stage /\ k.bb = h.bb /\ k.roundBet >= h.roundBet
  /\ h.folded \subseteq k.folded /\ h.allIn \subseteq k.allIn
  /\ \A p \in Range(Q) \ {u} : k.stack[p] = h.stack[p]
  /\ \E n \in 0 .. h.stack[u] : /\ k.stack[u] = h.stack[u] - n /\ k.pot = h.pot + n
                                /\ n = 0 => Due(k) \ {u} \subseteq Due(h)
  /\ Due(h) \ {u} \subseteq Due(k)

\* What the tail of ApplyAction changes, whichever way it goes.
Closes(Q, h, k) ==
  /\ k.stage = h.stage => k.roundBet = h.roundBet
  /\ k.folded = h.folded /\ k.allIn = h.allIn /\ k.bb = h.bb
  /\ \A p \in Range(Q) : k.stack[p] \in Nat /\ k.stack[p] >= h.stack[p]

\* The ways it may go: the turn passes on, a street opens, or the hand is
\* settled, at a showdown or because nobody else is left.
Passes(h, u, k) ==
  k.stage = h.stage /\ k.stack = h.stack /\ k.pot = h.pot /\ Due(k) = Due(h) \ {u}
Opens(h, u, k) ==
  /\ h.stage # "river" /\ k.stage = StreetAfter[h.stage]
  /\ k.stack = h.stack /\ k.pot = h.pot /\ Due(h) \subseteq {u}

Divisible(Q, h, d) ==
  /\ Table(Q, h) /\ Contested(h) /\ d \in [Range(Q) -> Nat \ {0}]
  /\ \A p \in Range(Q) : h.stack[p] + h.contributed[p] = d[p]
  /\ SumFunctionOnSet(h.contributed, Range(Q)) <= h.pot
  /\ \A p \in Active(h) : h.contributed[p] > 0

Ended(Q, k, d) ==
  /\ Over(Q, k)
  /\ \/ \E h, s : Divisible(Q, h, d) /\ (\A p \in Range(Q) : s[p] \in Nat) /\ k = Showdown(h, s)
     \/ \E h : Stakes(Q, h, d) /\ (\E w : Active(h) = {w}) /\ k = LastStanding(h)

\* NewGame puts no limit on the players, and a draw past the end of the deck
\* never returns.
DeckHolds(Q) == 2 * N(Q) + 5 <= DeckSize
Stuck(Q, k)  == k.stage = "panic" /\ ~DeckHolds(Q)

Goes(Q, h, u, k, d) ==
  \/ Stuck(Q, k)
  \/ Ended(Q, k, d)
  \/ InPlay(Q, k, d) /\ (Passes(h, u, k) \/ Opens(h, u, k))

-----------------------------------------------------------------------------
(* The next street and the end of the hand. *)

\* Active and Playable depend on the flags alone.
LEMMA PlayableOfShape ==
  ASSUME NEW Q, Seated(Q), NEW h, Shape(Q, h)
  PROVE  /\ Active(h) = Range(Q) \ h.folded
         /\ Playable(h) = (Range(Q) \ h.folded) \ h.allIn
         /\ \A pos : At(h, pos) = Q[pos + 1]
BY SeatsOfShape DEF Shape, Table

\* The stakes of a hand do not depend on the turn and the answers.
LEMMA StakesAlike ==
  ASSUME NEW Q, Seated(Q), NEW h, NEW d, NEW k, Stakes(Q, h, d), Alike(Q, h, k)
  PROVE  Stakes(Q, k, d) /\ Active(k) = Active(h) /\ Playable(k) = Playable(h)
<1>1. Shape(Q, h) /\ Shape(Q, k)
  BY DEF Stakes, Alike
<1>2. Active(k) = Active(h) /\ Playable(k) = Playable(h)
  BY <1>1, PlayableOfShape DEF Alike
<1>3. Booked(Q, k, d) /\ Bounded(Q, k) /\ Staked(Q, k) /\ Level(Q, k) /\ Funded(Q, k)
  BY <1>2 DEF Stakes, Alike, Booked, Bounded, Staked, Level, Funded
<1> QED BY <1>1, <1>2, <1>3 DEF Stakes

\* The stages and their boards.
LEMMA StreetFacts ==
  ASSUME NEW Q, Seated(Q), NEW h, NEW d, Stakes(Q, h, d)
  PROVE  /\ h.board \in 0 .. 5 /\ h.drawn \in Nat
         /\ h.drawn + (5 - h.board) \in Nat
         /\ h.drawn + (5 - h.board) > DeckSize => ~DeckHolds(Q)
         /\ h.stage = "river" => h.board = 5
         /\ h.stage # "river" =>
              LET street == StreetAfter[h.stage] IN
              /\ street \in Streets /\ street # h.stage
              /\ BoardOn[street] = BoardAt[street] /\ BoardOn[street] \in {3, 4, 5}
         /\ ~BlindSeatLost(h)
<1>1. Shape(Q, h) /\ N(Q) \in Nat /\ DeckSize \in Nat
  BY SeatingFacts, DeckAssumption DEF Stakes
<1>2. h.stage \in {"preflop", "flop", "turn", "river"} /\ h.board = BoardAt[h.stage]
      /\ h.drawn = 2 * N(Q) + h.board /\ h.bb \in Places(Q)
  BY <1>1 DEF Stakes, Shape, Streets, Booked
<1>3. h.board \in 0 .. 5
  BY <1>2 DEF BoardAt
<1>4. h.stage = "river" => h.board = 5
  BY <1>2 DEF BoardAt
<1>5. h.stage # "river" =>
        LET street == StreetAfter[h.stage] IN
        /\ street \in Streets /\ street # h.stage
        /\ BoardOn[street] = BoardAt[street] /\ BoardOn[street] \in {3, 4, 5}
  BY <1>2 DEF StreetAfter, BoardOn, BoardAt, Streets
<1>6. ~BlindSeatLost(h)
  <2>1. Len(h.players) = N(Q)
    BY <1>1, SeatsOfShape DEF Shape, Table
  <2> QED BY <1>1, <1>2, <2>1 DEF BlindSeatLost, Places
<1>7. /\ h.drawn \in Nat /\ h.drawn + (5 - h.board) \in Nat
      /\ h.drawn + (5 - h.board) > DeckSize => ~DeckHolds(Q)
  <2>1. h.drawn + (5 - h.board) = 2 * N(Q) + 5 /\ h.drawn \in Nat
    BY <1>1, <1>2, <1>3
  <2> QED BY <1>1, <2>1 DEF DeckHolds
<1> QED BY <1>3, <1>4, <1>5, <1>6, <1>7

\* When a round is complete everybody who has not folded has chips in the pot.
LEMMA AllHaveStaked ==
  ASSUME NEW Q, Seated(Q), NEW h, NEW d, Stakes(Q, h, d), RoundComplete(h), NEW p \in Active(h)
  PROVE  h.contributed[p] > 0
<1>1. /\ Shape(Q, h) /\ p \in Range(Q) /\ IsFiniteSet(Range(Q))
      /\ Playable(h) = (Range(Q) \ h.folded) \ h.allIn /\ Active(h) = Range(Q) \ h.folded
  BY PlayableOfShape, SeatingFacts DEF Stakes
<1>2. /\ \A q \in Range(Q) : /\ h.contributed[q] \in Nat /\ h.roundContrib[q] \in Nat
                           /\ h.stack[q] \in Nat
      /\ h.roundBet \in Nat
  BY <1>1 DEF Shape, Table
<1>3. CASE p \in h.allIn
  <2>1. h.stack[p] = 0 /\ h.stack[p] + h.contributed[p] = d[p] /\ d[p] \in Nat \ {0}
    BY <1>1, <1>3 DEF Stakes, Booked, Funded
  <2> QED BY <1>1, <1>2, <2>1
<1>4. CASE p \notin h.allIn
  <2>1. p \in Playable(h) /\ h.roundContrib[p] = h.roundBet /\ h.roundContrib[p] <= h.contributed[p]
    BY <1>1, <1>4 DEF RoundComplete, Stakes, Bounded
  <2>2. CASE h.roundBet > 0
    BY <1>1, <1>2, <2>1, <2>2
  <2>3. CASE h.roundBet = 0
    <3>1. PICK q \in Range(Q) : h.contributed[q] > 0
      BY <1>1, <1>2, SumNotZero DEF Stakes, Booked
    <3>2. h.roundContrib[q] <= h.roundBet /\ h.roundContrib[p] <= h.roundBet
      BY <1>1 DEF Stakes, Bounded
    <3>3. h.contributed[p] - h.roundContrib[p] >= h.contributed[q] - h.roundContrib[q]
      BY <2>1 DEF Stakes, Level
    <3> QED BY <1>1, <1>2, <2>3, <3>1, <3>2, <3>3
  <2> QED BY <1>2, <2>2, <2>3
<1> QED BY <1>3, <1>4

\* A call that never returns leaves the hand as it was, but for the stage.
LEMMA PanicEffect ==
  ASSUME NEW Q, Seated(Q), NEW h, Shape(Q, h)
  PROVE  LET k == Panic(h) IN
         /\ k.stage = "panic" /\ k.stage # h.stage
         /\ k.folded = h.folded /\ k.allIn = h.allIn /\ k.bb = h.bb /\ k.stack = h.stack
         /\ \A p \in Range(Q) : k.stack[p] \in Nat /\ k.stack[p] >= h.stack[p]
BY DEF Panic, Shape, Table, Fields, Streets

\* When nobody can act any more the missing cards are dealt and the hand is
\* decided at the showdown.
LEMMA RunOutOver ==
  ASSUME NEW Q, Seated(Q), NEW h, NEW d, Stakes(Q, h, d), Contested(h), RoundComplete(h), NEW s, \A p \in Range(Q) : s[p] \in Nat
  PROVE  (Stuck(Q, RunOut(h, s)) \/ Ended(Q, RunOut(h, s), d)) /\ Closes(Q, h, RunOut(h, s))
<1> DEFINE r == ResetRound(h)
           drawn == h.drawn + (5 - h.board)
           k == [r EXCEPT !.board = 5, !.drawn = drawn, !.turn = OpeningSeat(h)]
<1>1. Shape(Q, h) /\ h.pot = SumFunctionOnSet(h.contributed, Range(Q)) /\ h.stage \in Streets
  BY DEF Stakes, Booked, Shape
<1>2. drawn \in Nat /\ (drawn > DeckSize => ~DeckHolds(Q)) /\ ~BlindSeatLost(h)
  BY StreetFacts
<1>7. CASE drawn > DeckSize
  <2>1. RunOut(h, s) = Panic(h)
    BY <1>7, Zenon DEF RunOut
  <2>2. Stuck(Q, Panic(h)) /\ Closes(Q, h, Panic(h))
    <3> HIDE DEF drawn
    <3> QED BY <1>1, <1>2, <1>7, PanicEffect DEF Stuck, Closes
  <2> QED BY <2>1, <2>2
<1> SUFFICES ASSUME ~(drawn > DeckSize) PROVE Ended(Q, RunOut(h, s), d) /\ Closes(Q, h, RunOut(h, s))
  BY <1>7
<1>3. RunOut(h, s) = Showdown(IF h.stage = "river" THEN h ELSE k, s)
  BY <1>2, Zenon DEF RunOut
<1>6. /\ \A p \in Active(h) : h.contributed[p] > 0
      /\ d \in [Range(Q) -> Nat \ {0}]
      /\ \A p \in Range(Q) : h.stack[p] + h.contributed[p] = d[p]
  BY AllHaveStaked DEF Stakes, Booked
<1>8. SumFunctionOnSet(h.contributed, Range(Q)) <= h.pot
  BY <1>1 DEF Shape, Table
<1>4. CASE h.stage = "river"
  <2>2. Divisible(Q, h, d)
    BY <1>1, <1>6, <1>8 DEF Divisible, Shape
  <2>1. /\ Over(Q, Showdown(h, s)) /\ Showdown(h, s).folded = h.folded /\ Showdown(h, s).allIn = h.allIn
        /\ Showdown(h, s).bb = h.bb
        /\ \A p \in Range(Q) : Showdown(h, s).stack[p] >= h.stack[p]
    BY <1>1, <1>8, ShowdownOver DEF Shape
  <2> QED BY <1>1, <1>3, <1>4, <2>1, <2>2 DEF Closes, Over, Table, Streets, Ended
<1>5. CASE h.stage # "river"
  <2>1. OpeningSeat(h) \in Places(Q)
    BY <1>1, <1>2, OpeningSeatPlayable
  <2>2. /\ Shape(Q, r) /\ r.stack = h.stack /\ r.contributed = h.contributed /\ r.pot = h.pot
        /\ r.folded = h.folded /\ r.allIn = h.allIn /\ r.bb = h.bb
    BY ZenonT(40), <1>1, ResetRoundEffect
  <2> HIDE DEF r, drawn
  <2>3. DOMAIN k = Fields
    BY <2>2, Zenon DEF Shape, Table
  <2>4. /\ Table(Q, k) /\ k.stack = h.stack /\ k.contributed = h.contributed /\ k.pot = h.pot
        /\ k.folded = h.folded /\ k.allIn = h.allIn /\ k.bb = h.bb
    BY <1>2, <2>1, <2>2, <2>3 DEF Shape, Table, Fields
  <2>10. Active(k) = Active(h)
    <3>1. k.players = Q /\ h.players = Q /\ k.folded = h.folded
      BY ONLY Seated(Q), <1>1, <2>4 DEF Shape, Table
    <3>2. Active(k) = Range(Q) \ k.folded
      BY ONLY Seated(Q), <3>1, SeatsOfShape
    <3>3. Active(h) = Range(Q) \ h.folded
      BY ONLY Seated(Q), <3>1, SeatsOfShape
    <3> QED BY ONLY Seated(Q), <3>1, <3>2, <3>3
  <2>5. Contested(k)
    BY <2>10 DEF Contested
  <2>7. Divisible(Q, k, d)
    BY <1>1, <1>6, <1>8, <2>4, <2>5, <2>10 DEF Divisible
  <2> HIDE DEF k
  <2>6. /\ Over(Q, Showdown(k, s)) /\ Showdown(k, s).folded = k.folded /\ Showdown(k, s).allIn = k.allIn
        /\ Showdown(k, s).bb = k.bb
        /\ \A p \in Range(Q) : Showdown(k, s).stack[p] >= k.stack[p]
    BY <1>8, <2>4, <2>5, ShowdownOver
  <2> QED BY <1>1, <1>3, <1>5, <2>4, <2>6, <2>7 DEF Closes, Over, Table, Streets, Ended
<1> QED BY <1>4, <1>5

\* A new street begins with level stakes and with a player who owes an answer.
LEMMA NextStreetInPlay ==
  ASSUME NEW Q, Seated(Q), NEW h, NEW d, Stakes(Q, h, d), Contested(h), RoundComplete(h), Playable(h) # {},
         h.stage # "river"
  PROVE  /\ \/ Stuck(Q, NextStreet(h))
            \/ InPlay(Q, NextStreet(h), d) /\ \A u : Opens(h, u, NextStreet(h))
         /\ Closes(Q, h, NextStreet(h))
<1> DEFINE k == NextStreet(h)
           r == ResetRound(h)
           street == StreetAfter[h.stage]
           drawn  == h.drawn + (BoardOn[street] - h.board)
<1>1. Shape(Q, h) /\ N(Q) \in Nat
  BY SeatingFacts DEF Stakes
<1>2. /\ street \in Streets /\ street # h.stage
      /\ BoardOn[street] = BoardAt[street] /\ BoardOn[street] \in {3, 4, 5}
      /\ h.board \in 0 .. 5 /\ h.drawn \in Nat /\ ~BlindSeatLost(h)
  BY StreetFacts
<1>3. drawn \in Nat /\ (drawn > DeckSize => ~DeckHolds(Q)) /\ drawn = 2 * N(Q) + BoardOn[street]
  <2>1. h.drawn = 2 * N(Q) + h.board /\ DeckSize \in Nat
    BY DeckAssumption DEF Stakes, Booked
  <2> HIDE DEF street
  <2> QED BY <1>1, <1>2, <2>1 DEF DeckHolds
<1>15. CASE drawn > DeckSize
  <2>1. k = Panic(h)
    BY <1>15, Zenon DEF NextStreet
  <2>2. Stuck(Q, Panic(h)) /\ Closes(Q, h, Panic(h))
    BY <1>1, <1>3, <1>15, PanicEffect DEF Stuck, Closes
  <2> QED BY <2>1, <2>2
<1> SUFFICES ASSUME ~(drawn > DeckSize)
             PROVE  InPlay(Q, k, d) /\ (\A u : Opens(h, u, k)) /\ Closes(Q, h, k)
  BY <1>15, Zenon
<1>4. k = [r EXCEPT !.stage = street, !.board = BoardOn[street], !.drawn = drawn,
                    !.turn = OpeningSeat(h)]
  BY <1>2, <1>3, Zenon DEF NextStreet
<1>5. OpeningSeat(h) \in Places(Q) /\ Q[OpeningSeat(h) + 1] \in Playable(h)
  BY <1>1, <1>2, OpeningSeatPlayable
<1>6. /\ Shape(Q, r) /\ r.stack = h.stack /\ r.contributed = h.contributed /\ r.pot = h.pot
      /\ r.folded = h.folded /\ r.allIn = h.allIn /\ r.bb = h.bb /\ r.roundBet = 0
      /\ r.roundContrib = [p \in Range(Q) |-> 0] /\ r.hasActed = h.hasActed \ Playable(h)
  BY <1>1, ResetRoundEffect
<1> HIDE DEF r, street, drawn
<1>7. /\ k.stage = street /\ k.board = BoardOn[street] /\ k.turn = OpeningSeat(h)
      /\ k.drawn = drawn /\ k.pot = h.pot /\ k.bb = h.bb
      /\ k.stack = h.stack /\ k.contributed = h.contributed
      /\ k.folded = h.folded /\ k.allIn = h.allIn /\ k.roundBet = 0
      /\ k.roundContrib = [p \in Range(Q) |-> 0] /\ k.hasActed = h.hasActed \ Playable(h)
      /\ Shape(Q, k)
  <2>1. DOMAIN k = Fields
    BY <1>4, <1>6, Zenon DEF Shape, Table
  <2> QED BY <1>2, <1>3, <1>4, <1>5, <1>6, <2>1 DEF Shape, Table, Fields
<1> HIDE DEF k
<1>8. Playable(k) = Playable(h) /\ Active(k) = Active(h) /\ Playable(k) \subseteq Range(Q)
  <2>1. Active(k) = Range(Q) \ k.folded /\ Playable(k) = (Range(Q) \ k.folded) \ k.allIn
    BY ONLY Seated(Q), <1>7, PlayableOfShape
  <2>2. Active(h) = Range(Q) \ h.folded /\ Playable(h) = (Range(Q) \ h.folded) \ h.allIn
    BY ONLY Seated(Q), <1>1, PlayableOfShape
  <2>3. k.folded = h.folded /\ k.allIn = h.allIn
    BY <1>7
  <2> QED BY ONLY <2>1, <2>2, <2>3
<1>9. Stakes(Q, k, d)
  <2>1. Booked(Q, k, d)
    BY <1>2, <1>3, <1>7 DEF Stakes, Booked
  <2>2. Bounded(Q, k)
    BY <1>7 DEF Bounded, Shape, Table
  <2>3. Staked(Q, k)
    <3>1. \E p : p \in Range(Q)
      BY <1>5, <1>8
    <3> QED BY <1>7, <3>1 DEF Staked
  <2>4. Level(Q, k)
    <3>1. SUFFICES ASSUME NEW p \in Playable(h), NEW q \in Range(Q)
                   PROVE  h.contributed[p] >= h.contributed[q]
      <4>1. \A q \in Range(Q) : k.contributed[q] - k.roundContrib[q] = h.contributed[q]
        BY <1>7 DEF Shape, Table
      <4> QED BY <1>8, <3>1, <4>1 DEF Level
    <3>2. h.roundContrib[p] = h.roundBet
      BY DEF RoundComplete
    <3>3. h.roundContrib[q] <= h.roundBet
      BY DEF Stakes, Bounded
    <3>4. h.contributed[p] - h.roundContrib[p] >= h.contributed[q] - h.roundContrib[q]
      BY DEF Stakes, Level
    <3>5. /\ p \in Range(Q) /\ h.contributed \in [Range(Q) -> Nat]
          /\ h.roundContrib \in [Range(Q) -> Nat] /\ h.roundBet \in Nat
      BY <1>1, <1>8 DEF Shape, Table
    <3> QED BY <3>2, <3>3, <3>4, <3>5
  <2>5. Funded(Q, k)
    BY <1>7 DEF Stakes, Funded
  <2> QED BY <1>7, <2>1, <2>2, <2>3, <2>4, <2>5 DEF Stakes
<1>10. Playable(k) \cap k.hasActed = {}
  BY <1>7, <1>8
<1>11. Contested(k) /\ Matched(k) /\ InOrder(Q, k) /\ Owed(Q, k)
  BY <1>5, <1>7, <1>8, <1>10 DEF Contested, Matched, InOrder, Owed
<1>13. Asked(k)
  <2>1. street # "preflop"
    BY <1>1 DEF Stakes, Shape, Streets, StreetAfter, street
  <2> QED BY <1>7, <2>1 DEF Asked, OpeningBet
<1>12. Closes(Q, h, k)
  BY <1>1, <1>2, <1>7 DEF Closes, Shape, Table
<1>14. \A u : Opens(h, u, k)
  BY <1>7 DEF Opens, Due, RoundComplete, street
<1> QED BY <1>9, <1>11, <1>12, <1>13, <1>14 DEF InPlay, k

\* advanceStage, called when a round is complete, ends the hand or opens the
\* next street.
LEMMA AdvanceStageInPlay ==
  ASSUME NEW Q, Seated(Q), NEW h, NEW d, Stakes(Q, h, d), Contested(h), RoundComplete(h), NEW s, \A p \in Range(Q) : s[p] \in Nat,
         NEW k, k = AdvanceStage(h, s)
  PROVE  /\ Stuck(Q, k) \/ Ended(Q, k, d) \/ (InPlay(Q, k, d) /\ \A u : Opens(h, u, k))
         /\ Closes(Q, h, k)
<1>1. CASE h.stage = "river" \/ Playable(h) = {}
  <2>1. k = RunOut(h, s)
    BY <1>1 DEF AdvanceStage
  <2> QED BY <2>1, RunOutOver
<1>2. CASE h.stage # "river" /\ Playable(h) # {}
  <2>1. k = NextStreet(h)
    BY <1>2 DEF AdvanceStage
  <2> QED BY <1>2, <2>1, NextStreetInPlay
<1> QED BY <1>1, <1>2

-----------------------------------------------------------------------------
(* The tail of ApplyAction. *)

\* u, whose turn it is, has answered the bet on the table: everything InPlay
\* says holds but for u's own seat, which does not count as answered yet.
Answered(Q, h, u, d) ==
  /\ Stakes(Q, h, d) /\ Active(h) # {}
  /\ u \in Range(Q) /\ u = Q[h.turn + 1]
  /\ \A p \in Playable(h) : p = u \/ p \in h.hasActed => h.roundContrib[p] = h.roundBet
  /\ \A p \in Playable(h) \ (h.hasActed \cup {u}) :
       h.roundContrib[p] < h.roundBet \/ h.roundBet = OpeningBet(h)
  /\ \A a, b \in Places(Q) \ {h.turn} :
       Hop(Q, h.turn, a) < Hop(Q, h.turn, b) /\ Q[a + 1] \in Playable(h) \cap h.hasActed
         /\ Q[b + 1] \in Playable(h) => Q[b + 1] \in h.hasActed

\* A hand that is not down to its last player is contested.
LEMMA ContestedUnlessOne ==
  ASSUME NEW Q, Seated(Q), NEW h, Shape(Q, h), Active(h) # {}, Cardinality(Active(h)) # 1
  PROVE  Contested(h)
<1>1. IsFiniteSet(Active(h))
  BY SeatingFacts, PlayableOfShape, FS_Subset
<1>2. PICK p : p \in Active(h)
  OBVIOUS
<1>3. Active(h) # {p}
  BY <1>1, FS_Singleton
<1> QED BY <1>2, <1>3 DEF Contested

\* The turn passes to a player who owes an answer.
LEMMA TurnPasses ==
  ASSUME NEW Q, Seated(Q), NEW h, NEW u, NEW d, Answered(Q, h, u, d), NEW r, Alike(Q, h, r), r.turn = h.turn,
         r.hasActed = h.hasActed \cup {u}, Contested(r), ~RoundComplete(r),
         NEW k, k = [r EXCEPT !.turn = NextTurnSeat(r, r.turn)]
  PROVE  InPlay(Q, k, d) /\ Alike(Q, r, k)
<1> DEFINE m == NextTurnSeat(r, r.turn)
<1>1. /\ Shape(Q, h) /\ u \in Range(Q) /\ u = Q[h.turn + 1] /\ h.turn \in Places(Q)
      /\ N(Q) \in Nat
  BY SeatingFacts DEF Answered, Stakes, Shape, Table
<1>2. Shape(Q, r) /\ Stakes(Q, r, d) /\ Playable(r) = Playable(h) /\ Playable(h) \subseteq Range(Q)
  BY <1>1, StakesAlike, PlayableOfShape DEF Alike, Answered
<1>3. Matched(r)
  BY <1>2 DEF Matched, Answered, Alike
<1>4. PICK late \in Playable(r) : late \notin r.hasActed
  BY <1>3 DEF RoundComplete, Matched
<1>5. /\ m \in Places(Q) /\ Q[m + 1] \in Playable(r)
      /\ \A b \in Places(Q) : Q[b + 1] \in Playable(r) => Ahead(Q, r.turn, m) <= Ahead(Q, r.turn, b)
  BY <1>2, <1>4, TurnSearch DEF Shape, Table
<1>6. /\ Alike(Q, r, k) /\ k.turn = m /\ k.hasActed = r.hasActed
  <2> HIDE DEF m
  <2>1. DOMAIN k = Fields
    BY <1>2, Zenon DEF Shape, Table
  <2> QED BY <1>2, <1>5, <2>1 DEF Alike, Shape, Table, Fields, m
<1> HIDE DEF m
<1>7. Stakes(Q, k, d) /\ Active(k) = Active(r) /\ Playable(k) = Playable(r)
  BY <1>2, <1>6, StakesAlike
<1>8. Matched(k) /\ Contested(k)
  BY <1>3, <1>6, <1>7 DEF Matched, Contested, Alike
<1>11. Asked(k)
  <2>1. k.hasActed = h.hasActed \cup {u} /\ Playable(k) = Playable(h)
        /\ k.roundContrib = h.roundContrib /\ k.roundBet = h.roundBet /\ k.stage = h.stage
    BY <1>2, <1>6, <1>7 DEF Alike
  <2> QED BY <2>1 DEF Asked, Answered, OpeningBet
<1>9. InOrder(Q, k)
  <2>1. SUFFICES ASSUME NEW a \in Places(Q), NEW b \in Places(Q), Hop(Q, m, a) < Hop(Q, m, b),
                        Q[a + 1] \in Playable(h) \cap r.hasActed,
                        Q[b + 1] \in Playable(h)
                 PROVE  Q[b + 1] \in r.hasActed
    BY <1>2, <1>6, <1>7 DEF InOrder
  <2>2. CASE b = h.turn
    BY <1>1, <2>2
  <2>3. CASE b # h.turn
    <3>1. Ahead(Q, h.turn, m) <= Ahead(Q, h.turn, a) /\ Ahead(Q, h.turn, m) <= Ahead(Q, h.turn, b)
      BY <1>2, <1>5, <2>1
    <3>2. a # h.turn /\ Hop(Q, h.turn, a) < Hop(Q, h.turn, b)
      BY <1>1, <1>5, <2>1, <2>3, <3>1 DEF Places, Hop, Ahead
    <3>3. Q[a + 1] # u
      BY <1>1, <3>2, SeatingFacts
    <3>4. Q[a + 1] \in Playable(h) \cap h.hasActed
      BY <2>1, <3>3
    <3> QED BY <2>1, <2>3, <3>2, <3>4 DEF Answered
  <2> QED BY <2>2, <2>3
<1>10. Owed(Q, k)
  <2>1. SUFFICES ASSUME Q[m + 1] \in r.hasActed PROVE FALSE
    BY <1>5, <1>6, <1>7 DEF Owed
  <2>2. PICK b \in Places(Q) : Q[b + 1] = late
    BY <1>2, <1>4, SeatingFacts
  <2>3. b # m
    BY <1>4, <2>1, <2>2
  <2>4. Hop(Q, m, m) < Hop(Q, m, b)
    BY <1>1, <1>5, <2>3 DEF Places, Hop
  <2> QED BY <1>4, <1>5, <1>6, <1>7, <1>9, <2>1, <2>2, <2>4 DEF InOrder
<1> QED BY <1>6, <1>7, <1>8, <1>9, <1>10, <1>11 DEF InPlay

\* Once u has answered, the tail of ApplyAction ends the hand, opens a street
\* or passes the turn, and takes nobody's chips.
LEMMA SettleInPlay ==
  ASSUME NEW Q, Seated(Q), NEW h, NEW u, NEW d, Answered(Q, h, u, d), NEW s, \A p \in Range(Q) : s[p] \in Nat,
         NEW k, k = Settle(h, u, s)
  PROVE  Goes(Q, h, u, k, d) /\ Closes(Q, h, k)
<1> DEFINE r == [h EXCEPT !.hasActed = @ \cup {u}]
<1>1. Shape(Q, h) /\ u \in Range(Q) /\ Stakes(Q, h, d) /\ Active(h) # {}
  BY DEF Answered, Stakes
<1>2. Alike(Q, h, r) /\ r.hasActed = h.hasActed \cup {u} /\ r.turn = h.turn
  <2>1. DOMAIN r = Fields
    BY <1>1, Zenon DEF Shape, Table
  <2> QED BY <1>1, <2>1 DEF Alike, Shape, Table, Fields
<1>3. k = IF Cardinality(Active(r)) = 1 THEN LastStanding(r)
          ELSE IF RoundComplete(r) THEN AdvanceStage(r, s)
          ELSE [r EXCEPT !.turn = NextTurnSeat(r, r.turn)]
  BY DEF Settle
<1> HIDE DEF r
<1>4. Shape(Q, r) /\ Stakes(Q, r, d) /\ Active(r) # {} /\ h.stage \in Streets
  BY <1>1, <1>2, StakesAlike DEF Alike, Shape
<1>8. Due(r) = Due(h) \ {u} /\ r.stage = h.stage /\ r.stack = h.stack /\ r.pot = h.pot
  BY <1>1, <1>2, StakesAlike DEF Due, Alike
<1>5. CASE Cardinality(Active(r)) = 1
  <2>3. \E w : Active(r) = {w}
    <3>1. IsFiniteSet(Active(r))
      BY <1>4, SeatingFacts, PlayableOfShape, FS_Subset
    <3> QED BY <1>5, <3>1, FS_Singleton
  <2>1. k = LastStanding(r)
    BY <1>3, <1>5
  <2>2. /\ Over(Q, k) /\ k.folded = r.folded /\ k.allIn = r.allIn /\ k.bb = r.bb
        /\ \A p \in Range(Q) : k.stack[p] >= r.stack[p]
    BY <1>4, <2>1, LastStandingOver
  <2>4. Ended(Q, k, d)
    BY <1>4, <2>1, <2>2, <2>3 DEF Ended
  <2> QED BY <1>2, <1>4, <2>2, <2>4 DEF Alike, Closes, Goes, Over, Table, Streets
<1>6. CASE Cardinality(Active(r)) # 1 /\ RoundComplete(r)
  <2>1. k = AdvanceStage(r, s)
    BY <1>3, <1>6
  <2>2. /\ Stuck(Q, k) \/ Ended(Q, k, d) \/ (InPlay(Q, k, d) /\ \A w : Opens(r, w, k))
        /\ Closes(Q, r, k)
    BY <1>4, <1>6, <2>1, ContestedUnlessOne, AdvanceStageInPlay
  <2>3. (\A w : Opens(r, w, k)) => Opens(h, u, k)
    <3>1. SUFFICES ASSUME Opens(r, u, k) PROVE Opens(h, u, k)
      OBVIOUS
    <3>2. Due(r) = {}
      BY <1>6 DEF Due, RoundComplete
    <3> QED BY <1>8, <3>1, <3>2 DEF Opens
  <2> QED BY <1>2, <2>2, <2>3 DEF Alike, Closes, Goes
<1>7. CASE Cardinality(Active(r)) # 1 /\ ~RoundComplete(r)
  <2>1. k = [r EXCEPT !.turn = NextTurnSeat(r, r.turn)]
    BY <1>3, <1>7
  <2>2. InPlay(Q, k, d) /\ Alike(Q, r, k)
    BY <1>2, <1>4, <1>7, <2>1, ContestedUnlessOne, TurnPasses
  <2>3. Passes(h, u, k)
    <3>1. k.hasActed = r.hasActed /\ Playable(k) = Playable(r)
      <4>1. k.hasActed = r.hasActed
        BY <1>4, <2>1, Zenon DEF Shape, Table, Fields
      <4> QED BY ZenonT(40), <1>4, <2>2, <4>1, PlayableOfShape DEF Alike
    <3> QED BY <1>8, <2>2, <3>1 DEF Passes, Due, Alike
  <2> QED BY <1>1, <1>2, <2>2, <2>3 DEF Alike, Closes, Goes, Shape, Table
<1> QED BY <1>5, <1>6, <1>7

-----------------------------------------------------------------------------
(* The answers. *)

\* The player MayAct admits is the one at the turn seat, with a bet to match.
LEMMA ActorFacts ==
  ASSUME NEW Q, Seated(Q), NEW h, NEW d, InPlay(Q, h, d), NEW u, MayAct(h, u)
  PROVE  /\ Shape(Q, h) /\ u \in Range(Q) /\ u \in Playable(h) /\ u = Q[h.turn + 1]
         /\ Active(h) = Range(Q) \ h.folded /\ Playable(h) = (Range(Q) \ h.folded) \ h.allIn
         /\ h.turn \in Places(Q)
         /\ h.stack[u] \in Nat /\ h.roundBet \in Nat /\ h.roundContrib[u] \in Nat
         /\ h.roundContrib[u] <= h.roundBet
<1>1. Shape(Q, h)
  BY DEF InPlay, Stakes
<1>2. /\ u \in Range(Q) /\ u \in Playable(h) /\ u = Q[h.turn + 1]
      /\ Active(h) = Range(Q) \ h.folded /\ Playable(h) = (Range(Q) \ h.folded) \ h.allIn
  BY <1>1, PlayableOfShape DEF MayAct
<1>3. h.roundContrib[u] <= h.roundBet
  BY <1>2 DEF InPlay, Stakes, Bounded
<1> QED BY <1>1, <1>2, <1>3 DEF Shape, Table

\* A check.
LEMMA PassAnswered ==
  ASSUME NEW Q, Seated(Q), NEW h, NEW d, InPlay(Q, h, d), NEW u, MayAct(h, u), h.roundContrib[u] = h.roundBet
  PROVE  Answered(Q, h, u, d)
<1>1. Active(h) # {}
  BY DEF InPlay, Contested
<1>2. /\ u \in Range(Q) /\ u = Q[h.turn + 1]
  BY ActorFacts
<1> QED BY <1>1, <1>2 DEF InPlay, Answered, Matched, Asked, InOrder

\* A fold, which leaves somebody in the hand.
LEMMA FoldAnswered ==
  ASSUME NEW Q, Seated(Q), NEW h, NEW d, InPlay(Q, h, d), NEW u, MayAct(h, u),
         NEW k, k = [h EXCEPT !.folded = @ \cup {u}]
  PROVE  Answered(Q, k, u, d) /\ Offers(Q, h, u, k)
<1>1. /\ Shape(Q, h) /\ u \in Range(Q) /\ u \in Playable(h) /\ u = Q[h.turn + 1]
      /\ Active(h) = Range(Q) \ h.folded /\ Playable(h) = (Range(Q) \ h.folded) \ h.allIn
  BY ActorFacts
<1>2. /\ Shape(Q, k) /\ k.folded = h.folded \cup {u} /\ k.hasActed = h.hasActed
      /\ k.stage = h.stage /\ k.turn = h.turn /\ k.board = h.board /\ k.bb = h.bb
      /\ k.pot = h.pot /\ k.drawn = h.drawn
      /\ k.stack = h.stack /\ k.contributed = h.contributed /\ k.roundContrib = h.roundContrib
      /\ k.roundBet = h.roundBet /\ k.allIn = h.allIn
  <2>1. DOMAIN k = Fields
    BY <1>1, Zenon DEF Shape, Table
  <2> QED BY <1>1, <2>1 DEF Shape, Table, Fields
<1>3. Playable(k) = Playable(h) \ {u} /\ Active(k) = Active(h) \ {u}
  <2>1. Active(k) = Range(Q) \ k.folded /\ Playable(k) = (Range(Q) \ k.folded) \ k.allIn
    BY <1>2, PlayableOfShape
  <2> QED BY <1>1, <1>2, <2>1
<1>4. Stakes(Q, k, d)
  <2>1. Stakes(Q, h, d)
    BY DEF InPlay
  <2>2. Booked(Q, k, d) /\ Bounded(Q, k) /\ Staked(Q, k) /\ Level(Q, k) /\ Funded(Q, k)
    BY <1>2, <1>3, <2>1 DEF Stakes, Booked, Bounded, Staked, Level, Funded
  <2> QED BY <1>2, <2>2 DEF Stakes
<1>5. Active(k) # {}
  BY <1>3 DEF InPlay, Contested
<1>6. \A p \in Playable(k) : p = u \/ p \in k.hasActed => k.roundContrib[p] = k.roundBet
  BY <1>2, <1>3 DEF InPlay, Matched
<1>9. \A p \in Playable(k) \ (k.hasActed \cup {u}) :
        k.roundContrib[p] < k.roundBet \/ k.roundBet = OpeningBet(k)
  BY <1>2, <1>3 DEF InPlay, Asked, OpeningBet
<1>7. \A a, b \in Places(Q) \ {k.turn} :
        Hop(Q, k.turn, a) < Hop(Q, k.turn, b) /\ Q[a + 1] \in Playable(k) \cap k.hasActed
          /\ Q[b + 1] \in Playable(k) => Q[b + 1] \in k.hasActed
  BY <1>2, <1>3 DEF InPlay, InOrder
<1>8. Offers(Q, h, u, k)
  <2>1. h.stack[u] \in Nat /\ h.pot \in Nat
    BY <1>1 DEF Shape, Table
  <2>2. 0 \in 0 .. h.stack[u] /\ k.stack[u] = h.stack[u] - 0 /\ k.pot = h.pot + 0
    BY <1>2, <2>1
  <2>3. Due(k) = Due(h) \ {u}
    BY <1>2, <1>3 DEF Due
  <2>4. \E n \in 0 .. h.stack[u] : /\ k.stack[u] = h.stack[u] - n /\ k.pot = h.pot + n
                                   /\ n = 0 => Due(k) \ {u} \subseteq Due(h)
    BY <2>2, <2>3, Zenon
  <2>5. k.roundBet >= h.roundBet
    BY <1>1, <1>2 DEF Shape, Table
  <2>6. h.folded \subseteq k.folded /\ h.allIn \subseteq k.allIn /\ k.stage = h.stage /\ k.bb = h.bb
    BY <1>2
  <2>7. Due(h) \ {u} \subseteq Due(k)
    BY <2>3
  <2>8. \A p \in Range(Q) \ {u} : k.stack[p] = h.stack[p]
    BY <1>2
  <2> QED BY <2>4, <2>5, <2>6, <2>7, <2>8 DEF Offers
<1> QED BY <1>1, <1>2, <1>4, <1>5, <1>6, <1>7, <1>8, <1>9 DEF Answered

\* A stake of n chips keeps the books.
LEMMA CommitBooked ==
  ASSUME NEW Q, Seated(Q), NEW h, NEW d, InPlay(Q, h, d), NEW u, MayAct(h, u), NEW n \in 0 .. h.stack[u],
         NEW c, c = Commit(h, u, n)
  PROVE  /\ Shape(Q, c) /\ Booked(Q, c, d) /\ Level(Q, c) /\ Funded(Q, c)
         /\ Playable(c) \subseteq Playable(h)
<1>1. /\ Shape(Q, h) /\ u \in Range(Q) /\ u \in Playable(h)
      /\ Playable(h) = (Range(Q) \ h.folded) \ h.allIn
  BY ActorFacts
<1>2. /\ Shape(Q, c) /\ c.stage = h.stage /\ c.board = h.board /\ c.folded = h.folded
      /\ c.bb = h.bb
      /\ c.pot = h.pot + n /\ c.drawn = h.drawn
      /\ c.stack[u] = h.stack[u] - n /\ c.contributed[u] = h.contributed[u] + n
      /\ c.roundContrib[u] = h.roundContrib[u] + n
      /\ \A p \in Range(Q) \ {u} : c.stack[p] = h.stack[p] /\ c.contributed[p] = h.contributed[p]
                                 /\ c.roundContrib[p] = h.roundContrib[p]
      /\ h.stack[u] = n => c.allIn = h.allIn \cup {u}
      /\ h.stack[u] # n => c.allIn = h.allIn
  BY <1>1, CommitEffect
<1>3. \A p \in Range(Q) : /\ h.stack[p] \in Nat /\ h.contributed[p] \in Nat
                        /\ h.roundContrib[p] \in Nat /\ n \in Nat
  BY <1>1 DEF Shape, Table
<1>4. Playable(c) \subseteq Playable(h)
  BY <1>1, <1>2, PlayableOfShape
<1>5. Booked(Q, h, d) /\ Level(Q, h) /\ Funded(Q, h)
  BY DEF InPlay, Stakes
<1>6. \A p \in Range(Q) : c.stack[p] + c.contributed[p] = d[p]
  <2>1. TAKE p \in Range(Q)
  <2>2. h.stack[p] + h.contributed[p] = d[p]
    BY <1>5 DEF Booked
  <2>3. CASE p = u
    BY <1>2, <1>3, <2>2, <2>3
  <2>4. CASE p # u
    BY <1>2, <2>2, <2>4
  <2> QED BY <2>3, <2>4
<1>7. c.pot = SumFunctionOnSet(c.contributed, Range(Q))
  <2>1. /\ IsFiniteSet(Range(Q)) /\ u \in Range(Q) /\ n \in Int
        /\ \A p \in Range(Q) : h.contributed[p] \in Int
        /\ c.contributed[u] = h.contributed[u] + n
        /\ \A p \in Range(Q) \ {u} : c.contributed[p] = h.contributed[p]
    BY <1>1, <1>2, <1>3, SeatingFacts
  <2>2. SumFunctionOnSet(c.contributed, Range(Q)) = SumFunctionOnSet(h.contributed, Range(Q)) + n
    BY ONLY Seated(Q), <2>1, SumUpdate
  <2> QED BY <1>2, <1>5, <2>2 DEF Booked
<1>8. Booked(Q, c, d)
  <2>1. h.pot \in Nat /\ h.pot > 0
    BY <1>1, <1>5 DEF Shape, Table, Booked
  <2>2. c.pot > 0
    BY <1>1, <1>2, <1>3, <2>1
  <2> QED BY <1>2, <1>5, <1>6, <1>7, <2>2 DEF Booked
<1>9. Level(Q, c)
  <2>1. \A p \in Range(Q) : c.contributed[p] - c.roundContrib[p] = h.contributed[p] - h.roundContrib[p]
    <3>1. TAKE p \in Range(Q)
    <3>2. CASE p = u
      BY <1>2, <1>3, <3>2
    <3>3. CASE p # u
      BY <1>2, <3>3
    <3> QED BY <3>2, <3>3
  <2> QED BY <1>1, <1>4, <1>5, <2>1 DEF Level
<1>10. Funded(Q, c)
  <2>1. SUFFICES ASSUME NEW p \in Range(Q) PROVE p \in c.allIn <=> c.stack[p] = 0
    BY DEF Funded
  <2>2. p \in h.allIn <=> h.stack[p] = 0
    BY <1>5 DEF Funded
  <2>3. CASE p = u
    <3>1. c.stack[u] = h.stack[u] - n /\ u \notin h.allIn
      BY <1>1, <1>2
    <3>2. c.stack[u] = 0 <=> h.stack[u] = n
      BY <1>1, <1>3, <3>1
    <3> QED BY <1>2, <2>3, <3>1, <3>2, Zenon
  <2>4. CASE p # u
    BY <1>2, <2>2, <2>4
  <2> QED BY <2>3, <2>4
<1> QED BY <1>2, <1>4, <1>8, <1>9, <1>10

\* A call, a bet or an all-in: u puts in n chips, all u has or enough to match
\* the bet, and whoever is below the new bet is asked again.
LEMMA StakeAnswered ==
  ASSUME NEW Q, Seated(Q), NEW h, NEW d, InPlay(Q, h, d), NEW u, MayAct(h, u), NEW n \in 0 .. h.stack[u],
         n = h.stack[u] \/ h.roundContrib[u] + n >= h.roundBet,
         NEW c, c = Commit(h, u, n), NEW k, k = Raise(c, u)
  PROVE  Answered(Q, k, u, d) /\ Offers(Q, h, u, k)
<1> DEFINE raised == ~(c.roundContrib[u] <= c.roundBet)
<1>1. /\ Shape(Q, h) /\ u \in Range(Q) /\ u \in Playable(h) /\ u = Q[h.turn + 1]
      /\ Active(h) = Range(Q) \ h.folded /\ Playable(h) = (Range(Q) \ h.folded) \ h.allIn
      /\ h.turn \in Places(Q) /\ h.roundBet \in Nat
  BY ActorFacts
<1>2. /\ Shape(Q, c) /\ c.turn = h.turn /\ c.bb = h.bb
      /\ c.stage = h.stage /\ c.roundBet = h.roundBet
      /\ c.folded = h.folded /\ c.hasActed = h.hasActed
      /\ c.pot = h.pot + n /\ c.stack[u] = h.stack[u] - n
      /\ c.contributed[u] = h.contributed[u] + n
      /\ c.roundContrib[u] = h.roundContrib[u] + n
      /\ \A p \in Range(Q) \ {u} : c.stack[p] = h.stack[p] /\ c.contributed[p] = h.contributed[p]
                                 /\ c.roundContrib[p] = h.roundContrib[p]
      /\ h.stack[u] = n => c.allIn = h.allIn \cup {u}
      /\ h.stack[u] # n => c.allIn = h.allIn
  BY <1>1, CommitEffect
<1>3. \A p \in Range(Q) : h.contributed[p] \in Nat /\ h.roundContrib[p] \in Nat /\ n \in Nat
  BY <1>1 DEF Shape, Table
<1>9. n = h.stack[u] \/ h.roundContrib[u] + n >= h.roundBet
  OBVIOUS
<1>4. Booked(Q, c, d) /\ Level(Q, c) /\ Funded(Q, c)
  BY CommitBooked
<1>5. /\ h.stack[u] = n => Playable(c) = Playable(h) \ {u}
      /\ h.stack[u] # n => Playable(c) = Playable(h)
      /\ Active(c) = Active(h)
  <2>1. Active(c) = Range(Q) \ c.folded /\ Playable(c) = (Range(Q) \ c.folded) \ c.allIn
    BY ONLY Seated(Q), <1>2, PlayableOfShape
  <2> QED BY ONLY Seated(Q), <1>1, <1>2, <2>1
<1>6. Bounded(Q, h) /\ Staked(Q, h) /\ Matched(h) /\ Asked(h) /\ InOrder(Q, h) /\ Active(h) # {}
  BY DEF InPlay, Stakes, Contested
<1>7. CASE ~raised
  <2>1. k = c
    BY <1>7 DEF Raise
  <2>2. Bounded(Q, c)
    <3>1. SUFFICES ASSUME NEW p \in Range(Q)
                   PROVE  c.roundContrib[p] <= c.roundBet /\ c.roundContrib[p] <= c.contributed[p]
      BY DEF Bounded
    <3>2. h.roundContrib[p] <= h.roundBet /\ h.roundContrib[p] <= h.contributed[p]
      BY <1>6 DEF Bounded
    <3>3. CASE p = u
      BY ONLY Seated(Q), <1>1, <1>2, <1>3, <1>7, <3>2, <3>3
    <3>4. CASE p # u
      BY <1>2, <3>2, <3>4
    <3> QED BY <3>3, <3>4
  <2>3. Staked(Q, c)
    <3>1. CASE \E p \in Range(Q) : h.roundContrib[p] = h.roundBet
      <4>1. PICK p \in Range(Q) : h.roundContrib[p] = h.roundBet
        BY <3>1
      <4>2. c.roundContrib[p] = c.roundBet
        BY ONLY Seated(Q), <1>1, <1>2, <1>3, <1>7, <4>1
      <4> QED BY <4>2 DEF Staked
    <3>2. CASE h.stage = "preflop" /\ h.roundBet = OpenBetMin /\ Q[h.bb + 1] \in h.allIn
      BY <1>2, <3>2 DEF Staked
    <3> QED BY <1>6, <3>1, <3>2 DEF Staked
  <2>4. \A p \in Playable(c) : p = u \/ p \in c.hasActed => c.roundContrib[p] = c.roundBet
    <3>1. TAKE p \in Playable(c)
    <3>2. CASE p = u
      <4>1. n # h.stack[u]
        BY <1>1, <1>5, <3>2
      <4>2. c.roundContrib[u] >= h.roundBet /\ c.roundContrib[u] \in Nat
        BY ONLY Seated(Q), <1>1, <1>2, <1>3, <1>9, <4>1
      <4> QED BY ONLY Seated(Q), <1>1, <1>2, <1>7, <3>2, <4>2
    <3>3. CASE p # u
      <4>1. p \in Playable(h) /\ p \in Range(Q)
        BY <1>1, <1>5
      <4> QED BY <1>2, <1>6, <3>3, <4>1 DEF Matched
    <3> QED BY <3>2, <3>3
  <2>5. \A a, b \in Places(Q) \ {c.turn} :
          Hop(Q, c.turn, a) < Hop(Q, c.turn, b) /\ Q[a + 1] \in Playable(c) \cap c.hasActed
            /\ Q[b + 1] \in Playable(c) => Q[b + 1] \in c.hasActed
    BY <1>2, <1>5, <1>6 DEF InOrder
  <2>9. \A p \in Playable(c) \ (c.hasActed \cup {u}) :
          c.roundContrib[p] < c.roundBet \/ c.roundBet = OpeningBet(c)
    <3>1. \A p \in Playable(c) \ {u} : p \in Playable(h) /\ p \in Range(Q) \ {u}
      BY <1>1, <1>5
    <3> QED BY <1>2, <1>6, <3>1 DEF Asked, OpeningBet
  <2>6. Stakes(Q, c, d)
    BY <1>2, <1>4, <2>2, <2>3 DEF Stakes
  <2>7. Answered(Q, c, u, d)
    BY <1>1, <1>2, <1>5, <1>6, <2>4, <2>5, <2>6, <2>9 DEF Answered
  <2>8. Offers(Q, h, u, c)
    <3>1. Due(c) \ {u} = Due(h) \ {u}
      BY <1>2, <1>5 DEF Due
    <3>2. c.stack[u] = h.stack[u] - n /\ c.pot = h.pot + n
      BY <1>2
    <3> QED BY ONLY Seated(Q), <1>1, <1>2, <3>1, <3>2 DEF Offers
  <2> QED BY <2>1, <2>7, <2>8
<1>8. CASE raised
  <2>1. k = [c EXCEPT !.roundBet = c.roundContrib[u], !.hasActed = @ \ (Playable(c) \ {u})]
    BY <1>8 DEF Raise
  <2>2. /\ Shape(Q, k) /\ k.hasActed = c.hasActed \ (Playable(c) \ {u}) /\ k.roundBet = c.roundContrib[u]
        /\ k.stage = c.stage /\ k.turn = c.turn /\ k.board = c.board /\ k.bb = c.bb
        /\ k.pot = c.pot /\ k.drawn = c.drawn
        /\ k.stack = c.stack /\ k.contributed = c.contributed /\ k.roundContrib = c.roundContrib
        /\ k.folded = c.folded /\ k.allIn = c.allIn
    <3>1. DOMAIN k = Fields
      BY <1>2, <2>1, Zenon DEF Shape, Table
    <3>2. c.roundContrib[u] \in Nat /\ c.hasActed \ (Playable(c) \ {u}) \subseteq Range(Q)
      BY ONLY Seated(Q), <1>1, <1>2 DEF Shape, Table
    <3>3. Shape(Q, c)
      BY <1>2
    <3> QED BY <2>1, <3>1, <3>2, <3>3 DEF Shape, Table, Fields
  <2>3. Playable(k) = Playable(c) /\ Active(k) = Active(c)
    <3>1. Active(k) = Range(Q) \ k.folded /\ Playable(k) = (Range(Q) \ k.folded) \ k.allIn
      BY <2>2, PlayableOfShape
    <3>2. Active(c) = Range(Q) \ c.folded /\ Playable(c) = (Range(Q) \ c.folded) \ c.allIn
      BY <1>2, PlayableOfShape
    <3> QED BY <2>2, <3>1, <3>2
  <2>4. Bounded(Q, k)
    <3>1. SUFFICES ASSUME NEW p \in Range(Q)
                   PROVE  c.roundContrib[p] <= c.roundContrib[u] /\ c.roundContrib[p] <= c.contributed[p]
      BY <2>2 DEF Bounded
    <3>2. h.roundContrib[p] <= h.roundBet /\ h.roundContrib[p] <= h.contributed[p]
      BY <1>6 DEF Bounded
    <3>3. CASE p = u
      BY ONLY Seated(Q), <1>1, <1>2, <1>3, <3>2, <3>3
    <3>4. CASE p # u
      BY ONLY Seated(Q), <1>1, <1>2, <1>3, <1>8, <3>2, <3>4
    <3> QED BY <3>3, <3>4
  <2>5. Staked(Q, k)
    BY ONLY Seated(Q), <1>1, <2>2 DEF Staked
  <2>6. Level(Q, k) /\ Booked(Q, k, d) /\ Funded(Q, k)
    BY <1>4, <2>2, <2>3 DEF Level, Booked, Funded
  <2>7. Stakes(Q, k, d)
    BY <2>2, <2>4, <2>5, <2>6 DEF Stakes
  <2>8. Playable(k) \cap k.hasActed \subseteq {u}
    BY <2>2, <2>3
  <2>9. \A p \in Playable(k) : p = u \/ p \in k.hasActed => k.roundContrib[p] = k.roundBet
    BY <2>2, <2>8
  <2>10. \A a \in Places(Q) \ {k.turn} : Q[a + 1] \notin Playable(k) \cap k.hasActed
    <3>1. SUFFICES ASSUME NEW a \in Places(Q) \ {k.turn} PROVE Q[a + 1] # u
      BY <2>8
    <3>2. k.turn = h.turn
      BY <1>2, <2>2
    <3> QED BY ONLY Seated(Q), <1>1, <3>1, <3>2, SeatingFacts
  <2>13. \A p \in Playable(k) \ (k.hasActed \cup {u}) : k.roundContrib[p] < k.roundBet
    <3>1. Playable(k) \subseteq Range(Q)
      BY <1>1, <1>5, <2>3
    <3>2. k.roundContrib = c.roundContrib /\ k.roundBet = c.roundContrib[u]
      BY <2>2
    <3>3. SUFFICES ASSUME NEW p \in Range(Q) \ {u} PROVE k.roundContrib[p] < k.roundBet
      BY <3>1
    <3>4. c.roundContrib[p] = h.roundContrib[p] /\ h.roundContrib[p] \in Nat
      BY <1>2, <1>3
    <3>5. h.roundContrib[p] <= h.roundBet
      BY <1>6 DEF Bounded
    <3>6. h.roundContrib[u] \in Nat /\ n \in Nat /\ c.roundContrib[u] = h.roundContrib[u] + n
      BY <1>1, <1>2, <1>3
    <3>7. c.roundBet = h.roundBet
      BY <1>2
    <3>8. ~(c.roundContrib[u] <= h.roundBet)
      BY <1>8, <3>7, Zenon
    <3> QED BY ONLY Seated(Q), <1>1, <3>2, <3>4, <3>5, <3>6, <3>8
  <2>11. Answered(Q, k, u, d)
    <3>1. Active(k) # {} /\ u \in Range(Q) /\ u = Q[k.turn + 1]
      BY ONLY Seated(Q), <1>1, <1>2, <1>5, <1>6, <2>2, <2>3
    <3> QED BY <2>7, <2>9, <2>10, <2>13, <3>1 DEF Answered
  <2>12. Offers(Q, h, u, k)
    <3>1. k.roundBet >= h.roundBet
      BY ONLY Seated(Q), <1>1, <1>2, <1>3, <1>8, <2>2
    <3>2. \A p \in Range(Q) \ {u} : k.stack[p] = h.stack[p]
      BY <1>2, <2>2
    <3>3. k.stage = h.stage /\ k.bb = h.bb /\ k.folded = h.folded /\ h.allIn \subseteq k.allIn
      BY <1>2, <2>2
    <3>4. Due(h) \ {u} \subseteq Due(k)
      BY <1>2, <1>5, <2>2, <2>3 DEF Due
    <3>5. n # 0
      BY ONLY Seated(Q), <1>1, <1>2, <1>3, <1>6, <1>8 DEF Bounded
    <3>6. k.stack[u] = h.stack[u] - n /\ k.pot = h.pot + n
      BY <1>2, <2>2
    <3> QED BY <3>1, <3>2, <3>3, <3>4, <3>5, <3>6 DEF Offers
  <2> QED BY <2>11, <2>12
<1> QED BY <1>7, <1>8

\* Every answer ApplyAction accepts leaves a hand in play or over.
LEMMA MovesInPlay ==
  ASSUME NEW Q, Seated(Q), NEW h, NEW d, NEW u, NEW s, \A p \in Range(Q) : s[p] \in Nat, MayAct(h, u), InPlay(Q, h, d),
         NEW k,
         \/ CanCheck(h, u) /\ k = Check(h, u, s)
         \/ CanCall(h, u) /\ k = Call(h, u, s)
         \/ CanFold(h, u) /\ k = Fold(h, u, s)
         \/ CanAllIn(h, u) /\ k = AllIn(h, u, s)
         \/ \E amount : CanBet(h, u, amount) /\ k = Bet(h, u, amount, s)
  PROVE  \E c : Offers(Q, h, u, c) /\ Closes(Q, c, k) /\ Goes(Q, c, u, k, d)
<1>1. /\ h.stack[u] \in Nat /\ h.pot \in Nat /\ h.roundBet \in Nat /\ h.roundContrib[u] \in Nat
      /\ h.roundContrib[u] <= h.roundBet
  BY ActorFacts DEF Shape, Table
<1>2. ASSUME NEW c, Answered(Q, c, u, d), Offers(Q, h, u, c), k = Settle(c, u, s)
      PROVE  \E e : Offers(Q, h, u, e) /\ Closes(Q, e, k) /\ Goes(Q, e, u, k, d)
  BY <1>2, SettleInPlay DEF Goes
<1>3. CASE CanCheck(h, u) /\ k = Check(h, u, s)
  <2>1. Answered(Q, h, u, d)
    BY <1>1, <1>3, PassAnswered DEF CanCheck
  <2>2. Offers(Q, h, u, h)
    <3>1. 0 \in 0 .. h.stack[u] /\ h.stack[u] = h.stack[u] - 0 /\ h.pot = h.pot + 0
      BY <1>1
    <3> QED BY <1>1, <3>1 DEF Offers
  <2> QED BY <1>2, <1>3, <2>1, <2>2 DEF Check
<1>4. CASE CanFold(h, u) /\ k = Fold(h, u, s)
  <2> DEFINE c == [h EXCEPT !.folded = @ \cup {u}]
  <2>1. Answered(Q, c, u, d) /\ Offers(Q, h, u, c)
    BY FoldAnswered
  <2> HIDE DEF c
  <2> QED BY <1>2, <1>4, <2>1 DEF Fold, c
<1>5. ASSUME NEW n \in 0 .. h.stack[u], n = h.stack[u] \/ h.roundContrib[u] + n >= h.roundBet,
             k = Settle(Raise(Commit(h, u, n), u), u, s)
      PROVE  \E e : Offers(Q, h, u, e) /\ Closes(Q, e, k) /\ Goes(Q, e, u, k, d)
  BY <1>2, <1>5, StakeAnswered
<1>6. CASE CanAllIn(h, u) /\ k = AllIn(h, u, s)
  BY <1>1, <1>5, <1>6 DEF AllIn, Bet
<1>7. ASSUME NEW amount, CanBet(h, u, amount), k = Bet(h, u, amount, s)
      PROVE  \E e : Offers(Q, h, u, e) /\ Closes(Q, e, k) /\ Goes(Q, e, u, k, d)
  <2>1. amount \in LeastBet(h, u) .. h.stack[u]
    BY <1>7 DEF CanBet
  <2>2. LeastBet(h, u) \in Nat /\ h.roundContrib[u] + LeastBet(h, u) >= h.roundBet
    BY <1>1, BlindsAssumption DEF LeastBet
  <2>3. amount \in 0 .. h.stack[u] /\ h.roundContrib[u] + amount >= h.roundBet
    BY <1>1, <2>1, <2>2
  <2> QED BY <1>5, <1>7, <2>3 DEF Bet
<1>8. CASE CanCall(h, u) /\ k = Call(h, u, s)
  <2> DEFINE owes == h.roundBet - h.roundContrib[u]
             n    == Min({owes, h.stack[u]})
             c    == Commit(h, u, n)
  <2>1. n = IF owes <= h.stack[u] THEN owes ELSE h.stack[u]
    BY <1>1, MinOfPair
  <2>2. /\ n \in 0 .. h.stack[u] /\ h.roundContrib[u] + n <= h.roundBet
        /\ n = h.stack[u] \/ h.roundContrib[u] + n >= h.roundBet
    BY <1>1, <2>1
  <2>3. k = Settle(c, u, s)
    BY <1>8 DEF Call
  <2> HIDE DEF n, c
  <2>4. Raise(c, u) = c
    <3>1. Shape(Q, h) /\ u \in Range(Q) /\ c = Commit(h, u, n)
      BY ActorFacts DEF c
    <3>2. c.roundContrib[u] = h.roundContrib[u] + n /\ c.roundBet = h.roundBet
      BY <2>2, <3>1, CommitEffect
    <3> QED BY <2>2, <3>2 DEF Raise
  <2> QED BY <1>5, <2>2, <2>3, <2>4 DEF c
<1> QED BY <1>3, <1>4, <1>6, <1>7, <1>8

-----------------------------------------------------------------------------
(* The deal. *)

\* NewGame's two blinds leave a hand in play, or one that nobody can play and
\* that is dealt out at once.
LEMMA NewGameInPlay ==
  ASSUME NEW Q, Seated(Q), NEW dealer \in Places(Q), NEW stacks,
         N(Q) >= 2, \A p \in Range(Q) : stacks[p] \in Nat \ {0}, NEW s, \A p \in Range(Q) : s[p] \in Nat,
         NEW new, new = NewGame(Q, stacks, dealer, s)
  PROVE  LET d == [p \in Range(Q) |-> stacks[p]] IN
         \/ Stuck(Q, new)
         \/ /\ new.bb \in Places(Q) /\ new.folded = {}
            /\ Ended(Q, new, d) \/ (InPlay(Q, new, d) /\ new.stage = "preflop")
<1> DEFINE sb    == IF N(Q) = 2 THEN dealer ELSE (dealer + 1) % N(Q)
           bb    == (sb + 1) % N(Q)
           small == Max({OpenBetMin \div 2, 1})
           blind(p) == IF p = Q[sb + 1] THEN Min({small, stacks[p]})
                       ELSE IF p = Q[bb + 1] THEN Min({OpenBetMin, stacks[p]})
                       ELSE 0
           h == [players |-> Q, stage |-> "preflop", dealer |-> dealer, bb |-> bb, turn |-> bb,
                 pot |-> blind(Q[sb + 1]) + blind(Q[bb + 1]), roundBet |-> OpenBetMin,
                 board |-> 0, drawn |-> 2 * N(Q),
                 stack        |-> [p \in Range(Q) |-> stacks[p] - blind(p)],
                 contributed  |-> [p \in Range(Q) |-> blind(p)],
                 roundContrib |-> [p \in Range(Q) |-> blind(p)],
                 won          |-> [p \in Range(Q) |-> 0],
                 reveal       |-> [p \in Range(Q) |-> 0],
                 strength     |-> [p \in Range(Q) |-> 0],
                 folded |-> {}, allIn |-> {p \in Range(Q) : stacks[p] = blind(p)}, hasActed |-> {},
                 reason |-> "none", winners |-> {}]
           k == [h EXCEPT !.turn = NextTurnSeat(h, bb)]
           d == [p \in Range(Q) |-> stacks[p]]
<1>1. N(Q) \in Nat /\ N(Q) >= 2 /\ DeckSize \in Nat
  BY SeatingFacts, DeckAssumption
<1>2. sb \in Places(Q) /\ bb \in Places(Q) /\ sb # bb
  <2>1. 1 \in 1 .. N(Q)
    BY <1>1
  <2>2. sb \in Places(Q)
    BY <2>1, AheadFacts
  <2>3. bb \in Places(Q) /\ Ahead(Q, sb, bb) = 1
    <3> HIDE DEF sb
    <3> QED BY <2>1, <2>2, AheadFacts
  <2>4. Ahead(Q, bb, bb) = N(Q)
    BY <1>1, <2>3 DEF Ahead, Places
  <2> QED BY <1>1, <2>2, <2>3, <2>4
<1>3. new = IF h.drawn > DeckSize THEN Panic(h)
            ELSE IF Playable(h) = {} THEN RunOut(h, s) ELSE k
  BY Zenon DEF NewGame, N
<1>4. small \in Nat /\ small <= OpenBetMin
  BY MaxOfPair, BlindsAssumption
<1> HIDE DEF sb, bb, small
<1>5. \A p \in Range(Q) : /\ blind(p) \in Nat /\ blind(p) <= stacks[p] /\ blind(p) <= OpenBetMin
  <2>1. TAKE p \in Range(Q)
  <2>2. stacks[p] \in Nat /\ OpenBetMin \in Nat
    BY BlindsAssumption
  <2>3. /\ Min({small, stacks[p]}) = IF small <= stacks[p] THEN small ELSE stacks[p]
        /\ Min({OpenBetMin, stacks[p]}) = IF OpenBetMin <= stacks[p] THEN OpenBetMin ELSE stacks[p]
    BY <1>4, <2>2, MinOfPair
  <2> QED BY <1>4, <2>2, <2>3
<1>6. /\ Q[sb + 1] \in Range(Q) /\ Q[bb + 1] \in Range(Q)
      /\ Q[sb + 1] # Q[bb + 1]
  BY <1>2, SeatingFacts
<1>7. blind(Q[bb + 1]) = OpenBetMin \/ blind(Q[bb + 1]) = stacks[Q[bb + 1]]
  <2>1. stacks[Q[bb + 1]] \in Nat /\ OpenBetMin \in Nat
    BY <1>6, BlindsAssumption
  <2>2. blind(Q[bb + 1]) = Min({OpenBetMin, stacks[Q[bb + 1]]})
    BY <1>6
  <2> QED BY <2>1, <2>2, MinOfPair
<1>8. \A p \in Range(Q) \ {Q[sb + 1], Q[bb + 1]} : blind(p) = 0
  OBVIOUS
<1> HIDE DEF blind
<1>9. Shape(Q, h)
  <2>1. h.dealer \in Places(Q) /\ h.turn \in Places(Q) /\ h.bb \in Nat
    BY <1>1, <1>2 DEF Places
  <2>2. h.pot \in Nat /\ h.roundBet \in Nat /\ h.drawn \in Nat
    BY <1>1, <1>5, <1>6, BlindsAssumption
  <2>3. h.stack \in [Range(Q) -> Nat]
    BY <1>5
  <2>4. h.contributed \in [Range(Q) -> Nat] /\ h.roundContrib \in [Range(Q) -> Nat]
    BY <1>5
  <2>5. DOMAIN h = Fields
    BY DEF Fields
  <2> QED BY <2>1, <2>2, <2>3, <2>4, <2>5 DEF Shape, Table, Streets
<1>10. /\ h.stage = "preflop" /\ h.board = 0 /\ h.bb = bb /\ h.roundBet = OpenBetMin
      /\ h.drawn = 2 * N(Q) /\ h.pot = blind(Q[sb + 1]) + blind(Q[bb + 1])
      /\ h.hasActed = {} /\ h.folded = {} /\ h.allIn = {p \in Range(Q) : stacks[p] = blind(p)}
      /\ h.stack = [p \in Range(Q) |-> stacks[p] - blind(p)]
      /\ h.contributed = [p \in Range(Q) |-> blind(p)]
      /\ h.roundContrib = [p \in Range(Q) |-> blind(p)]
  OBVIOUS
<1> HIDE DEF h
<1>11. h.pot = SumFunctionOnSet(h.contributed, Range(Q))
  <2> DEFINE u     == Q[sb + 1]
             v     == Q[bb + 1]
             alone == [p \in Range(Q) |-> IF p = u THEN blind(u) ELSE 0]
             c     == h.contributed
             m     == blind(u)
             n     == blind(v)
  <2>1. u \in Range(Q) /\ v \in Range(Q) /\ u # v /\ m \in Int /\ n \in Int
    BY <1>5, <1>6
  <2>2. IsFiniteSet(Range(Q))
    BY SeatingFacts
  <2>3. alone[u] = m /\ \A p \in Range(Q) \ {u} : alone[p] = 0
    BY <2>1
  <2>4. \A p \in Range(Q) : alone[p] \in Int
    BY <2>1
  <2>5. c[v] = alone[v] + n /\ \A p \in Range(Q) \ {v} : c[p] = alone[p]
    BY <1>8, <1>10, <2>1
  <2> HIDE DEF alone, u, v, c, m, n
  <2>6. SumFunctionOnSet(alone, Range(Q)) = m
    BY <2>1, <2>2, <2>3, SumPoint
  <2>7. SumFunctionOnSet(c, Range(Q)) = SumFunctionOnSet(alone, Range(Q)) + n
    BY ONLY Seated(Q), <2>1, <2>2, <2>4, <2>5, SumUpdate
  <2> QED BY <1>10, <2>6, <2>7 DEF c, u, v, m, n
<1>12. Stakes(Q, h, d)
  <2>1. \A p \in Range(Q) : h.stack[p] + h.contributed[p] = d[p]
    BY <1>5, <1>10
  <2>2. Booked(Q, h, d)
    <3>1. blind(Q[bb + 1]) > 0
      BY <1>6, <1>7, BlindsAssumption
    <3>2. h.pot > 0
      BY <1>5, <1>6, <1>10, <3>1
    <3>3. d \in [Range(Q) -> Nat \ {0}]
      OBVIOUS
    <3> HIDE DEF d
    <3> QED BY <1>1, <1>2, <1>10, <1>11, <2>1, <3>2, <3>3 DEF Booked, BoardAt
  <2>3. Bounded(Q, h)
    BY <1>5, <1>10 DEF Bounded
  <2>4. Staked(Q, h)
    BY <1>6, <1>7, <1>10 DEF Staked
  <2>5. Level(Q, h)
    <3>1. \A p \in Range(Q) : h.contributed[p] - h.roundContrib[p] = 0
      BY <1>5, <1>10
    <3>2. Playable(h) \subseteq Range(Q)
      BY <1>9, PlayableOfShape
    <3> QED BY <3>1, <3>2 DEF Level
  <2>6. Funded(Q, h)
    BY <1>5, <1>10 DEF Funded
  <2> QED BY <1>9, <2>2, <2>3, <2>4, <2>5, <2>6 DEF Stakes
<1>13. Contested(h)
  <2>1. Active(h) = Range(Q) \ h.folded
    BY ONLY Seated(Q), <1>9, PlayableOfShape
  <2>2. Active(h) = Range(Q)
    BY <1>10, <2>1
  <2> QED BY <1>6, <2>2 DEF Contested
<1>14. CASE h.drawn > DeckSize
  <2>1. ~DeckHolds(Q)
    BY <1>1, <1>10, <1>14 DEF DeckHolds
  <2>2. new.stage = "panic"
    BY <1>3, <1>9, <1>14, PanicEffect
  <2> QED BY <2>1, <2>2 DEF Stuck
<1>15. CASE ~(h.drawn > DeckSize) /\ Playable(h) = {}
  <2>1. RoundComplete(h)
    BY <1>15 DEF RoundComplete
  <2>2. new = RunOut(h, s)
    BY <1>3, <1>15
  <2>3. (Stuck(Q, new) \/ Ended(Q, new, d)) /\ Closes(Q, h, new)
    <3> HIDE DEF d
    <3> QED BY <1>12, <1>13, <2>1, <2>2, RunOutOver
  <2> QED BY <1>2, <1>10, <2>3 DEF Closes
<1>16. CASE ~(h.drawn > DeckSize) /\ Playable(h) # {}
  <2> DEFINE m == NextTurnSeat(h, bb)
  <2>1. m \in Places(Q) /\ Q[m + 1] \in Playable(h)
    BY <1>2, <1>9, <1>16, TurnSearch DEF Shape, Table
  <2> HIDE DEF m
  <2>2. Alike(Q, h, k) /\ k.turn = m /\ k.hasActed = h.hasActed
    <3>1. DOMAIN k = Fields
      BY <1>9, Zenon DEF Shape, Table
    <3> QED BY <1>9, <2>1, <3>1 DEF Alike, Shape, Table, Fields, m
  <2> HIDE DEF k
  <2>3. Stakes(Q, k, d) /\ Active(k) = Active(h) /\ Playable(k) = Playable(h)
    BY <1>12, <2>2, StakesAlike
  <2>4. Contested(k) /\ Matched(k) /\ InOrder(Q, k) /\ Owed(Q, k)
    BY <1>10, <1>13, <2>1, <2>2, <2>3 DEF Contested, Matched, InOrder, Owed
  <2>5. new = k
    BY <1>3, <1>16
  <2>6. Asked(k) /\ k.stage = "preflop"
    BY <1>10, <2>2 DEF Asked, OpeningBet, Alike
  <2>7. k.bb \in Places(Q) /\ k.folded = {}
    BY <1>2, <1>10, <2>2 DEF Alike
  <2> QED BY <2>3, <2>4, <2>5, <2>6, <2>7 DEF InPlay
<1> QED BY <1>14, <1>15, <1>16

-----------------------------------------------------------------------------
(***************************************************************************)
(* finishShowdown divides the pot without losing, making or misplacing a   *)
(* chip: what Divided says of a hand that is over, for every table, every  *)
(* stack and every order of the hands.                                     *)
(*                                                                         *)
(* Along the way the pot is counted twice.  By layers: what the winners of *)
(* a layer share is the layer, because exactly the remainder of them come  *)
(* first in seat order (RanksCount).  By players: the layers of one stake  *)
(* add up to the stake (LayersAddUp).  SumSwap says the counts agree.      *)
(***************************************************************************)

-----------------------------------------------------------------------------
(* The pot, layer by layer. *)

\* The numbers and levels of a hand.
LEMMA LevelFacts ==
  ASSUME NEW Q, Seated(Q), NEW h, Table(Q, h)
  PROVE  /\ InHand(h) = Range(Q) /\ IsFiniteSet(Range(Q)) /\ Active(h) \subseteq Range(Q)
         /\ \A p \in Range(Q) : h.contributed[p] \in Nat /\ h.strength[p] \in Nat
         /\ Levels(h) \subseteq Nat \ {0} /\ IsFiniteSet(Levels(h))
         /\ \A p \in Active(h) : h.contributed[p] > 0 => h.contributed[p] \in Levels(h)
<1> DEFINE b == SumFunctionOnSet(h.contributed, Range(Q))
<1>1. /\ InHand(h) = Range(Q) /\ IsFiniteSet(Range(Q)) /\ Active(h) \subseteq Range(Q)
      /\ \A p \in Range(Q) : h.contributed[p] \in Nat /\ h.strength[p] \in Nat
  BY SeatsOfShape, SeatingFacts DEF Table
<1>2. b \in Nat /\ \A q \in Range(Q) : h.contributed[q] <= b
  BY <1>1, SumType, SumBounds
<1> HIDE DEF b
<1>3. \A l \in Levels(h) : l \in Nat \ {0} /\ l <= b
  BY <1>1, <1>2 DEF Levels
<1>4. IsFiniteSet(Levels(h))
  <2>1. Levels(h) \in SUBSET Nat
    BY <1>3
  <2> QED BY <1>2, <1>3, <2>1, FS_BoundedSetOfNaturals
<1>5. \A p \in Active(h) : h.contributed[p] > 0 => h.contributed[p] \in Levels(h)
  BY <1>1 DEF Levels
<1> QED BY <1>1, <1>3, <1>4, <1>5

\* What q has in the layer that ends at level.
Layer(h, q, level) ==
  Min({h.contributed[q], level}) - Min({h.contributed[q], Under(Levels(h), level)})

\* A layer of the pot is what the players have in it.
LEMMA PartOfPot ==
  ASSUME NEW Q, Seated(Q), NEW h, Table(Q, h), NEW level \in Levels(h)
  PROVE  /\ PotPart(h, level) = SumFunctionOnSet([q \in Range(Q) |-> Layer(h, q, level)], Range(Q))
         /\ \A q \in Range(Q) : Layer(h, q, level) \in Nat
<1>1. InHand(h) = Range(Q)
  BY LevelFacts
<1>2. PotPart(h, level) = SumFunctionOnSet([q \in Range(Q) |-> Layer(h, q, level)], Range(Q))
  BY <1>1, Zenon DEF PotPart, Layer, Under
<1>3. \A q \in Range(Q) : Layer(h, q, level) \in Nat
  <2>1. TAKE q \in Range(Q)
  <2>2. h.contributed[q] \in Nat /\ level \in Nat /\ Under(Levels(h), level) \in 0 .. level
    <3>1. Levels(h) \in SUBSET Nat
      BY LevelFacts
    <3> QED BY <3>1, LevelFacts, UnderType
  <2>3. /\ Min({h.contributed[q], level})
             = IF h.contributed[q] <= level THEN h.contributed[q] ELSE level
        /\ Min({h.contributed[q], Under(Levels(h), level)})
             = IF h.contributed[q] <= Under(Levels(h), level) THEN h.contributed[q]
               ELSE Under(Levels(h), level)
    BY <2>2, MinOfPair
  <2> QED BY <2>2, <2>3 DEF Layer
<1> QED BY <1>2, <1>3

\* The layers up to k hold what every stake holds up to the highest of their
\* levels.
LEMMA PartsUpTo ==
  ASSUME NEW Q, Seated(Q), NEW h, Table(Q, h), NEW k \in Nat
  PROVE  SumFunctionOnSet([l \in Levels(h) |-> IF l <= k THEN PotPart(h, l) ELSE 0], Levels(h))
         = SumFunctionOnSet([q \in Range(Q) |-> Min({h.contributed[q], UpToLevel(Levels(h), k)})],
                            Range(Q))
<1> DEFINE L    == Levels(h)
           low  == {l \in L : l <= k}
           f    == [l \in L |-> [q \in Range(Q) |-> IF l <= k THEN Layer(h, q, l) ELSE 0]]
           part == [l \in L |-> IF l <= k THEN PotPart(h, l) ELSE 0]
           held == [q \in Range(Q) |-> Min({h.contributed[q], UpToLevel(L, k)})]
<1>1. /\ IsFiniteSet(L) /\ IsFiniteSet(Range(Q)) /\ L \subseteq Nat \ {0}
      /\ \A q \in Range(Q) : h.contributed[q] \in Nat
  BY LevelFacts
<1>2. \A l \in L, q \in Range(Q) : f[l][q] \in Int
  <2>1. TAKE l \in L, q \in Range(Q)
  <2>2. Layer(h, q, l) \in Nat
    BY PartOfPot
  <2> QED BY <2>2
<1>3. SumFunctionOnSet([l \in L |-> SumFunctionOnSet(f[l], Range(Q))], L)
      = SumFunctionOnSet([q \in Range(Q) |-> SumFunctionOnSet([l \in L |-> f[l][q]], L)], Range(Q))
  <2> HIDE DEF f, L
  <2> QED BY <1>1, <1>2, SumSwap
<1>4. \A l \in L : SumFunctionOnSet(f[l], Range(Q)) = part[l]
  <2>1. TAKE l \in L
  <2>2. CASE l <= k
    <3>1. f[l] = [q \in Range(Q) |-> Layer(h, q, l)]
      BY <2>2
    <3> HIDE DEF f
    <3> QED BY <2>2, <3>1, PartOfPot
  <2>3. CASE ~ (l <= k)
    <3>1. \A q \in Range(Q) : f[l][q] = 0
      BY <2>3
    <3> HIDE DEF f
    <3>2. SumFunctionOnSet(f[l], Range(Q)) = 0
      BY <1>1, <3>1, SumZero
    <3> QED BY <2>3, <3>2
  <2> QED BY <2>2, <2>3
<1>5. \A q \in Range(Q) : SumFunctionOnSet([l \in L |-> f[l][q]], L) = held[q]
  <2>1. TAKE q \in Range(Q)
  <2>2. [l \in L |-> f[l][q]]
        = [l \in L |-> IF l <= k
                       THEN Min({h.contributed[q], l}) - Min({h.contributed[q], Under(L, l)})
                       ELSE 0]
    BY DEF Layer
  <2>3. h.contributed[q] \in Nat
    BY <1>1
  <2> HIDE DEF f, L
  <2>4. SumFunctionOnSet([l \in L |-> IF l <= k
                                      THEN Min({h.contributed[q], l})
                                             - Min({h.contributed[q], Under(L, l)})
                                      ELSE 0], L)
        = Min({h.contributed[q], UpToLevel(L, k)})
    BY ONLY Seated(Q), <1>1, <2>3, LayersAddUp
  <2> QED BY <2>2, <2>4
<1>6. [l \in L |-> SumFunctionOnSet(f[l], Range(Q))] = part
  <2> HIDE DEF f
  <2> QED BY <1>4
<1>7. [q \in Range(Q) |-> SumFunctionOnSet([l \in L |-> f[l][q]], L)] = held
  <2> HIDE DEF f
  <2> QED BY <1>5
<1> HIDE DEF f
<1> QED BY <1>3, <1>6, <1>7

\* Every layer has somebody to win it.
LEMMA BestFacts ==
  ASSUME NEW Q, Seated(Q), NEW h, Table(Q, h), NEW level \in Levels(h)
  PROVE  /\ BestPlayers(h, level) \subseteq Range(Q) /\ IsFiniteSet(BestPlayers(h, level))
         /\ BestPlayers(h, level) # {} /\ Cardinality(BestPlayers(h, level)) \in Nat \ {0}
         /\ \A p \in BestPlayers(h, level) : p \in Active(h) /\ h.contributed[p] >= level
<1> DEFINE Eligible == {p \in Active(h) : h.contributed[p] >= level}
           Best     == {p \in Eligible : \A q \in Eligible : h.strength[q] <= h.strength[p]}
           Values   == {h.strength[p] : p \in Eligible}
           b        == SumFunctionOnSet(h.strength, Range(Q))
<1>1. Eligible \subseteq Range(Q) /\ Eligible # {}
  <2>1. \E p \in Active(h) : h.contributed[p] = level
    BY DEF Levels
  <2>2. level >= level
    BY LevelFacts
  <2> QED BY <2>1, <2>2, LevelFacts
<1>2. BestPlayers(h, level) = Best
  BY DEF BestPlayers
<1>3. Best # {}
  <2>1. b \in Nat /\ \A p \in Range(Q) : h.strength[p] <= b
    BY LevelFacts, SumType, SumBounds
  <2>2. Values \in SUBSET (0 .. b) /\ Values # {}
    <3> HIDE DEF b, Eligible
    <3> QED BY <1>1, <2>1, LevelFacts
  <2>3. Max(Values) \in Values /\ \A y \in Values : Max(Values) >= y
    <3> HIDE DEF Values, b
    <3> QED BY <2>1, <2>2, MaxOfNaturals
  <2>4. PICK p \in Eligible : Max(Values) = h.strength[p]
    BY <2>3
  <2>5. \A q \in Eligible : h.strength[q] \in Values
    OBVIOUS
  <2>6. \A q \in Eligible : h.strength[q] <= h.strength[p]
    <3> HIDE DEF Values, Eligible
    <3> QED BY <1>1, <2>3, <2>4, <2>5, LevelFacts
  <2> QED BY <2>4, <2>6
<1>4. IsFiniteSet(Best)
  <2>1. Best \in SUBSET Range(Q)
    BY <1>1
  <2> HIDE DEF Best
  <2> QED BY <2>1, LevelFacts, FS_Subset
<1>5. Cardinality(Best) \in Nat \ {0}
  <2> HIDE DEF Best
  <2> QED BY <1>3, <1>4, FS_CardinalityType, FS_EmptySet
<1> HIDE DEF Values, b
<1> QED BY <1>1, <1>2, <1>3, <1>4, <1>5

\* The seat of a player.
LEMMA SeatOfFacts ==
  ASSUME NEW Q, Seated(Q), NEW h, Table(Q, h), NEW p \in Range(Q)
  PROVE  SeatOf(h, p) \in Places(Q) /\ Q[SeatOf(h, p) + 1] = p
<1>1. Seats(h) = Places(Q) /\ \A pos : At(h, pos) = Q[pos + 1]
  BY SeatsOfShape DEF Table
<1>2. \E pos \in Places(Q) : Q[pos + 1] = p
  BY SeatingFacts
<1> QED BY <1>1, <1>2 DEF SeatOf

\* The winners of a layer share all of it: of the odd chips each goes to a
\* winner of its own.
LEMMA SharesAddUp ==
  ASSUME NEW Q, Seated(Q), NEW h, Table(Q, h), NEW level \in Levels(h)
  PROVE  SumFunctionOnSet([p \in Range(Q) |-> Share(h, p, level)], Range(Q)) = PotPart(h, level)
<1> DEFINE Best  == BestPlayers(h, level)
           part  == PotPart(h, level)
           n     == Cardinality(Best)
           each  == part \div n
           odd   == part % n
           pos   == [p \in Best |-> SeatOf(h, p)]
           First == {p \in Best : Cardinality({q \in Best : pos[q] < pos[p]}) < odd}
           even  == [p \in Range(Q) |-> IF p \in Best THEN each ELSE 0]
           extra == [p \in Range(Q) |-> IF p \in First THEN 1 ELSE 0]
           share == [p \in Range(Q) |-> Share(h, p, level)]
<1>1. /\ part \in Nat /\ n \in Nat \ {0} /\ Best \in SUBSET Range(Q) /\ IsFiniteSet(Best)
      /\ IsFiniteSet(Range(Q))
  BY PotPartType, BestFacts, LevelFacts
<1>2. each \in Nat /\ odd \in Nat /\ odd < n /\ each * n + odd = part
  <2> HIDE DEF part, n
  <2> QED BY <1>1
<1>3. /\ pos \in [Best -> Nat]
      /\ \A p, q \in Best : pos[p] = pos[q] => p = q
  <2>1. \A p \in Best : SeatOf(h, p) \in Nat /\ Q[SeatOf(h, p) + 1] = p
    BY <1>1, SeatOfFacts, SeatingFacts DEF Places
  <2> HIDE DEF Best
  <2> QED BY <2>1
<1>4. Cardinality(First) = odd
  <2> HIDE DEF Best, pos, odd
  <2>1. odd <= Cardinality(Best)
    BY <1>1, <1>2
  <2> QED BY <1>1, <1>2, <1>3, <2>1, RanksCount
<1>5. First \in SUBSET Range(Q)
  BY <1>1
<1>6. \A p \in Range(Q) : /\ even[p] \in Int /\ extra[p] \in Int
                        /\ share[p] = even[p] + extra[p]
  <2>1. TAKE p \in Range(Q)
  <2>2. CASE p \in Best
    <3>1. {q \in Best : pos[q] < pos[p]} = {q \in Best : SeatOf(h, q) < SeatOf(h, p)}
      BY <2>2
    <3>2. Share(h, p, level)
          = each + (IF Cardinality({q \in Best : SeatOf(h, q) < SeatOf(h, p)}) < odd
                    THEN 1 ELSE 0)
      BY <2>2 DEF Share
    <3>3. p \in First <=> Cardinality({q \in Best : SeatOf(h, q) < SeatOf(h, p)}) < odd
      BY <2>2, <3>1
    <3> HIDE DEF Best, pos, First, each, odd
    <3> QED BY <1>2, <2>2, <3>2, <3>3
  <2>3. CASE p \notin Best
    <3>1. Share(h, p, level) = 0
      BY <2>3 DEF Share
    <3> QED BY <2>3, <3>1
  <2> QED BY <2>2, <2>3
<1>7. SumFunctionOnSet(even, Range(Q)) = each * n /\ SumFunctionOnSet(extra, Range(Q)) = odd
  <2> HIDE DEF Best, First, each, odd
  <2>1. SumFunctionOnSet(extra, Range(Q)) = 1 * Cardinality(First)
    BY <1>1, <1>5, SumCount
  <2>2. SumFunctionOnSet(even, Range(Q)) = each * n
    BY <1>1, <1>2, SumCount
  <2> QED BY <1>2, <1>4, <2>1, <2>2
<1>8. SumFunctionOnSet(share, Range(Q)) = SumFunctionOnSet(even, Range(Q)) + SumFunctionOnSet(extra, Range(Q))
  <2> HIDE DEF even, extra, share
  <2> QED BY <1>1, <1>6, SumAdd
<1> HIDE DEF each, odd, n, even, extra
<1>9. SumFunctionOnSet(share, Range(Q)) = part
  BY <1>2, <1>7, <1>8
<1> QED BY <1>9

\* The payouts add up to what the stakes hold up to the highest level.
LEMMA PayoutsAddUp ==
  ASSUME NEW Q, Seated(Q), NEW h, Table(Q, h), NEW top \in Levels(h), \A l \in Levels(h) : l <= top
  PROVE  SumFunctionOnSet([p \in Range(Q) |-> Payout(h, p)], Range(Q))
         = SumFunctionOnSet([q \in Range(Q) |-> Min({h.contributed[q], top})], Range(Q))
<1> DEFINE L    == Levels(h)
           f    == [p \in Range(Q) |-> [l \in L |-> Share(h, p, l)]]
           paid == [p \in Range(Q) |-> Payout(h, p)]
           part == [l \in L |-> IF l <= top THEN PotPart(h, l) ELSE 0]
<1>1. IsFiniteSet(L) /\ IsFiniteSet(Range(Q)) /\ L \in SUBSET Nat /\ top \in Nat
  BY LevelFacts
<1>2. \A p \in Range(Q), l \in L : f[p][l] \in Int
  <2>1. TAKE p \in Range(Q), l \in L
  <2>2. Share(h, p, l) \in Int
    BY ShareType
  <2> QED BY <2>2
<1>3. SumFunctionOnSet([p \in Range(Q) |-> SumFunctionOnSet(f[p], L)], Range(Q))
      = SumFunctionOnSet([l \in L |-> SumFunctionOnSet([p \in Range(Q) |-> f[p][l]], Range(Q))], L)
  <2> HIDE DEF f, L
  <2> QED BY <1>1, <1>2, SumSwap
<1>4. [p \in Range(Q) |-> SumFunctionOnSet(f[p], L)] = paid
  <2>1. \A p \in Range(Q) : f[p] = [l \in L |-> Share(h, p, l)]
    OBVIOUS
  <2> HIDE DEF f
  <2> QED BY <2>1 DEF Payout
<1>5. [l \in L |-> SumFunctionOnSet([p \in Range(Q) |-> f[p][l]], Range(Q))] = part
  <2>1. ASSUME NEW l \in L
        PROVE  SumFunctionOnSet([p \in Range(Q) |-> f[p][l]], Range(Q)) = part[l]
    <3>1. [p \in Range(Q) |-> f[p][l]] = [p \in Range(Q) |-> Share(h, p, l)]
      OBVIOUS
    <3> HIDE DEF f
    <3> QED BY <3>1, SharesAddUp
  <2> HIDE DEF f
  <2> QED BY <2>1
<1>6. UpToLevel(L, top) = top
  BY <1>1, UnderType
<1>7. SumFunctionOnSet(part, L)
      = SumFunctionOnSet([q \in Range(Q) |-> Min({h.contributed[q], top})], Range(Q))
  BY <1>1, <1>6, PartsUpTo
<1> HIDE DEF f, paid, part
<1>8. SumFunctionOnSet(paid, Range(Q))
      = SumFunctionOnSet([q \in Range(Q) |-> Min({h.contributed[q], top})], Range(Q))
  BY <1>3, <1>4, <1>5, <1>7
<1> QED BY <1>8 DEF paid

\* Only the eligible share a layer, and nobody gets more than all of it.
LEMMA ShareBound ==
  ASSUME NEW Q, Seated(Q), NEW h, Table(Q, h), NEW level \in Levels(h), NEW p \in Range(Q)
  PROVE  /\ Share(h, p, level) \in Nat /\ PotPart(h, level) \in Nat
         /\ Share(h, p, level) <= PotPart(h, level)
         /\ p \notin BestPlayers(h, level) => Share(h, p, level) = 0
<1> DEFINE share == [q \in Range(Q) |-> Share(h, q, level)]
<1>1. \A q \in Range(Q) : share[q] \in Nat
  BY ShareType
<1>2. share[p] <= SumFunctionOnSet(share, Range(Q))
  <2> HIDE DEF share
  <2> QED BY <1>1, LevelFacts, SumBounds
<1>3. share[p] = Share(h, p, level)
  OBVIOUS
<1> HIDE DEF share
<1>4. SumFunctionOnSet(share, Range(Q)) = PotPart(h, level)
  BY SharesAddUp DEF share
<1> QED BY <1>1, <1>2, <1>3, <1>4, PotPartType DEF Share

\* Nobody takes from another player more than the player's own stake.
LEMMA PayoutFair ==
  ASSUME NEW Q, Seated(Q), NEW h, Table(Q, h), NEW p \in Range(Q)
  PROVE  Payout(h, p) <=
           SumFunctionOnSet([q \in Range(Q) |-> Min({h.contributed[p], h.contributed[q]})], Range(Q))
<1> DEFINE L     == Levels(h)
           k     == h.contributed[p]
           share == [l \in L |-> Share(h, p, l)]
           part  == [l \in L |-> IF l <= k THEN PotPart(h, l) ELSE 0]
           held  == [q \in Range(Q) |-> Min({h.contributed[q], UpToLevel(L, k)})]
           own   == [q \in Range(Q) |-> Min({k, h.contributed[q]})]
<1>1. /\ IsFiniteSet(L) /\ IsFiniteSet(Range(Q)) /\ L \in SUBSET Nat /\ k \in Nat
      /\ \A q \in Range(Q) : h.contributed[q] \in Nat
  BY LevelFacts
<1>2. \A l \in L : share[l] \in Int /\ part[l] \in Int /\ share[l] <= part[l]
  <2>1. TAKE l \in L
  <2>2. /\ Share(h, p, l) \in Nat /\ PotPart(h, l) \in Nat
        /\ Share(h, p, l) <= PotPart(h, l)
        /\ ~ (l <= k) => Share(h, p, l) = 0
    <3>1. p \in BestPlayers(h, l) => l <= k
      BY <1>1, BestFacts
    <3> QED BY <3>1, ShareBound
  <2> QED BY <2>2
<1>3. SumFunctionOnSet(share, L) <= SumFunctionOnSet(part, L)
  <2> HIDE DEF share, part, L
  <2> QED BY <1>1, <1>2, SumMonotone
<1>4. SumFunctionOnSet(part, L) = SumFunctionOnSet(held, Range(Q))
  BY <1>1, PartsUpTo
<1>5. SumFunctionOnSet(held, Range(Q)) <= SumFunctionOnSet(own, Range(Q))
  <2>1. UpToLevel(L, k) \in 0 .. k
    BY <1>1, UnderType
  <2>2. \A q \in Range(Q) : held[q] \in Int /\ own[q] \in Int /\ held[q] <= own[q]
    <3>1. TAKE q \in Range(Q)
    <3>2. /\ Min({h.contributed[q], UpToLevel(L, k)})
               = IF h.contributed[q] <= UpToLevel(L, k) THEN h.contributed[q] ELSE UpToLevel(L, k)
          /\ Min({k, h.contributed[q]}) = IF k <= h.contributed[q] THEN k ELSE h.contributed[q]
      BY <1>1, <2>1, MinOfPair
    <3> HIDE DEF L, k
    <3> QED BY <1>1, <2>1, <3>2
  <2> HIDE DEF held, own
  <2> QED BY <1>1, <2>2, SumMonotone
<1>6. /\ SumFunctionOnSet(share, L) \in Int /\ SumFunctionOnSet(part, L) \in Int
      /\ SumFunctionOnSet(own, Range(Q)) \in Int
  <2>1. \A q \in Range(Q) : own[q] \in Int
    <3>1. TAKE q \in Range(Q)
    <3>2. Min({k, h.contributed[q]}) = IF k <= h.contributed[q] THEN k ELSE h.contributed[q]
      BY <1>1, MinOfPair
    <3> QED BY <1>1, <3>2
  <2> HIDE DEF share, part, own, L
  <2> QED BY <1>1, <1>2, <2>1, SumType
<1>7. Payout(h, p) = SumFunctionOnSet(share, L)
  BY DEF Payout
<1> HIDE DEF share, part, held, L
<1>8. SumFunctionOnSet(share, L) <= SumFunctionOnSet(own, Range(Q))
  <2> HIDE DEF own
  <2> QED BY <1>3, <1>4, <1>5, <1>6
<1> QED BY <1>7, <1>8

\* A player who is among the best of no layer wins nothing.
LEMMA PayoutOfNone ==
  ASSUME NEW Q, Seated(Q), NEW h, Table(Q, h), NEW p \in Range(Q), \A l \in Levels(h) : p \notin BestPlayers(h, l)
  PROVE  Payout(h, p) = 0
<1> DEFINE L     == Levels(h)
           share == [l \in L |-> Share(h, p, l)]
<1>1. \A l \in L : share[l] = 0
  BY ShareBound
<1>2. SumFunctionOnSet(share, L) = 0
  <2> HIDE DEF share
  <2> QED BY <1>1, LevelFacts, SumZero
<1> HIDE DEF share
<1> QED BY <1>2 DEF Payout, share

\* Folded players, and players beaten by somebody entitled to as much, win
\* nothing.
LEMMA PayoutOfBeaten ==
  ASSUME NEW Q, Seated(Q), NEW h, Table(Q, h), NEW p \in Range(Q),
         \/ p \in h.folded
         \/ \E q \in Active(h) : /\ h.strength[q] > h.strength[p]
                                 /\ h.contributed[q] >= h.contributed[p]
  PROVE  Payout(h, p) = 0
<1>1. SUFFICES ASSUME NEW l \in Levels(h), p \in BestPlayers(h, l) PROVE FALSE
  BY PayoutOfNone
<1>2. p \in Active(h) /\ l \in Nat /\ h.contributed[p] >= l
  BY <1>1, BestFacts, LevelFacts
<1>3. PICK q \in Active(h) : /\ h.strength[q] > h.strength[p]
                             /\ h.contributed[q] >= h.contributed[p]
  BY <1>2 DEF Active
<1>4. /\ h.contributed[q] \in Nat /\ h.contributed[p] \in Nat
      /\ h.strength[q] \in Nat /\ h.strength[p] \in Nat
  BY LevelFacts
<1>5. h.contributed[q] >= l
  BY <1>2, <1>3, <1>4
<1>6. h.strength[q] <= h.strength[p]
  BY <1>1, <1>3, <1>5 DEF BestPlayers
<1> QED BY <1>3, <1>4, <1>6

\* The best hand of all wins at least a chip: it shares the lowest layer, to
\* which everybody who shares it has put in one.
LEMMA PayoutOfBest ==
  ASSUME NEW Q, Seated(Q), NEW h, Table(Q, h), NEW p \in Active(h), h.contributed[p] > 0,
         \A q \in Active(h) : h.strength[q] <= h.strength[p]
  PROVE  Payout(h, p) > 0
<1> DEFINE L     == Levels(h)
           low   == Min(L)
           Best  == BestPlayers(h, low)
           n     == Cardinality(Best)
           one   == [q \in Range(Q) |-> IF q \in Best THEN 1 ELSE 0]
           layer == [q \in Range(Q) |-> Layer(h, q, low)]
           share == [l \in L |-> Share(h, p, l)]
<1>1. /\ IsFiniteSet(L) /\ IsFiniteSet(Range(Q)) /\ L \subseteq Nat \ {0} /\ L \in SUBSET Nat
      /\ p \in Range(Q) /\ h.contributed[p] \in L /\ L # {}
      /\ \A q \in Range(Q) : h.contributed[q] \in Nat
  BY LevelFacts
<1>2. low \in L /\ \A l \in L : low <= l
  <2> HIDE DEF L
  <2> QED BY <1>1, MinOfNaturals
<1> HIDE DEF L, low
<1>3. p \in Best
  <2>1. low <= h.contributed[p] /\ low \in Nat
    BY <1>1, <1>2
  <2>2. h.contributed[p] >= low
    BY <1>1, <2>1
  <2> QED BY <2>2 DEF BestPlayers
<1>4. /\ Best \in SUBSET Range(Q) /\ n \in Nat \ {0}
      /\ \A q \in Best : h.contributed[q] >= low
  BY <1>2, BestFacts DEF L
<1>5. \A q \in Range(Q) : one[q] \in Int /\ layer[q] \in Int /\ one[q] <= layer[q]
  <2>1. TAKE q \in Range(Q)
  <2>2. Layer(h, q, low) \in Nat
    BY <1>2, PartOfPot DEF L
  <2>3. ASSUME q \in Best PROVE Layer(h, q, low) >= 1
    <3>1. low \in Nat \ {0} /\ h.contributed[q] \in Nat /\ h.contributed[q] >= low
      BY <1>1, <1>2, <1>4, <2>3
    <3>2. Under(L, low) = 0
      <4>1. {l \in L : l < low} = {}
        <5>1. \A l \in L : ~ (l < low)
          BY <1>1, <1>2
        <5> QED BY <5>1
      <4>2. Max({0} \cup {}) = 0
        <5>1. Max({0, 0}) = 0
          BY MaxOfPair
        <5>2. {0} \cup {} = {0, 0}
          OBVIOUS
        <5> QED BY <5>1, <5>2
      <4> QED BY <4>1, <4>2 DEF Under
    <3>3. /\ Min({h.contributed[q], low}) = IF h.contributed[q] <= low THEN h.contributed[q] ELSE low
          /\ Min({h.contributed[q], 0}) = 0
      BY <3>1, MinOfPair
    <3> QED BY <3>1, <3>2, <3>3 DEF Layer, L
  <2> HIDE DEF Best
  <2> QED BY <2>2, <2>3
<1>6. SumFunctionOnSet(one, Range(Q)) = n
  <2> HIDE DEF Best
  <2>1. SumFunctionOnSet(one, Range(Q)) = 1 * Cardinality(Best)
    BY <1>1, <1>4, SumCount
  <2> HIDE DEF one
  <2> QED BY <1>4, <2>1
<1>7. SumFunctionOnSet(one, Range(Q)) <= SumFunctionOnSet(layer, Range(Q))
  <2> HIDE DEF one, layer
  <2> QED BY <1>1, <1>5, SumMonotone
<1>8. SumFunctionOnSet(layer, Range(Q)) = PotPart(h, low) /\ PotPart(h, low) \in Nat
  BY <1>2, PartOfPot, PotPartType DEF L
<1>9. n <= PotPart(h, low)
  <2> HIDE DEF one, layer, n
  <2> QED BY <1>6, <1>7, <1>8
<1>10. Share(h, p, low) >= 1
  <2>1. \A a \in Nat, b \in Nat \ {0} : b <= a => a \div b \in Nat /\ a \div b >= 1
    OBVIOUS
  <2>2. PotPart(h, low) \div n \in Nat /\ PotPart(h, low) \div n >= 1
    <3> HIDE DEF n
    <3> QED BY <1>4, <1>8, <1>9, <2>1
  <2>3. Share(h, p, low)
        = PotPart(h, low) \div n
          + (IF Cardinality({q \in Best : SeatOf(h, q) < SeatOf(h, p)}) < PotPart(h, low) % n
             THEN 1 ELSE 0)
    BY <1>3 DEF Share
  <2> HIDE DEF n, Best
  <2> QED BY <2>2, <2>3
<1>11. share[low] <= SumFunctionOnSet(share, L)
  <2>1. \A l \in L : share[l] \in Nat
    BY <1>1, ShareType DEF L
  <2> HIDE DEF share
  <2> QED BY <1>1, <1>2, <2>1, SumBounds
<1>12. share[low] = Share(h, p, low) /\ Share(h, p, low) \in Nat
  BY <1>1, <1>2, ShareType DEF L
<1>13. Payout(h, p) = SumFunctionOnSet(share, L)
  BY DEF Payout, L
<1>14. Payout(h, p) \in Nat
  BY <1>1, PayoutType
<1> HIDE DEF share
<1> QED BY <1>10, <1>11, <1>12, <1>13, <1>14

\* Equal hands that staked the same share the same layers, of each at most one
\* chip apart.
LEMMA PayoutOfTies ==
  ASSUME NEW Q, Seated(Q), NEW h, Table(Q, h), NEW p \in Active(h), NEW q \in Active(h),
         h.strength[p] = h.strength[q], h.contributed[p] = h.contributed[q]
  PROVE  Payout(h, p) - Payout(h, q) <= Cardinality(Levels(h))
<1> DEFINE L    == Levels(h)
           mine == [l \in L |-> Share(h, p, l)]
           thine == [l \in L |-> Share(h, q, l)]
           one  == [l \in L |-> IF l \in L THEN 1 ELSE 0]
           more == [l \in L |-> Share(h, q, l) + 1]
<1>1. IsFiniteSet(L) /\ p \in Range(Q) /\ q \in Range(Q) /\ Cardinality(L) \in Nat
  BY LevelFacts, FS_CardinalityType
<1>2. \A l \in L : /\ mine[l] \in Int /\ thine[l] \in Int /\ one[l] \in Int
                   /\ more[l] = thine[l] + one[l] /\ more[l] \in Int /\ mine[l] <= more[l]
  <2>1. TAKE l \in L
  <2>2. Share(h, p, l) \in Nat /\ Share(h, q, l) \in Nat
    BY <1>1, ShareType
  <2>3. Share(h, p, l) <= Share(h, q, l) + 1
    <3> DEFINE Best == BestPlayers(h, l)
               part == PotPart(h, l)
               n    == Cardinality(Best)
    <3>1. p \in Best <=> q \in Best
      BY DEF BestPlayers
    <3>2. part \in Nat /\ n \in Nat \ {0}
      BY BestFacts, PotPartType
    <3>3. part \div n \in Nat
      <4> HIDE DEF part, n
      <4> QED BY <3>2
    <3>4. CASE p \notin Best
      BY <2>2, <3>1, <3>4 DEF Share
    <3>5. CASE p \in Best
      <4>1. PICK i \in 0 .. 1 : Share(h, p, l) = part \div n + i
        <5>1. Share(h, p, l)
              = part \div n + (IF Cardinality({a \in Best : SeatOf(h, a) < SeatOf(h, p)}) < part % n
                               THEN 1 ELSE 0)
          BY <3>5 DEF Share
        <5> QED BY <5>1
      <4>2. PICK j \in 0 .. 1 : Share(h, q, l) = part \div n + j
        <5>1. Share(h, q, l)
              = part \div n + (IF Cardinality({a \in Best : SeatOf(h, a) < SeatOf(h, q)}) < part % n
                               THEN 1 ELSE 0)
          BY <3>1, <3>5 DEF Share
        <5> QED BY <5>1
      <4> HIDE DEF part, n
      <4> QED BY <3>3, <4>1, <4>2
    <3> QED BY <3>4, <3>5
  <2> QED BY <2>2, <2>3
<1>3. SumFunctionOnSet(one, L) = 1 * Cardinality(L)
  <2> HIDE DEF L
  <2> QED BY <1>1, SumCount
<1>4. SumFunctionOnSet(more, L) = SumFunctionOnSet(thine, L) + SumFunctionOnSet(one, L)
  <2> HIDE DEF mine, thine, one, more, L
  <2> QED BY <1>1, <1>2, SumAdd
<1>5. SumFunctionOnSet(mine, L) <= SumFunctionOnSet(more, L)
  <2> HIDE DEF mine, thine, one, more, L
  <2> QED BY <1>1, <1>2, SumMonotone
<1>6. SumFunctionOnSet(mine, L) \in Int /\ SumFunctionOnSet(thine, L) \in Int
  <2> HIDE DEF mine, thine, one, more, L
  <2> QED BY <1>1, <1>2, SumType
<1>7. Payout(h, p) = SumFunctionOnSet(mine, L) /\ Payout(h, q) = SumFunctionOnSet(thine, L)
  BY DEF Payout
<1> HIDE DEF mine, thine, one, more
<1> QED BY <1>1, <1>3, <1>4, <1>5, <1>6, <1>7

-----------------------------------------------------------------------------
(* The showdown. *)

\* The called level is what two of the remaining players have both staked, and
\* no two of them have staked more.
LEMMA CalledLevelFacts ==
  ASSUME NEW Q, Seated(Q), NEW h, Table(Q, h), Contested(h)
  PROVE  LET low(p, q) == Min({h.contributed[p], h.contributed[q]})
             called    == CalledLevel(h, Active(h)) IN
         /\ \E p, q \in Active(h) : p # q /\ low(p, q) = called
         /\ \A p, q \in Active(h) : p # q => low(p, q) <= called
<1> DEFINE S == Active(h)
           low(p, q) == Min({h.contributed[p], h.contributed[q]})
           Row(p) == {low(p, q) : q \in S \ {p}}
           M == UNION {Row(p) : p \in S}
           b == SumFunctionOnSet(h.contributed, Range(Q))
<1>1. /\ S \subseteq Range(Q) /\ b \in Nat
      /\ \A p \in Range(Q) : h.contributed[p] \in Nat /\ h.contributed[p] <= b
  BY LevelFacts, SumType, SumBounds
<1> HIDE DEF b
<1>2. \A p, q \in S : low(p, q) \in 0 .. b
  <2>1. TAKE p, q \in S
  <2>2. Min({h.contributed[p], h.contributed[q]})
        = IF h.contributed[p] <= h.contributed[q] THEN h.contributed[p] ELSE h.contributed[q]
    BY <1>1, MinOfPair
  <2> HIDE DEF S
  <2> QED BY <1>1, <2>2
<1>3. CalledLevel(h, S) = Max(M)
  BY DEF CalledLevel
<1>4. \E p, q \in S : p # q
  BY DEF Contested
<1> HIDE DEF S, low
<1>5. \A p, q \in S : p # q => low(p, q) \in Row(p)
  OBVIOUS
<1>6. \A p \in S : Row(p) \subseteq 0 .. b
  BY <1>2
<1>7. \A p \in S : \A v \in Row(p) : \E q \in S : p # q /\ v = low(p, q)
  OBVIOUS
<1> HIDE DEF Row
<1>8. \A p, q \in S : p # q => low(p, q) \in M
  BY <1>5
<1>9. \A v \in M : \E p \in S : v \in Row(p)
  OBVIOUS
<1>10. M \in SUBSET (0 .. b)
  BY <1>6
<1> HIDE DEF M
<1>11. Max(M) \in M /\ \A y \in M : Max(M) >= y
  <2>1. M # {}
    BY <1>4, <1>8
  <2> QED BY <1>1, <1>10, <2>1, MaxOfNaturals
<1>12. \E p, q \in S : p # q /\ low(p, q) = Max(M)
  BY <1>7, <1>9, <1>11
<1>13. \A p, q \in S : p # q => low(p, q) <= Max(M)
  <2>1. TAKE p, q \in S
  <2>2. HAVE p # q
  <2>3. Max(M) >= low(p, q)
    BY <1>8, <1>11, <2>2
  <2>4. low(p, q) \in 0 .. b /\ Max(M) \in 0 .. b
    BY <1>2, <1>10, <1>11
  <2> QED BY <1>1, <2>3, <2>4
<1> QED BY <1>3, <1>12, <1>13, Zenon DEF S, low

\* After the refund the called level is the highest level of the pot, and
\* nobody who is left has staked more.
LEMMA RefundFacts ==
  ASSUME NEW Q, Seated(Q), NEW h, Table(Q, h), Contested(h),
         SumFunctionOnSet(h.contributed, Range(Q)) <= h.pot,
         \A p \in Active(h) : h.contributed[p] > 0,
         NEW r, r = Refund(h)
  PROVE  LET called == CalledLevel(h, Active(h)) IN
         /\ Table(Q, r) /\ r.folded = h.folded /\ r.strength = h.strength /\ Active(r) = Active(h)
         /\ \A p \in Range(Q) : r.stack[p] + r.contributed[p] = h.stack[p] + h.contributed[p]
         /\ called \in Levels(r) /\ \A l \in Levels(r) : l <= called
         /\ \A p \in Active(r) : r.contributed[p] \in 1 .. called
         /\ CalledLevel(r, Active(r)) = called
<1> DEFINE called    == CalledLevel(h, Active(h))
           low(p, q) == Min({h.contributed[p], h.contributed[q]})
<1>1. /\ Table(Q, r) /\ r.folded = h.folded /\ r.strength = h.strength
      /\ \A p \in Range(Q) : r.stack[p] + r.contributed[p] = h.stack[p] + h.contributed[p]
      /\ \A p \in Range(Q) :
           r.contributed[p] = IF p \in Active(h) /\ h.contributed[p] > called
                              THEN called ELSE h.contributed[p]
  BY RefundEffect
<1>2. Active(r) = Active(h) /\ Active(h) \subseteq Range(Q)
  <2>1. Active(r) = Range(Q) \ r.folded /\ Active(h) = Range(Q) \ h.folded
    <3>1. r.players = Q /\ h.players = Q
      BY <1>1 DEF Table
    <3> QED BY <3>1, SeatsOfShape
  <2> QED BY <1>1, <2>1
<1>3. \A p \in Range(Q) : h.contributed[p] \in Nat
  BY DEF Table
<1>4. called \in Nat
  BY CalledLevelType
<1>5. PICK p, q \in Active(h) : p # q /\ low(p, q) = called
  BY CalledLevelFacts
<1>6. low(p, q) = IF h.contributed[p] <= h.contributed[q] THEN h.contributed[p] ELSE h.contributed[q]
  BY <1>2, <1>3, MinOfPair
<1> HIDE DEF called, low
<1>7. called > 0 /\ r.contributed[p] = called /\ r.contributed[q] = called
  BY <1>1, <1>2, <1>3, <1>4, <1>5, <1>6
<1>8. \A x \in Active(r) : r.contributed[x] \in 1 .. called
  <2>1. TAKE x \in Active(r)
  <2>2. x \in Active(h) /\ h.contributed[x] \in Nat /\ h.contributed[x] > 0
    BY <1>2, <1>3
  <2> QED BY <1>1, <1>2, <1>4, <1>7, <2>2
<1>9. called \in Levels(r)
  BY <1>1, <1>2, <1>5, <1>7, LevelFacts
<1>10. \A l \in Levels(r) : l <= called
  BY <1>4, <1>8 DEF Levels
<1>11. CalledLevel(r, Active(r)) = called
  <2> DEFINE after       == CalledLevel(r, Active(r))
             least(x, y) == Min({r.contributed[x], r.contributed[y]})
  <2>1. Contested(r)
    BY <1>2 DEF Contested
  <2>2. /\ \E x, y \in Active(r) : x # y /\ least(x, y) = after
        /\ \A x, y \in Active(r) : x # y => least(x, y) <= after
    BY <1>1, <2>1, CalledLevelFacts
  <2>3. \A x, y \in Active(r) :
          least(x, y) = IF r.contributed[x] <= r.contributed[y] THEN r.contributed[x]
                        ELSE r.contributed[y]
    BY <1>8, MinOfPair
  <2>4. after \in Nat
    BY <1>1, <2>1, CalledLevelType
  <2> HIDE DEF after, least
  <2>5. after <= called
    BY <1>4, <1>8, <2>2, <2>3, <2>4
  <2>6. called <= after
    <3>1. p \in Active(r) /\ q \in Active(r) /\ least(p, q) = called
      BY <1>2, <1>4, <1>5, <1>7, <2>3
    <3> QED BY <1>5, <2>2, <3>1
  <2> QED BY <1>4, <2>4, <2>5, <2>6 DEF after
<1> QED BY <1>1, <1>2, <1>8, <1>9, <1>10, <1>11 DEF called

\* What the payouts of a hand k that began with the stacks d promise.
Accounted(Q, k, d) ==
  LET dead(p) == IF p \in k.folded /\ k.reason = "showdown"
                 THEN Max({0, k.contributed[p] - CalledLevel(k, Active(k))}) ELSE 0
  IN  SumFunctionOnSet(d, Range(Q)) = SumFunctionOnSet(k.stack, Range(Q))
                                    + SumFunctionOnSet([p \in Range(Q) |-> dead(p)], Range(Q))
Fair(Q, k) ==
  \A p \in Range(Q) :
    k.won[p] <= SumFunctionOnSet([q \in Range(Q) |-> Min({k.contributed[p], k.contributed[q]})],
                                 Range(Q))
Deserved(k) ==
  /\ \A p \in k.folded : k.won[p] = 0
  /\ \A p, q \in Active(k) :
       k.strength[q] > k.strength[p] /\ k.contributed[q] >= k.contributed[p] => k.won[p] = 0
  /\ \A p \in Active(k) : (\A q \in Active(k) : k.strength[q] <= k.strength[p]) => k.won[p] > 0
Even(k) ==
  \A p, q \in Active(k) :
    k.strength[p] = k.strength[q] /\ k.contributed[p] = k.contributed[q] =>
      k.won[p] - k.won[q] <= Cardinality(Levels(k))

Divided(Q, k, d) ==
  Accounted(Q, k, d) /\ (k.reason = "showdown" => Fair(Q, k) /\ Deserved(k) /\ Even(k))

\* The showdown divides the pot as promised.
LEMMA ShowdownDivided ==
  ASSUME NEW Q, Seated(Q), NEW h, NEW d, Divisible(Q, h, d),
         NEW s, \A p \in Range(Q) : s[p] \in Nat, NEW k, k = Showdown(h, s)
  PROVE  Divided(Q, k, d) /\ SumFunctionOnSet(k.stack, Range(Q)) <= SumFunctionOnSet(d, Range(Q))
<1>1. /\ Table(Q, h) /\ Contested(h) /\ SumFunctionOnSet(h.contributed, Range(Q)) <= h.pot
      /\ d \in [Range(Q) -> Nat \ {0}]
      /\ \A p \in Range(Q) : h.stack[p] + h.contributed[p] = d[p]
      /\ \A p \in Active(h) : h.contributed[p] > 0
  BY DEF Divisible
<1>2. Over(Q, k) /\ k.reason = "showdown" /\ k.folded = h.folded
  BY <1>1, ShowdownOver
<1>3. PICK e : /\ Table(Q, e) /\ e.folded = h.folded /\ e.pot = h.pot
               /\ e.stack = h.stack /\ e.contributed = h.contributed
               /\ PaidOut(Q, e, k)
  BY <1>1, ShowdownOver
<1>4. PICK r : r = Refund(e)
  OBVIOUS
<1>5. /\ k.contributed = r.contributed /\ k.strength = r.strength
      /\ \A p \in Range(Q) : k.won[p] = Payout(r, p) /\ k.stack[p] = r.stack[p] + Payout(r, p)
  BY <1>3, <1>4 DEF PaidOut
<1>6. Active(e) = Active(h)
  <2>1. e.players = Q /\ h.players = Q
    BY <1>1, <1>3 DEF Table
  <2>2. Active(e) = Range(Q) \ e.folded
    BY ONLY Seated(Q), <2>1, SeatsOfShape
  <2>3. Active(h) = Range(Q) \ h.folded
    BY ONLY Seated(Q), <2>1, SeatsOfShape
  <2> QED BY <1>3, <2>2, <2>3
<1>7. Contested(e)
  BY <1>1, <1>6 DEF Contested
<1>8. /\ SumFunctionOnSet(e.contributed, Range(Q)) <= e.pot
      /\ \A p \in Active(e) : e.contributed[p] > 0
  BY <1>1, <1>3, <1>6
<1> DEFINE called == CalledLevel(e, Active(e))
<1>9. /\ Table(Q, r) /\ r.folded = e.folded /\ Active(r) = Active(e)
      /\ \A p \in Range(Q) : r.stack[p] + r.contributed[p] = e.stack[p] + e.contributed[p]
      /\ called \in Levels(r) /\ \A l \in Levels(r) : l <= called
      /\ \A p \in Active(r) : r.contributed[p] \in 1 .. called
      /\ CalledLevel(r, Active(r)) = called
  BY <1>3, <1>4, <1>7, <1>8, RefundFacts
<1>10. /\ Active(k) = Active(r) /\ CalledLevel(k, Active(k)) = called /\ Levels(k) = Levels(r)
       /\ k.folded = r.folded
  <2>1. Active(k) = Active(r)
    <3>1. k.players = Q /\ r.players = Q /\ k.folded = r.folded
      BY <1>2, <1>3, <1>9 DEF Over, Table
    <3>2. Active(k) = Range(Q) \ k.folded
      BY ONLY Seated(Q), <3>1, SeatsOfShape
    <3>3. Active(r) = Range(Q) \ r.folded
      BY ONLY Seated(Q), <3>1, SeatsOfShape
    <3> QED BY <3>1, <3>2, <3>3
  <2>2. CalledLevel(k, Active(k)) = CalledLevel(r, Active(r))
    <3> DEFINE S      == Active(r)
               one(p) == {Min({k.contributed[p], k.contributed[q]}) : q \in S \ {p}}
               two(p) == {Min({r.contributed[p], r.contributed[q]}) : q \in S \ {p}}
    <3>1. \A p : one(p) = two(p)
      BY <1>5
    <3>2. {one(p) : p \in S} = {two(p) : p \in S}
      <4> HIDE DEF one, two
      <4> QED BY <3>1
    <3>3. /\ CalledLevel(k, S) = Max(UNION {one(p) : p \in S})
          /\ CalledLevel(r, S) = Max(UNION {two(p) : p \in S})
      BY Zenon DEF CalledLevel
    <3> HIDE DEF one, two
    <3> QED BY <2>1, <3>2, <3>3
  <2>3. Levels(k) = Levels(r)
    BY <1>5, <2>1, Zenon DEF Levels
  <2> QED BY <1>2, <1>3, <1>9, <2>1, <2>2, <2>3
<1>11. /\ IsFiniteSet(Range(Q)) /\ Active(r) \subseteq Range(Q) /\ called \in Nat
       /\ \A p \in Range(Q) : r.contributed[p] \in Nat /\ r.stack[p] \in Nat /\ Payout(r, p) \in Nat
  <2>1. \A p \in Range(Q) : Payout(r, p) \in Nat
    BY <1>9, PayoutType
  <2>2. \A p \in Range(Q) : r.stack[p] \in Nat
    BY <1>9 DEF Table
  <2> QED BY <1>9, <2>1, <2>2, LevelFacts
<1> HIDE DEF called
<1>12. /\ Accounted(Q, k, d)
       /\ SumFunctionOnSet(k.stack, Range(Q)) <= SumFunctionOnSet(d, Range(Q))
  <2> DEFINE dead(p) == IF p \in k.folded /\ k.reason = "showdown"
                        THEN Max({0, k.contributed[p] - CalledLevel(k, Active(k))}) ELSE 0
             lost == [p \in Range(Q) |-> dead(p)]
             paid == [p \in Range(Q) |-> Payout(r, p)]
             held == [p \in Range(Q) |-> Min({r.contributed[p], called})]
             left == [p \in Range(Q) |-> r.stack[p] + held[p]]
  <2>1. \A p \in Range(Q) : /\ held[p] \in Int /\ lost[p] \in Nat
                          /\ r.contributed[p] = held[p] + lost[p]
    <3>1. TAKE p \in Range(Q)
    <3>2. Min({r.contributed[p], called}) = IF r.contributed[p] <= called THEN r.contributed[p]
                                            ELSE called
      BY <1>11, MinOfPair
    <3>3. dead(p) = IF p \in r.folded THEN Max({0, r.contributed[p] - called}) ELSE 0
      BY <1>2, <1>5, <1>10
    <3>4. Max({0, r.contributed[p] - called}) = IF 0 >= r.contributed[p] - called THEN 0
                                                ELSE r.contributed[p] - called
      BY <1>11, MaxOfPair
    <3>5. p \notin r.folded => r.contributed[p] <= called
      <4>1. p \notin r.folded => p \in Active(r)
        BY <1>9, SeatsOfShape DEF Table
      <4> QED BY <1>9, <1>11, <4>1
    <3> HIDE DEF dead
    <3> QED BY <1>11, <3>2, <3>3, <3>4, <3>5
  <2>2. SumFunctionOnSet(paid, Range(Q)) = SumFunctionOnSet(held, Range(Q))
    BY <1>9, PayoutsAddUp
  <2>3. SumFunctionOnSet(k.stack, Range(Q))
        = SumFunctionOnSet(r.stack, Range(Q)) + SumFunctionOnSet(paid, Range(Q))
    <3>1. \A p \in Range(Q) : /\ r.stack[p] \in Int /\ paid[p] \in Int
                            /\ k.stack[p] = r.stack[p] + paid[p]
      BY <1>5, <1>11
    <3> HIDE DEF paid
    <3> QED BY <1>11, <3>1, SumAdd
  <2>4. SumFunctionOnSet(left, Range(Q))
        = SumFunctionOnSet(r.stack, Range(Q)) + SumFunctionOnSet(held, Range(Q))
    <3>1. \A p \in Range(Q) : /\ r.stack[p] \in Int /\ held[p] \in Int
                            /\ left[p] = r.stack[p] + held[p]
      <4>1. \A p \in Range(Q) : left[p] = r.stack[p] + held[p]
        OBVIOUS
      <4>2. \A p \in Range(Q) : r.stack[p] \in Int
        BY <1>11
      <4>3. \A p \in Range(Q) : held[p] \in Int
        <5> HIDE DEF held, lost
        <5> QED BY <2>1
      <4> QED BY <4>1, <4>2, <4>3
    <3> HIDE DEF left, held
    <3> QED BY <1>11, <3>1, SumAdd
  <2>5. SumFunctionOnSet(d, Range(Q))
        = SumFunctionOnSet(left, Range(Q)) + SumFunctionOnSet(lost, Range(Q))
    <3>1. \A p \in Range(Q) : /\ left[p] \in Int /\ lost[p] \in Nat
                            /\ d[p] = left[p] + lost[p]
      <4>1. TAKE p \in Range(Q)
      <4>2. d[p] = r.stack[p] + r.contributed[p]
        BY <1>1, <1>3, <1>9
      <4>3. left[p] = r.stack[p] + held[p]
        OBVIOUS
      <4> HIDE DEF left, lost, held
      <4> QED BY <1>11, <2>1, <4>2, <4>3
    <3> HIDE DEF left, lost
    <3> QED BY <1>11, <3>1, SumAdd
  <2> HIDE DEF left, held, paid, lost
  <2>6. SumFunctionOnSet(d, Range(Q))
        = SumFunctionOnSet(k.stack, Range(Q)) + SumFunctionOnSet(lost, Range(Q))
    BY <2>2, <2>3, <2>4, <2>5
  <2>7. SumFunctionOnSet(k.stack, Range(Q)) \in Int /\ SumFunctionOnSet(lost, Range(Q)) \in Nat
    <3>1. \A p \in Range(Q) : k.stack[p] \in Int
      BY <1>5, <1>11
    <3> QED BY <1>11, <2>1, <3>1, SumType
  <2>8. SumFunctionOnSet(k.stack, Range(Q)) <= SumFunctionOnSet(d, Range(Q))
    BY <2>6, <2>7
  <2>9. Accounted(Q, k, d)
    BY <2>6, Zenon DEF Accounted, lost
  <2> QED BY <2>8, <2>9
<1>13. Fair(Q, k)
  <2>1. Table(Q, r) /\ k.contributed = r.contributed /\ \A p \in Range(Q) : k.won[p] = Payout(r, p)
    BY ONLY Seated(Q), <1>5, <1>9
  <2>2. \A p \in Range(Q) :
          Payout(r, p) <=
            SumFunctionOnSet([q \in Range(Q) |-> Min({r.contributed[p], r.contributed[q]})], Range(Q))
    BY ONLY Seated(Q), <2>1, PayoutFair
  <2> QED BY ONLY Seated(Q), <2>1, <2>2 DEF Fair
<1>14. Deserved(k)
  <2>1. \A p \in k.folded : k.won[p] = 0
    <3>1. TAKE p \in k.folded
    <3>2. p \in Range(Q) /\ p \in r.folded
      BY <1>9, <1>10 DEF Table
    <3> QED BY <1>5, <1>9, <3>2, PayoutOfBeaten
  <2>2. ASSUME NEW p \in Active(k), NEW q \in Active(k),
               k.strength[q] > k.strength[p], k.contributed[q] >= k.contributed[p]
        PROVE  k.won[p] = 0
    <3>1. p \in Range(Q) /\ q \in Active(r) /\ r.strength[q] > r.strength[p]
          /\ r.contributed[q] >= r.contributed[p]
      BY <1>5, <1>10, <1>11, <2>2
    <3> QED BY <1>5, <1>9, <3>1, PayoutOfBeaten
  <2>3. ASSUME NEW p \in Active(k), \A q \in Active(k) : k.strength[q] <= k.strength[p]
        PROVE  k.won[p] > 0
    <3>1. /\ p \in Range(Q) /\ p \in Active(r) /\ r.contributed[p] > 0
          /\ \A q \in Active(r) : r.strength[q] <= r.strength[p]
      BY <1>5, <1>9, <1>10, <1>11, <2>3
    <3> QED BY <1>5, <1>9, <3>1, PayoutOfBest
  <2> QED BY <2>1, <2>2, <2>3 DEF Deserved
<1>15. Even(k)
  <2> SUFFICES ASSUME NEW p \in Active(k), NEW q \in Active(k),
                      k.strength[p] = k.strength[q], k.contributed[p] = k.contributed[q]
               PROVE  k.won[p] - k.won[q] <= Cardinality(Levels(k))
    BY DEF Even
  <2>1. /\ p \in Range(Q) /\ q \in Range(Q) /\ p \in Active(r) /\ q \in Active(r)
        /\ r.strength[p] = r.strength[q] /\ r.contributed[p] = r.contributed[q]
    BY <1>5, <1>10, <1>11
  <2> QED BY <1>5, <1>9, <1>10, <2>1, PayoutOfTies
<1> QED BY <1>12, <1>13, <1>14, <1>15 DEF Divided

\* The last player standing takes the whole pot.
LEMMA LastStandingDivided ==
  ASSUME NEW Q, Seated(Q), NEW h, NEW d, Stakes(Q, h, d), NEW w, Active(h) = {w}, NEW k, k = LastStanding(h)
  PROVE  Divided(Q, k, d) /\ SumFunctionOnSet(k.stack, Range(Q)) <= SumFunctionOnSet(d, Range(Q))
<1>1. /\ Shape(Q, h) /\ Table(Q, h) /\ d \in [Range(Q) -> Nat \ {0}]
      /\ \A p \in Range(Q) : h.stack[p] + h.contributed[p] = d[p]
      /\ h.pot = SumFunctionOnSet(h.contributed, Range(Q))
  BY DEF Stakes, Booked, Shape
<1>2. Over(Q, k) /\ k.reason = "others folded"
  BY <1>1, LastStandingOver
<1>3. PICK v \in Range(Q) : /\ k.stack[v] = h.stack[v] + h.pot
                          /\ \A p \in Range(Q) \ {v} : k.stack[p] = h.stack[p]
  <2>1. Active(h) # {} /\ k = LastStanding(h)
    OBVIOUS
  <2>2. TakesPot(Q, h, LastStanding(h))
    BY ONLY Seated(Q), <1>1, <2>1, LastStandingOver
  <2> QED BY <2>1, <2>2 DEF TakesPot
<1>4. /\ IsFiniteSet(Range(Q)) /\ h.pot \in Int
      /\ \A p \in Range(Q) : h.stack[p] \in Int /\ h.contributed[p] \in Int
  BY <1>1, SeatingFacts DEF Table
<1>5. SumFunctionOnSet(k.stack, Range(Q)) = SumFunctionOnSet(h.stack, Range(Q)) + h.pot
  <2>1. \A p \in Range(Q) : h.stack[p] \in Int
    BY <1>4
  <2>2. IsFiniteSet(Range(Q)) /\ v \in Range(Q) /\ h.pot \in Int
    BY <1>4
  <2> QED BY ONLY Seated(Q), <1>3, <2>1, <2>2, SumUpdate
<1>6. SumFunctionOnSet(d, Range(Q))
      = SumFunctionOnSet(h.stack, Range(Q)) + SumFunctionOnSet(h.contributed, Range(Q))
  BY <1>1, <1>4, SumAdd
<1>7. SumFunctionOnSet([p \in Range(Q) |-> 0], Range(Q)) = 0
  BY <1>4, SumZero
<1>8. SumFunctionOnSet(k.stack, Range(Q)) \in Int
  <2>1. k.stack \in [Range(Q) -> Nat]
    BY <1>2 DEF Over, Table
  <2>2. \A p \in Range(Q) : k.stack[p] \in Int
    BY ONLY Seated(Q), <2>1
  <2> QED BY <1>4, <2>2, SumType
<1>9. SumFunctionOnSet(d, Range(Q)) = SumFunctionOnSet(k.stack, Range(Q))
  BY <1>1, <1>5, <1>6
<1>10. Accounted(Q, k, d)
  <2> DEFINE dead(p) == IF p \in k.folded /\ k.reason = "showdown"
                        THEN Max({0, k.contributed[p] - CalledLevel(k, Active(k))}) ELSE 0
  <2>1. \A p : dead(p) = 0
    BY <1>2
  <2> HIDE DEF dead
  <2>2. [p \in Range(Q) |-> dead(p)] = [p \in Range(Q) |-> 0]
    BY <2>1
  <2>3. SumFunctionOnSet(d, Range(Q))
        = SumFunctionOnSet(k.stack, Range(Q)) + SumFunctionOnSet([p \in Range(Q) |-> dead(p)], Range(Q))
    BY <1>7, <1>8, <1>9, <2>2
  <2> QED BY <2>3, Zenon DEF Accounted, dead
<1>11. SumFunctionOnSet(k.stack, Range(Q)) <= SumFunctionOnSet(d, Range(Q))
  BY <1>8, <1>9
<1>12. k.reason # "showdown"
  BY <1>2
<1> QED BY <1>10, <1>11, <1>12 DEF Divided

\* However a hand ends, its pot is divided as promised.
LEMMA EndedDivided ==
  ASSUME NEW Q, Seated(Q), NEW k, NEW d, Ended(Q, k, d)
  PROVE  /\ Over(Q, k) /\ Divided(Q, k, d)
         /\ SumFunctionOnSet(k.stack, Range(Q)) <= SumFunctionOnSet(d, Range(Q))
<1>1. CASE \E h, s : Divisible(Q, h, d) /\ (\A p \in Range(Q) : s[p] \in Nat) /\ k = Showdown(h, s)
  BY <1>1, ShowdownDivided DEF Ended
<1>2. CASE \E h : Stakes(Q, h, d) /\ (\E w : Active(h) = {w}) /\ k = LastStanding(h)
  BY <1>2, LastStandingDivided DEF Ended
<1> QED BY <1>1, <1>2 DEF Ended

\* A hand that is over is not in play.
LEMMA OverNotInPlay ==
  ASSUME NEW Q, Seated(Q), NEW h, NEW d, InPlay(Q, h, d)
  PROVE  ~Over(Q, h) /\ Betting(h)
BY DEF Over, InPlay, Stakes, Shape, Streets, Betting
===============================================================================
