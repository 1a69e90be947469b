------------------------------- MODULE HandEval -------------------------------
(***************************************************************************)
(* The evaluator of internal/domain/hand_eval.go: the value of five cards, *)
(* the comparison of two values, and the best five of up to seven cards.   *)
(* The state is what one player can see of the shuffled deck: the cards    *)
(* dealt so far, two of the player's own and then the board.               *)
(***************************************************************************)
EXTENDS Integers, FiniteSets, FiniteSetsExt

CONSTANT Deck      \* the cards, records of rank (2 to 14) and suit

ASSUME DeckOfCards == Deck \subseteq [rank : 2..14, suit : {"c", "d", "h", "s"}]

Ace == 14

VARIABLE cards     \* the cards dealt to the player and the board

Ranks(h)    == {c.rank : c \in h}
Count(h, r) == Cardinality({c \in h : c.rank = r})

\* The ranks of R in an order: before the i-th there are i - 1 others.
Listed(R, Before(_, _)) ==
  [i \in 1 .. Cardinality(R) |-> CHOOSE r \in R : Cardinality({q \in R : Before(q, r)}) = i - 1]

Descending(R) == Listed(R, LAMBDA a, b : a > b)

\* EvaluateFive's counts: the ranks by how often they occur, then by height.
ByCount(h) ==
  Listed(Ranks(h), LAMBDA a, b : \/ Count(h, a) > Count(h, b)
                                 \/ Count(h, a) = Count(h, b) /\ a > b)

IsFlush(h) == \E s \in {c.suit : c \in h} : \A c \in h : c.suit = s

\* Mutant: the ace of a wheel counts as its highest card.
StraightHighAceHigh(R) ==
  LET Runs == {r \in R : (r - 4) .. r \subseteq R}
  IN  IF Runs # {} THEN Max(Runs)
      ELSE IF {Ace, 2, 3, 4, 5} \subseteq R THEN Ace ELSE 0

\* detectStraight: its highest card, or 0; the wheel is the straight to five.
StraightHigh(R) ==
  LET Runs == {r \in R : (r - 4) .. r \subseteq R}
  IN  IF Runs # {} THEN Max(Runs)
      ELSE IF {Ace, 2, 3, 4, 5} \subseteq R THEN 5 ELSE 0

\* EvaluateFive
EvaluateFive(h) ==
  LET by   == ByCount(h)
      n(k) == Count(h, by[k])
      high == StraightHigh(Ranks(h))
      value(cat, ranks) == [category |-> cat, ranks |-> ranks]
  IN  IF IsFlush(h) /\ high > 0      THEN value(8, <<high>>)
      ELSE IF n(1) = 4               THEN value(7, by)
      ELSE IF n(1) = 3 /\ n(2) = 2   THEN value(6, by)
      ELSE IF IsFlush(h)             THEN value(5, Descending(Ranks(h)))
      ELSE IF high > 0               THEN value(4, <<high>>)
      ELSE IF n(1) = 3               THEN value(3, by)
      ELSE IF n(1) = 2 /\ n(2) = 2   THEN value(2, by)
      ELSE IF n(1) = 2               THEN value(1, by)
      ELSE value(0, Descending(Ranks(h)))

\* CompareHandValue: 1, 0 or -1
Compare(a, b) ==
  LET D == {i \in DOMAIN a.ranks \cap DOMAIN b.ranks : a.ranks[i] # b.ranks[i]}
  IN  IF a.category # b.category THEN (IF a.category > b.category THEN 1 ELSE -1)
      ELSE IF D = {} THEN 0
      ELSE IF a.ranks[Min(D)] > b.ranks[Min(D)] THEN 1 ELSE -1

Hands5(S) == kSubset(5, S)

Better(h, best) == IF Compare(EvaluateFive(h), best) > 0 THEN EvaluateFive(h) ELSE best
Nothing == [category |-> -1, ranks |-> <<>>]

\* Mutant: with seven cards the lowest one is overlooked.
BestOfHigher(S) ==
  LET lowest == CHOOSE c \in S : \A d \in S : d.rank >= c.rank
  IN  FoldSet(Better, Nothing, Hands5(IF Cardinality(S) = 7 THEN S \ {lowest} ELSE S))

\* BestOfSeven: every five of the cards in turn, the first best one kept.
BestOf(S) == FoldSet(Better, Nothing, Hands5(S))

-----------------------------------------------------------------------------
(* The rules of poker, stated without the evaluator. *)

\* The ranks held exactly k times.
Held(h, k) == {r \in Ranks(h) : Count(h, r) = k}

\* A straight: five ranks in a row, an ace counting as one as well.
Tops(h) ==
  {t \in 5..14 : Ranks(h) = {IF r = 1 THEN Ace ELSE r : r \in (t - 4) .. t}}

Kind(h) ==
  CASE IsFlush(h) /\ Tops(h) # {}                    -> 8
    [] Held(h, 4) # {}                               -> 7
    [] Held(h, 3) # {} /\ Held(h, 2) # {}            -> 6
    [] IsFlush(h) /\ Tops(h) = {}                    -> 5
    [] ~IsFlush(h) /\ Tops(h) # {}                   -> 4
    [] Held(h, 3) # {} /\ Held(h, 2) = {}            -> 3
    [] Cardinality(Held(h, 2)) = 2                   -> 2
    [] Cardinality(Held(h, 2)) = 1 /\ Held(h, 3) = {} -> 1
    [] OTHER                                         -> 0

\* What the rules look at in a hand, next to the value the evaluator gives it.
Profile(h) == [kind |-> Kind(h), tops |-> Tops(h), held |-> [k \in 1..4 |-> Held(h, k)],
               value |-> EvaluateFive(h)]

\* a beats b of the same kind: by the top of the straight, or by the highest
\* rank that one holds k times and the other does not, for the greatest such k.
BeatsInKind(a, b) ==
  IF a.kind \in {4, 8} THEN Max(a.tops) > Max(b.tops)
  ELSE \E k \in 1..4 :
         LET mine == a.held[k] \ b.held[k]
             hers == b.held[k] \ a.held[k]
         IN  /\ \A j \in k + 1 .. 4 : a.held[j] = b.held[j]
             /\ mine # {}
             /\ \A r \in hers : r < Max(mine)

Beats(a, b) == a.kind > b.kind \/ (a.kind = b.kind /\ BeatsInKind(a, b))

-----------------------------------------------------------------------------
Init == cards = {}

\* The next card of the shuffled deck (NewDeck, Shuffle): any that is left.
Draw == /\ Cardinality(cards) < 7
        /\ \E c \in Deck \ cards : cards' = cards \cup {c}

Next == Draw
Spec == Init /\ [][Next]_cards

\* The profiles of all hands of five.
AllProfiles == {Profile(h) : h \in Hands5(Deck)}

\* EvaluateFive and CompareHandValue rank any two hands as the rules of poker
\* do: one beats the other, or they tie, exactly when the rules say so.
RanksAsTheRules ==
  Cardinality(cards) = 5 =>
    LET mine == Profile(cards)
    IN  \A other \in AllProfiles :
          Compare(mine.value, other.value) =
            (IF Beats(mine, other) THEN 1 ELSE IF Beats(other, mine) THEN -1 ELSE 0)

\* BestOfSeven: the value it returns is that of five of the cards, and no five
\* of them beat it by the rules.
BestIsUnbeaten ==
  Cardinality(cards) >= 5 =>
    LET best == BestOf(cards)
        all  == {Profile(h) : h \in Hands5(cards)}
    IN  \E p \in all : p.value = best /\ \A q \in all : ~Beats(q, p)
=============================================================================
