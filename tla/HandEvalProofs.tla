---------------------------- MODULE HandEvalProofs ----------------------------
(***************************************************************************)
(* Theorems of HandEval, for any deck of distinct cards: the evaluator     *)
(* ranks hands of five as the rules of poker do, and the best five of any  *)
(* number of cards are beaten by no other five.                            *)
(*                                                                         *)
(* A rank occurs at most four times, once in each suit, and five times in  *)
(* all, so that a hand has one of six shapes (SixShapes).  The shape, with *)
(* flush and straight, is the kind the rules speak of (KindFacts), and the *)
(* lists that are compared for one kind have one shape.  The first place   *)
(* in which two such lists differ then shows the rank that the rules look  *)
(* for (FirstDifference): what is held more often is the same, and of what *)
(* is held as often as there, one hand has a rank above all that only the  *)
(* other has.  For the best of several hands, CompareHandValue has to be   *)
(* transitive (AtMostTransitive), because it is applied to one hand after  *)
(* another.                                                                *)
(***************************************************************************)
EXTENDS HandEval, SumFacts, Sequences

-----------------------------------------------------------------------------
(* Ranks in order. *)

\* How many elements of B pos puts before p.
Preceding(B, pos, p) == Cardinality({q \in B : pos[q] < pos[p]})

\* The elements of a finite set, told apart by pos, one after another: each is
\* preceded by as many as come before it.
LEMMA InOrderFacts ==
  ASSUME NEW B, IsFiniteSet(B), NEW pos \in [B -> Nat],
         \A p, q \in B : pos[p] = pos[q] => p = q,
         NEW s,
         \A i \in 1 .. Cardinality(B) :
           (\E p \in B : Preceding(B, pos, p) = i - 1) => s[i] \in B /\ Preceding(B, pos, s[i]) = i - 1
  PROVE  /\ \A i \in 1 .. Cardinality(B) : s[i] \in B
         /\ \A p \in B : \E i \in 1 .. Cardinality(B) : s[i] = p
         /\ \A i, j \in 1 .. Cardinality(B) : i < j => pos[s[i]] < pos[s[j]]
<1> DEFINE before(p) == {q \in B : pos[q] < pos[p]}
           T(m)      == {p \in B : Cardinality(before(p)) < m}
<1>1. Cardinality(B) \in Nat /\ \A p \in B : Cardinality(before(p)) \in Nat
  <2>1. \A p \in B : before(p) \in SUBSET B
    OBVIOUS
  <2> HIDE DEF before
  <2> QED BY <2>1, FS_Subset, FS_CardinalityType
<1>2. \A m \in Nat : m <= Cardinality(B) => Cardinality(T(m)) = m
  BY RanksCount
<1>3. \A i \in 1 .. Cardinality(B) : \E p \in B : Cardinality(before(p)) = i - 1
  <2>1. SUFFICES ASSUME NEW i \in 1 .. Cardinality(B),
                        \A p \in B : Cardinality(before(p)) # i - 1
                 PROVE  FALSE
    BY Zenon
  <2>2. T(i) = T(i - 1)
    <3>1. \A p \in B : Cardinality(before(p)) < i <=> Cardinality(before(p)) < i - 1
      <4> HIDE DEF before
      <4> QED BY <1>1, <2>1
    <3> HIDE DEF before
    <3> QED BY <3>1
  <2>3. Cardinality(T(i)) = i /\ Cardinality(T(i - 1)) = i - 1
    <3>1. i \in Nat /\ i - 1 \in Nat /\ i <= Cardinality(B) /\ i - 1 <= Cardinality(B)
      BY <1>1
    <3> HIDE DEF T
    <3> QED BY <1>2, <3>1
  <2> HIDE DEF T
  <2> QED BY <2>2, <2>3
<1>4. \A i \in 1 .. Cardinality(B) : s[i] \in B /\ Cardinality(before(s[i])) = i - 1
  <2>1. TAKE i \in 1 .. Cardinality(B)
  <2>2. (\E x \in B : Cardinality(before(x)) = i - 1)
          => s[i] \in B /\ Cardinality(before(s[i])) = i - 1
    BY DEF Preceding
  <2> HIDE DEF before
  <2> QED BY <1>3, <2>2
<1>5. \A p, q \in B : pos[p] <= pos[q] => Cardinality(before(p)) <= Cardinality(before(q))
  <2>1. TAKE p, q \in B
  <2>2. HAVE pos[p] <= pos[q]
  <2>3. before(p) \in SUBSET before(q) /\ before(q) \in SUBSET B
    BY <2>2
  <2> HIDE DEF before
  <2> QED BY <2>3, FS_Subset
<1>6. \A p \in B : \E i \in 1 .. Cardinality(B) : s[i] = p
  <2>1. TAKE p \in B
  <2> DEFINE n == Cardinality(before(p))
  <2>2. n < Cardinality(B)
    <3>1. T(Cardinality(B)) = B
      <4>1. T(Cardinality(B)) \in SUBSET B
        OBVIOUS
      <4>2. Cardinality(T(Cardinality(B))) = Cardinality(B)
        <5>1. Cardinality(B) <= Cardinality(B)
          BY <1>1
        <5> HIDE DEF T
        <5> QED BY <1>1, <1>2, <5>1
      <4> HIDE DEF T
      <4> QED BY <4>1, <4>2, FS_Subset
    <3>2. p \in T(Cardinality(B))
      BY <3>1
    <3> HIDE DEF before
    <3> QED BY <3>2
  <2>3. n + 1 \in 1 .. Cardinality(B)
    <3> HIDE DEF before
    <3> QED BY <1>1, <2>2
  <2>4. s[n + 1] \in B /\ Cardinality(before(s[n + 1])) = n
    <3>1. n \in Nat
      <4> HIDE DEF before
      <4> QED BY <1>1
    <3>2. PICK k : k = n + 1
      OBVIOUS
    <3>3. s[k] \in B /\ Cardinality(before(s[k])) = k - 1
      <4> HIDE DEF before, n
      <4> QED BY <1>4, <2>3, <3>2
    <3>4. k - 1 = n
      <4> HIDE DEF n
      <4> QED BY <3>1, <3>2
    <3> HIDE DEF before, n
    <3> QED BY <3>2, <3>3, <3>4
  <2>5. s[n + 1] = p
    <3>1. ASSUME NEW a \in B, NEW b \in B, pos[a] < pos[b]
          PROVE  Cardinality(before(a)) # Cardinality(before(b))
      <4>1. before(a) \cup {a} \in SUBSET before(b) /\ a \notin before(a)
            /\ before(b) \in SUBSET B /\ before(a) \in SUBSET B
        BY <3>1
      <4> HIDE DEF before
      <4>2. IsFiniteSet(before(a)) /\ IsFiniteSet(before(b))
        BY <4>1, FS_Subset
      <4>3. Cardinality(before(a) \cup {a}) = Cardinality(before(a)) + 1
        BY <4>1, <4>2, FS_AddElement
      <4>4. Cardinality(before(a) \cup {a}) <= Cardinality(before(b))
        BY <4>1, <4>2, FS_Subset
      <4> QED BY <1>1, <4>3, <4>4
    <3>2. PICK x \in B : x = s[n + 1]
      BY <2>4
    <3>3. Cardinality(before(x)) = Cardinality(before(p))
      BY <2>4, <3>2
    <3>4. ~ (pos[x] < pos[p]) /\ ~ (pos[p] < pos[x])
      <4> HIDE DEF before, n
      <4> QED BY <3>1, <3>3
    <3>5. pos[x] \in Nat /\ pos[p] \in Nat
      OBVIOUS
    <3>6. pos[x] = pos[p]
      BY <3>4, <3>5
    <3> QED BY <3>2, <3>6
  <2> QED BY <2>3, <2>5
<1>7. \A i, j \in 1 .. Cardinality(B) : i < j => pos[s[i]] < pos[s[j]]
  <2>1. SUFFICES ASSUME NEW i \in 1 .. Cardinality(B), NEW j \in 1 .. Cardinality(B), i < j,
                        pos[s[j]] <= pos[s[i]]
                 PROVE  FALSE
    <3>1. \A i \in 1 .. Cardinality(B) : pos[s[i]] \in Nat
      BY <1>4
    <3>2. \A i, j \in 1 .. Cardinality(B) : ~ (pos[s[j]] <= pos[s[i]]) => pos[s[i]] < pos[s[j]]
      BY ONLY <3>1
    <3> QED BY <3>2
  <2>2. Cardinality(before(s[j])) <= Cardinality(before(s[i]))
    BY <1>4, <1>5, <2>1
  <2>3. Cardinality(before(s[j])) = j - 1 /\ Cardinality(before(s[i])) = i - 1
    <3> HIDE DEF before
    <3> QED BY <1>4
  <2>4. j - 1 <= i - 1
    <3> HIDE DEF before
    <3> QED BY <2>2, <2>3
  <2> QED BY ONLY <1>1, <2>1, <2>4
<1> HIDE DEF before
<1> QED BY <1>4, <1>6, <1>7

-----------------------------------------------------------------------------
(* A hand of five. *)

Suits == {"c", "d", "h", "s"}

\* There are four suits.
LEMMA FourSuits == IsFiniteSet(Suits) /\ Cardinality(Suits) = 4
<1>1. IsFiniteSet({"c"}) /\ Cardinality({"c"}) = 1
  BY FS_Singleton
<1>2. IsFiniteSet({"c"} \cup {"d"}) /\ Cardinality({"c"} \cup {"d"}) = 2
  BY <1>1, FS_AddElement
<1>3. IsFiniteSet({"c", "d"} \cup {"h"}) /\ Cardinality({"c", "d"} \cup {"h"}) = 3
  <2>1. {"c"} \cup {"d"} = {"c", "d"} /\ "h" \notin {"c", "d"}
    OBVIOUS
  <2> QED BY <1>2, <2>1, FS_AddElement
<1>4. IsFiniteSet({"c", "d", "h"} \cup {"s"}) /\ Cardinality({"c", "d", "h"} \cup {"s"}) = 4
  <2>1. {"c", "d"} \cup {"h"} = {"c", "d", "h"} /\ "s" \notin {"c", "d", "h"}
    OBVIOUS
  <2> QED BY <1>3, <2>1, FS_AddElement
<1>5. {"c", "d", "h"} \cup {"s"} = Suits
  BY DEF Suits
<1> QED BY <1>4, <1>5

\* A card is its rank and its suit.
LEMMA CardFacts ==
  ASSUME NEW c \in Deck
  PROVE  c.rank \in 2 .. 14 /\ c.suit \in Suits /\ c = [rank |-> c.rank, suit |-> c.suit]
<1>1. c \in [rank : 2 .. 14, suit : Suits]
  BY DeckOfCards DEF Suits
<1> QED BY <1>1

\* The deck is finite.
LEMMA DeckFinite == IsFiniteSet(Deck)
<1> DEFINE S == (2 .. 14) \X Suits
           A == [rank : 2 .. 14, suit : Suits]
           f == [x \in S |-> [rank |-> x[1], suit |-> x[2]]]
<1>1. IsFiniteSet(S)
  <2>1. IsFiniteSet(2 .. 14)
    BY FS_BoundedSetOfNaturals
  <2> QED BY <2>1, FourSuits, FS_Product
<1>2. f \in Surjection(S, A)
  <2>1. f \in [S -> A]
    OBVIOUS
  <2>2. \A a \in A : \E x \in S : f[x] = a
    <3>1. TAKE a \in A
    <3>2. a.rank \in 2 .. 14 /\ a.suit \in Suits /\ a = [rank |-> a.rank, suit |-> a.suit]
      OBVIOUS
    <3>3. <<a.rank, a.suit>> \in S
      BY <3>2
    <3>4. f[<<a.rank, a.suit>>] = a
      BY <3>2, <3>3
    <3> QED BY <3>3, <3>4
  <2> HIDE DEF f, S, A
  <2> QED BY <2>1, <2>2 DEF Surjection
<1>3. IsFiniteSet(A)
  <2> HIDE DEF f, S, A
  <2> QED BY <1>1, <1>2, FS_Surjection
<1>4. Deck \in SUBSET A
  BY DeckOfCards DEF Suits
<1> QED BY <1>3, <1>4, FS_Subset

\* Five cards: their ranks, and how often a rank may occur.
LEMMA FiveFacts ==
  ASSUME NEW h \in Hands5(Deck)
  PROVE  /\ h \subseteq Deck /\ IsFiniteSet(h) /\ Cardinality(h) = 5
         /\ Ranks(h) \subseteq 2 .. 14 /\ IsFiniteSet(Ranks(h))
         /\ Cardinality(Ranks(h)) \in 1 .. 5
         /\ \A r \in Ranks(h) : Count(h, r) \in 1 .. 4
<1>1. h \subseteq Deck /\ IsFiniteSet(h) /\ Cardinality(h) = 5
  BY DeckFinite, FS_Subset DEF Hands5, kSubset
<1>2. Ranks(h) \subseteq 2 .. 14
  BY <1>1, CardFacts DEF Ranks
<1>3. IsFiniteSet(Ranks(h)) /\ Cardinality(Ranks(h)) <= 5
  <2> DEFINE f == [c \in h |-> c.rank]
  <2>1. f \in Surjection(h, Ranks(h))
    BY DEF Surjection, Ranks
  <2> HIDE DEF f
  <2> QED BY <1>1, <2>1, FS_Surjection
<1>4. Cardinality(Ranks(h)) \in 1 .. 5
  <2>1. h # {}
    BY <1>1, FS_EmptySet
  <2>2. Ranks(h) # {}
    BY <2>1 DEF Ranks
  <2>3. Cardinality(Ranks(h)) \in Nat /\ Cardinality(Ranks(h)) # 0
    BY <1>3, <2>2, FS_CardinalityType, FS_EmptySet
  <2> QED BY <1>3, <2>3
<1>5. \A r \in Ranks(h) : Count(h, r) \in 1 .. 4
  <2>1. TAKE r \in Ranks(h)
  <2> DEFINE X == {c \in h : c.rank = r}
             f == [c \in X |-> c.suit]
  <2>2. IsFiniteSet(X) /\ X # {}
    <3>1. X \in SUBSET h
      OBVIOUS
    <3>2. X # {}
      BY DEF Ranks
    <3> QED BY <1>1, <3>1, <3>2, FS_Subset
  <2>3. f \in Injection(X, Suits)
    <3>1. f \in [X -> Suits]
      BY <1>1, CardFacts
    <3>2. \A c, d \in X : c.suit = d.suit => c = d
      <4>1. TAKE c, d \in X
      <4>2. c \in Deck /\ d \in Deck /\ c.rank = r /\ d.rank = r
        BY <1>1
      <4> HIDE DEF X
      <4>3. c = [rank |-> r, suit |-> c.suit] /\ d = [rank |-> r, suit |-> d.suit]
        BY <4>2, CardFacts
      <4> QED BY <4>3
    <3>3. \A c, d \in X : f[c] = f[d] => c = d
      BY <3>2
    <3> HIDE DEF f, X
    <3> QED BY <3>1, <3>3 DEF Injection, IsInjective
  <2>4. Cardinality(X) <= 4
    <3> HIDE DEF f, X
    <3> QED BY <2>3, FourSuits, FS_Injection
  <2>5. Cardinality(X) \in Nat /\ Cardinality(X) # 0
    <3> HIDE DEF f, X
    <3> QED BY <2>2, FS_CardinalityType, FS_EmptySet
  <2>6. Count(h, r) = Cardinality(X)
    BY DEF Count
  <2> HIDE DEF f, X
  <2> QED BY <2>4, <2>5, <2>6
<1> QED BY <1>1, <1>2, <1>3, <1>4, <1>5

\* The cards of one more rank.
LEMMA OneMoreRank ==
  ASSUME NEW h, IsFiniteSet(h), NEW Q, NEW r, r \notin Q
  PROVE  /\ Cardinality({c \in h : c.rank \in Q \cup {r}}) =
              Cardinality({c \in h : c.rank \in Q}) + Count(h, r)
         /\ Cardinality({c \in h : c.rank \in Q}) \in Nat
<1> DEFINE A == {c \in h : c.rank \in Q}
           B == {c \in h : c.rank = r}
<1>1. {c \in h : c.rank \in Q \cup {r}} = A \cup B /\ A \cap B = {}
  OBVIOUS
<1>2. A \in SUBSET h /\ B \in SUBSET h
  OBVIOUS
<1> HIDE DEF A, B
<1>3. IsFiniteSet(A) /\ IsFiniteSet(B) /\ Cardinality(A) \in Nat /\ Cardinality(B) \in Nat
  BY <1>2, FS_Subset, FS_CardinalityType
<1>4. Cardinality(A \cup B) = Cardinality(A) + Cardinality(B)
  <2>1. Cardinality(A \cup B) = Cardinality(A) + Cardinality(B) - Cardinality(A \cap B)
    BY <1>3, FS_Union
  <2>2. Cardinality(A \cap B) = 0
    BY <1>1, FS_EmptySet
  <2> QED BY <1>3, <2>1, <2>2
<1> QED BY <1>1, <1>3, <1>4 DEF A, B, Count

\* s lists the ranks of h, the more frequent first and then the higher.
Lists(s, h) ==
  LET n == Cardinality(Ranks(h)) IN
  /\ n \in 1 .. 5 /\ s \in [1 .. n -> Ranks(h)]
  /\ \A r \in Ranks(h) : \E i \in 1 .. n : s[i] = r
  /\ \A i, j \in 1 .. n : i < j =>
       \/ Count(h, s[i]) > Count(h, s[j])
       \/ Count(h, s[i]) = Count(h, s[j]) /\ s[i] > s[j]

\* ByCount does.
LEMMA ByCountFacts ==
  ASSUME NEW h \in Hands5(Deck)
  PROVE  Lists(ByCount(h), h)
<1> DEFINE R        == Ranks(h)
           n        == Cardinality(R)
           low(r)   == 15 * (5 - Count(h, r)) + (14 - r)
           pos      == [r \in R |-> low(r)]
           Ahead(q, r) == \/ Count(h, q) > Count(h, r)
                          \/ Count(h, q) = Count(h, r) /\ q > r
<1>1. n \in 1 .. 5 /\ IsFiniteSet(R) /\ R \subseteq 2 .. 14 /\ \A r \in R : Count(h, r) \in 1 .. 4
  BY FiveFacts
<1> HIDE DEF R, n
<1>2. \A q, r \in R : /\ q \in 2 .. 14 /\ Count(h, q) \in 1 .. 4 /\ low(q) \in Nat
                      /\ low(q) < low(r) <=> Ahead(q, r)
                      /\ low(q) = low(r) => q = r
  BY <1>1
<1> HIDE DEF low, Ahead
<1>3. pos \in [R -> Nat] /\ \A q, r \in R : pos[q] = pos[r] => q = r
  BY <1>2
<1>4. \A q, r \in R : pos[q] < pos[r] <=> Ahead(q, r)
  BY <1>2
<1> HIDE DEF pos
<1>5. \A r \in R : {q \in R : Ahead(q, r)} = {q \in R : pos[q] < pos[r]}
  BY <1>4
<1>6. ByCount(h) = [i \in 1 .. Cardinality(R) |->
                      CHOOSE r \in R : Cardinality({q \in R : Ahead(q, r)}) = i - 1]
  BY DEF ByCount, Listed, R, Ahead
<1>7. \A i : (CHOOSE r \in R : Cardinality({q \in R : Ahead(q, r)}) = i - 1)
           = (CHOOSE r \in R : Cardinality({q \in R : pos[q] < pos[r]}) = i - 1)
  <2>1. TAKE i
  <2>2. \A r : r \in R /\ Cardinality({q \in R : Ahead(q, r)}) = i - 1
           <=> r \in R /\ Cardinality({q \in R : pos[q] < pos[r]}) = i - 1
    BY <1>5, Zenon
  <2> QED BY <2>2
<1>8. ByCount(h) = [i \in 1 .. Cardinality(R) |->
                      CHOOSE r \in R : Cardinality({q \in R : pos[q] < pos[r]}) = i - 1]
  BY <1>6, <1>7, Zenon
<1>9. PICK s : s = ByCount(h)
  OBVIOUS
<1>10. /\ s \in [1 .. n -> R] /\ \A p \in R : \E i \in 1 .. n : s[i] = p
       /\ \A i, j \in 1 .. n : i < j => pos[s[i]] < pos[s[j]]
  <2>1. DOMAIN s = 1 .. Cardinality(R) /\ s = [i \in DOMAIN s |-> s[i]]
    BY <1>8, <1>9
  <2>2. \A i \in 1 .. Cardinality(R) :
          s[i] = CHOOSE r \in R : Cardinality({q \in R : pos[q] < pos[r]}) = i - 1
    BY <1>8, <1>9
  <2>3. ASSUME NEW i \in 1 .. Cardinality(R),
               \E r \in R : Cardinality({q \in R : pos[q] < pos[r]}) = i - 1
        PROVE  s[i] \in R /\ Cardinality({q \in R : pos[q] < pos[s[i]]}) = i - 1
    BY <2>2, <2>3, Zenon
  <2>4. /\ \A i \in 1 .. Cardinality(R) : s[i] \in R
        /\ \A p \in R : \E i \in 1 .. Cardinality(R) : s[i] = p
        /\ \A i, j \in 1 .. Cardinality(R) : i < j => pos[s[i]] < pos[s[j]]
    <3>1. IsFiniteSet(R) /\ pos \in [R -> Nat]
      BY <1>1, <1>3
    <3>2. \A p, q \in R : pos[p] = pos[q] => p = q
      BY <1>3
    <3>3. \A i \in 1 .. Cardinality(R) :
            (\E r \in R : Preceding(R, pos, r) = i - 1) => s[i] \in R /\ Preceding(R, pos, s[i]) = i - 1
      BY <2>3, Zenon DEF Preceding
    <3> QED BY ONLY <3>1, <3>2, <3>3, InOrderFacts
  <2> QED BY <2>1, <2>4 DEF n
<1>11. \A i, j \in 1 .. n : i < j => Ahead(s[i], s[j])
  BY <1>4, <1>10
<1>12. Lists(s, h)
  BY ONLY <1>1, <1>10, <1>11 DEF Lists, n, R, Ahead
<1> QED BY <1>9, <1>12

\* s lists the ranks of h, and how often each occurs is told by c.
Shaped(s, h, c) == DOMAIN s = 1 .. Len(c) /\ \A i \in 1 .. Len(c) : Count(h, s[i]) = c[i]

Ones   == <<1, 1, 1, 1, 1>>
Shapes == {<<4, 1>>, <<3, 2>>, <<3, 1, 1>>, <<2, 2, 1>>, <<2, 1, 1, 1>>, Ones}

\* A hand of five has one of six shapes: there are five cards, and at most four
\* of a rank.
LEMMA SixShapes ==
  ASSUME NEW h \in Hands5(Deck), NEW s, Lists(s, h)
  PROVE  \E c \in Shapes : Shaped(s, h, c)
<1> DEFINE n    == Cardinality(Ranks(h))
           f(i) == Count(h, s[i])
           S(k) == {s[i] : i \in 1 .. k}
           A(k) == Cardinality({c \in h : c.rank \in S(k)})
<1>1. /\ n \in 1 .. 5 /\ s \in [1 .. n -> Ranks(h)]
      /\ \A r \in Ranks(h) : \E i \in 1 .. n : s[i] = r
      /\ \A i, j \in 1 .. n : i < j => f(i) > f(j) \/ (f(i) = f(j) /\ s[i] > s[j])
  BY DEF Lists
<1>2. \A i \in 1 .. n : s[i] \in Ranks(h) /\ s[i] \in 2 .. 14 /\ f(i) \in 1 .. 4
  BY <1>1, FiveFacts
<1> HIDE DEF n
<1>3. A(0) = 0
  <2>1. {c \in h : c.rank \in S(0)} = {}
    OBVIOUS
  <2> QED BY <2>1, FS_EmptySet
<1>4. \A k \in 0 .. n - 1 : A(k + 1) = A(k) + f(k + 1) /\ A(k) \in Nat
  <2>1. TAKE k \in 0 .. n - 1
  <2>2. S(k + 1) = S(k) \cup {s[k + 1]}
    <3>1. 1 .. k + 1 = (1 .. k) \cup {k + 1}
      BY <1>1
    <3> QED BY <3>1
  <2>3. s[k + 1] \notin S(k)
    <3>1. SUFFICES ASSUME NEW i \in 1 .. k, s[i] = s[k + 1] PROVE FALSE
      OBVIOUS
    <3>2. i \in 1 .. n /\ k + 1 \in 1 .. n /\ i < k + 1
      BY <1>1
    <3>3. f(i) > f(k + 1) \/ (f(i) = f(k + 1) /\ s[i] > s[k + 1])
      <4> HIDE DEF f
      <4> QED BY <1>1, <3>2
    <3> QED BY <1>2, <3>1, <3>2, <3>3
  <2>4. IsFiniteSet(h)
    BY FiveFacts
  <2>5. /\ Cardinality({c \in h : c.rank \in S(k) \cup {s[k + 1]}}) = A(k) + f(k + 1)
        /\ A(k) \in Nat
    <3> HIDE DEF S
    <3> QED BY <2>3, <2>4, OneMoreRank
  <2> HIDE DEF S
  <2> QED BY <2>2, <2>5
<1>5. A(n) = 5
  <2>1. S(n) = Ranks(h)
    BY <1>1, <1>2
  <2>2. {c \in h : c.rank \in S(n)} = h
    <3> HIDE DEF S
    <3> QED BY <2>1 DEF Ranks
  <2> HIDE DEF S
  <2> QED BY <2>2, FiveFacts
<1>6. \A i, j \in 1 .. n : i < j => f(i) >= f(j)
  BY <1>1, <1>2
<1> HIDE DEF A, f
<1>7. CASE n = 1
  <2>1. A(1) = f(1)
    <3>1. A(0 + 1) = A(0) + f(0 + 1)
      BY <1>4, <1>7
    <3> QED BY <1>2, <1>3, <1>7, <3>1
  <2> QED BY <1>2, <1>5, <1>7, <2>1
<1>8. CASE n = 2
  <2>1. A(0 + 1) = A(0) + f(0 + 1) /\ A(1 + 1) = A(1) + f(1 + 1)
    BY <1>4, <1>8
  <2>2. f(1) + f(2) = 5 /\ f(1) >= f(2) /\ f(1) \in 1 .. 4 /\ f(2) \in 1 .. 4
    BY <1>2, <1>3, <1>5, <1>6, <1>8, <2>1
  <2>3. (f(1) = 4 /\ f(2) = 1) \/ (f(1) = 3 /\ f(2) = 2)
    BY ONLY <2>2
  <2>4. DOMAIN s = 1 .. 2
    BY <1>1, <1>8
  <2>5. Shaped(s, h, <<4, 1>>) \/ Shaped(s, h, <<3, 2>>)
    BY <2>3, <2>4 DEF Shaped, f
  <2> QED BY <2>5 DEF Shapes
<1>9. CASE n = 3
  <2>1. A(0 + 1) = A(0) + f(0 + 1) /\ A(1 + 1) = A(1) + f(1 + 1) /\ A(2 + 1) = A(2) + f(2 + 1)
    BY <1>4, <1>9
  <2>2. /\ f(1) + f(2) + f(3) = 5 /\ f(1) >= f(2) /\ f(2) >= f(3)
        /\ f(1) \in 1 .. 4 /\ f(2) \in 1 .. 4 /\ f(3) \in 1 .. 4
    BY <1>2, <1>3, <1>5, <1>6, <1>9, <2>1
  <2>3. (f(1) = 3 /\ f(2) = 1 /\ f(3) = 1) \/ (f(1) = 2 /\ f(2) = 2 /\ f(3) = 1)
    BY ONLY <2>2
  <2>4. DOMAIN s = 1 .. 3
    BY <1>1, <1>9
  <2>5. Shaped(s, h, <<3, 1, 1>>) \/ Shaped(s, h, <<2, 2, 1>>)
    BY <2>3, <2>4 DEF Shaped, f
  <2> QED BY <2>5 DEF Shapes
<1>10. CASE n = 4
  <2>1. /\ A(0 + 1) = A(0) + f(0 + 1) /\ A(1 + 1) = A(1) + f(1 + 1)
        /\ A(2 + 1) = A(2) + f(2 + 1) /\ A(3 + 1) = A(3) + f(3 + 1)
    BY <1>4, <1>10
  <2>2. /\ f(1) + f(2) + f(3) + f(4) = 5 /\ f(1) >= f(2) /\ f(2) >= f(3) /\ f(3) >= f(4)
        /\ f(1) \in 1 .. 4 /\ f(2) \in 1 .. 4 /\ f(3) \in 1 .. 4 /\ f(4) \in 1 .. 4
    BY <1>2, <1>3, <1>5, <1>6, <1>10, <2>1
  <2>3. f(1) = 2 /\ f(2) = 1 /\ f(3) = 1 /\ f(4) = 1
    BY ONLY <2>2
  <2>4. DOMAIN s = 1 .. 4
    BY <1>1, <1>10
  <2>5. Shaped(s, h, <<2, 1, 1, 1>>)
    BY <2>3, <2>4 DEF Shaped, f
  <2> QED BY <2>5 DEF Shapes
<1>11. CASE n = 5
  <2>1. /\ A(0 + 1) = A(0) + f(0 + 1) /\ A(1 + 1) = A(1) + f(1 + 1)
        /\ A(2 + 1) = A(2) + f(2 + 1) /\ A(3 + 1) = A(3) + f(3 + 1) /\ A(4 + 1) = A(4) + f(4 + 1)
    BY <1>4, <1>11
  <2>2. /\ f(1) + f(2) + f(3) + f(4) + f(5) = 5 /\ f(5) \in 1 .. 4
        /\ f(1) \in 1 .. 4 /\ f(2) \in 1 .. 4 /\ f(3) \in 1 .. 4 /\ f(4) \in 1 .. 4
    BY <1>2, <1>3, <1>5, <1>11, <2>1
  <2>3. f(1) = 1 /\ f(2) = 1 /\ f(3) = 1 /\ f(4) = 1 /\ f(5) = 1
    BY ONLY <2>2
  <2>4. DOMAIN s = 1 .. 5
    BY <1>1, <1>11
  <2>5. Shaped(s, h, Ones)
    BY <2>3, <2>4 DEF Shaped, f, Ones
  <2> QED BY <2>5 DEF Shapes
<1> QED BY <1>1, <1>7, <1>8, <1>9, <1>10, <1>11

\* A hand with five ranks, or with no pair, holds each of them once.
LEMMA OnesFacts ==
  ASSUME NEW h \in Hands5(Deck), NEW s, Lists(s, h),
         Cardinality(Ranks(h)) = 5 \/ \A r \in Ranks(h) : Count(h, r) = 1
  PROVE  Shaped(s, h, Ones)
<1>1. PICK c \in Shapes : Shaped(s, h, c)
  BY SixShapes
<1>2. /\ DOMAIN s = 1 .. Cardinality(Ranks(h)) /\ Cardinality(Ranks(h)) \in 1 .. 5
      /\ s[1] \in Ranks(h)
  BY DEF Lists
<1>3. CASE Cardinality(Ranks(h)) = 5
  <2>1. Len(c) = 5
    <3>1. PICK n \in Nat : n = Len(c)
      BY DEF Shapes, Ones
    <3>2. 1 .. n = 1 .. 5
      BY <1>1, <1>2, <1>3, <3>1 DEF Shaped
    <3>3. n = 5
      BY ONLY <3>2, n \in Nat
    <3> QED BY <3>1, <3>3
  <2>2. c = Ones
    BY <2>1 DEF Shapes, Ones
  <2> QED BY <1>1, <2>2
<1>4. CASE \A r \in Ranks(h) : Count(h, r) = 1
  <2>1. c[1] = 1
    <3>1. 1 \in 1 .. Len(c)
      BY DEF Shapes, Ones
    <3> QED BY <1>1, <1>2, <1>4, <3>1 DEF Shaped
  <2>2. c = Ones
    BY <2>1 DEF Shapes, Ones
  <2> QED BY <1>1, <2>2
<1> QED BY <1>3, <1>4

\* A flush holds each rank once: there is one card of a rank in a suit.
LEMMA FlushFacts ==
  ASSUME NEW h \in Hands5(Deck), IsFlush(h)
  PROVE  \A r \in Ranks(h) : Count(h, r) = 1
<1>1. TAKE r \in Ranks(h)
<1>2. PICK x \in h : x.rank = r
  BY DEF Ranks
<1>3. PICK suit : \A c \in h : c.suit = suit
  BY DEF IsFlush
<1>4. \A c \in h : c \in Deck
  BY FiveFacts
<1>5. \A c \in {c \in h : c.rank = r} : c = x
  <2>1. TAKE c \in {c \in h : c.rank = r}
  <2>2. c = [rank |-> r, suit |-> suit] /\ x = [rank |-> r, suit |-> suit]
    BY <1>2, <1>3, <1>4, CardFacts
  <2> QED BY <2>2
<1>6. {c \in h : c.rank = r} = {x}
  BY <1>2, <1>5
<1> QED BY <1>6, FS_Singleton DEF Count

Wheel == {Ace, 2, 3, 4, 5}

\* Five ranks in a row are five ranks.
LEMMA RunsOfFive ==
  /\ \A t \in Nat : IsFiniteSet((t - 4) .. t) /\ Cardinality((t - 4) .. t) = 5
  /\ IsFiniteSet(Wheel) /\ Cardinality(Wheel) = 5
<1>1. ASSUME NEW t \in Nat PROVE IsFiniteSet((t - 4) .. t) /\ Cardinality((t - 4) .. t) = 5
  <2>1. PICK a \in Int : a = t - 4
    OBVIOUS
  <2>2. IsFiniteSet(a .. t) /\ Cardinality(a .. t) = t - a + 1
    BY <2>1, FS_Interval
  <2> QED BY <2>1, <2>2
<1>2. IsFiniteSet(Wheel) /\ Cardinality(Wheel) = 5
  <2>1. PICK a \in Int, b \in Int : a = 2 /\ b = 5
    OBVIOUS
  <2>2. IsFiniteSet(a .. b) /\ Cardinality(a .. b) = 4
    <3>1. IsFiniteSet(a .. b) /\ Cardinality(a .. b) = IF a > b THEN 0 ELSE b - a + 1
      BY ONLY FS_Interval
    <3>2. ~ (a > b) /\ b - a + 1 = 4
      BY <2>1
    <3> QED BY ONLY <3>1, <3>2
  <2>3. Wheel = (a .. b) \cup {Ace} /\ Ace \notin a .. b
    BY <2>1 DEF Wheel, Ace
  <2>4. IsFiniteSet((a .. b) \cup {Ace}) /\ Cardinality((a .. b) \cup {Ace}) = 4 + 1
    BY ONLY <2>2, <2>3, FS_AddElement
  <2> QED BY <2>3, <2>4
<1> QED BY <1>1, <1>2

\* The five ranks of a straight with a given top.
LEMMA TopsFacts ==
  ASSUME NEW h
  PROVE  \A t : t \in Tops(h) <=> \/ t \in 6 .. 14 /\ Ranks(h) = (t - 4) .. t
                                  \/ t = 5 /\ Ranks(h) = Wheel
<1>1. \A t \in 6 .. 14 : {IF r = 1 THEN Ace ELSE r : r \in (t - 4) .. t} = (t - 4) .. t
  OBVIOUS
<1>2. {IF r = 1 THEN Ace ELSE r : r \in (5 - 4) .. 5} = Wheel
  BY DEF Wheel, Ace
<1>3. 5 .. 14 = {5} \cup (6 .. 14)
  OBVIOUS
<1> QED BY <1>1, <1>2, <1>3 DEF Tops

\* detectStraight finds the straights.
LEMMA StraightFacts ==
  ASSUME NEW h \in Hands5(Deck)
  PROVE  /\ Tops(h) = {} => StraightHigh(Ranks(h)) = 0
         /\ \A t \in Tops(h) : /\ Tops(h) = {t} /\ Max(Tops(h)) = t /\ t \in 5 .. 14
                               /\ StraightHigh(Ranks(h)) = t /\ Cardinality(Ranks(h)) = 5
<1> DEFINE R    == Ranks(h)
           Runs == {r \in R : (r - 4) .. r \subseteq R}
<1>1. R \subseteq 2 .. 14 /\ IsFiniteSet(R) /\ Cardinality(R) \in 1 .. 5
  BY FiveFacts
<1>2. StraightHigh(R) = IF Runs # {} THEN Max(Runs) ELSE IF Wheel \subseteq R THEN 5 ELSE 0
  BY DEF StraightHigh, Wheel
<1>3. \A t : t \in Tops(h) <=> (t \in 6 .. 14 /\ R = (t - 4) .. t) \/ (t = 5 /\ R = Wheel)
  BY TopsFacts
<1>4. \A S : IsFiniteSet(S) /\ Cardinality(S) = 5 /\ S \subseteq R => S = R
  <2>1. TAKE S
  <2>2. HAVE IsFiniteSet(S) /\ Cardinality(S) = 5 /\ S \subseteq R
  <2>3. S \in SUBSET R /\ Cardinality(S) <= Cardinality(R) /\ (Cardinality(R) = Cardinality(S) => R = S)
    <3> HIDE DEF R
    <3> QED BY <1>1, <2>2, FS_Subset
  <2> QED BY <1>1, <2>2, <2>3
<1>5. \A x : Max({x}) = x
  <2>1. TAKE x
  <2>2. \A y \in {x} : (\A z \in {x} : y >= z) => y = x
    OBVIOUS
  <2> QED BY DEF Max
<1> HIDE DEF R
<1>6. ASSUME Tops(h) = {} PROVE StraightHigh(R) = 0
  <2>1. Runs = {}
    <3>1. SUFFICES ASSUME NEW r \in R, (r - 4) .. r \subseteq R PROVE FALSE
      OBVIOUS
    <3>2. r \in 2 .. 14 /\ r - 4 \in (r - 4) .. r
      BY <1>1
    <3>3. r - 4 \in R
      BY <3>1, <3>2
    <3>4. r \in 6 .. 14
      BY <1>1, <3>2, <3>3
    <3>5. R = (r - 4) .. r
      BY <1>4, <3>1, <3>2, RunsOfFive
    <3> QED BY <1>3, <1>6, <3>4, <3>5
  <2>2. ~ (Wheel \subseteq R)
    BY <1>3, <1>4, <1>6, RunsOfFive
  <2> HIDE DEF Runs
  <2> QED BY <1>2, <2>1, <2>2
<1>7. ASSUME NEW t \in Tops(h), t \in 6 .. 14, R = (t - 4) .. t
      PROVE  Tops(h) = {t} /\ Max(Tops(h)) = t /\ StraightHigh(R) = t /\ Cardinality(R) = 5
  <2>1. Runs = {t}
    BY <1>7
  <2>2. \A u \in Tops(h) : u = t
    <3>1. TAKE u \in Tops(h)
    <3>2. CASE u \in 6 .. 14 /\ R = (u - 4) .. u
      <4>1. t \in (u - 4) .. u /\ u \in (t - 4) .. t
        BY <1>7, <3>2
      <4> QED BY <1>7, <3>2, <4>1
    <3>3. CASE u = 5 /\ R = Wheel
      <4>1. 2 \in R /\ Ace \in R
        BY <3>3 DEF Wheel
      <4> QED BY <1>7, <4>1 DEF Ace
    <3> QED BY <1>3, <3>2, <3>3
  <2>3. Tops(h) = {t}
    BY <2>2
  <2> HIDE DEF Runs
  <2>4. Max(Tops(h)) = t /\ Max(Runs) = t
    BY <1>5, <2>1, <2>3
  <2> QED BY <1>2, <1>7, <2>1, <2>3, <2>4, RunsOfFive
<1>8. ASSUME NEW t \in Tops(h), t = 5, R = Wheel
      PROVE  Tops(h) = {t} /\ Max(Tops(h)) = t /\ StraightHigh(R) = t /\ Cardinality(R) = 5
  <2>1. Runs = {}
    <3>1. SUFFICES ASSUME NEW r \in Wheel, (r - 4) .. r \subseteq Wheel PROVE FALSE
      BY <1>8
    <3>2. r \in 2 .. 14
      BY DEF Wheel, Ace
    <3>3. r - 4 \in (r - 4) .. r /\ r - 1 \in (r - 4) .. r
      BY <3>2
    <3>4. r - 4 \in Wheel /\ r - 1 \in Wheel
      BY <3>1, <3>3
    <3> QED BY <3>2, <3>4 DEF Wheel, Ace
  <2>2. \A u \in Tops(h) : u = t
    <3>1. TAKE u \in Tops(h)
    <3>2. CASE u \in 6 .. 14 /\ R = (u - 4) .. u
      <4>1. 2 \in R /\ Ace \in R
        BY <1>8 DEF Wheel
      <4> QED BY <3>2, <4>1 DEF Ace
    <3> QED BY <1>3, <1>8, <3>2
  <2>3. Tops(h) = {t}
    BY <2>2
  <2>4. Max(Tops(h)) = t
    BY <1>5, <2>3
  <2> HIDE DEF Runs
  <2> QED BY <1>2, <1>8, <2>1, <2>3, <2>4, RunsOfFive
<1>9. ASSUME NEW t \in Tops(h)
      PROVE  /\ Tops(h) = {t} /\ Max(Tops(h)) = t /\ t \in 5 .. 14
             /\ StraightHigh(R) = t /\ Cardinality(R) = 5
  BY <1>3, <1>7, <1>8
<1> QED BY <1>6, <1>9 DEF R

\* The ranks held k times are listed where the shape says k.
LEMMA HeldFacts ==
  ASSUME NEW h, NEW s, Lists(s, h), NEW c \in Shapes, Shaped(s, h, c), NEW k
  PROVE  Held(h, k) = {s[i] : i \in {j \in 1 .. Len(c) : c[j] = k}}
<1>1. /\ DOMAIN s = 1 .. Len(c) /\ \A i \in 1 .. Len(c) : Count(h, s[i]) = c[i]
      /\ \A i \in 1 .. Len(c) : s[i] \in Ranks(h)
      /\ \A r \in Ranks(h) : \E i \in 1 .. Len(c) : s[i] = r
  BY DEF Lists, Shaped
<1> QED BY <1>1 DEF Held

\* What the rules ask about how often ranks are held, for each shape.
LEMMA ShapeHolds ==
  ASSUME NEW h \in Hands5(Deck), NEW s, Lists(s, h), NEW c \in Shapes, Shaped(s, h, c)
  PROVE  /\ Held(h, 4) # {} <=> c = <<4, 1>>
         /\ Held(h, 3) # {} <=> c \in {<<3, 2>>, <<3, 1, 1>>}
         /\ Held(h, 2) # {} <=> c \in {<<3, 2>>, <<2, 2, 1>>, <<2, 1, 1, 1>>}
         /\ Cardinality(Held(h, 2)) = 2 <=> c = <<2, 2, 1>>
         /\ Cardinality(Held(h, 2)) = 1 <=> c \in {<<3, 2>>, <<2, 1, 1, 1>>}
<1> DEFINE At(k) == {j \in 1 .. Len(c) : c[j] = k}
<1>1. \A k : Held(h, k) = {s[i] : i \in At(k)}
  BY HeldFacts
<1>2. /\ At(4) = IF c = <<4, 1>> THEN {1} ELSE {}
      /\ At(3) = IF c \in {<<3, 2>>, <<3, 1, 1>>} THEN {1} ELSE {}
  <2>1. At(4) = IF c = <<4, 1>> THEN {1} ELSE {}
    BY SMTT(30) DEF Shapes, Ones
  <2>2. At(3) = IF c \in {<<3, 2>>, <<3, 1, 1>>} THEN {1} ELSE {}
    BY SMTT(30) DEF Shapes, Ones
  <2> QED BY <2>1, <2>2
<1>3. At(2) = CASE c = <<3, 2>> -> {2}
                [] c = <<2, 2, 1>> -> {1, 2}
                [] c = <<2, 1, 1, 1>> -> {1}
                [] OTHER -> {}
  BY DEF Shapes, Ones
<1>4. c = <<2, 2, 1>> => s[1] # s[2]
  <2>1. HAVE c = <<2, 2, 1>>
  <2>2. DOMAIN s = 1 .. 3 /\ DOMAIN s = 1 .. Cardinality(Ranks(h)) /\ Cardinality(Ranks(h)) \in 1 .. 5
    BY <2>1 DEF Shaped, Lists
  <2>3. 1 \in 1 .. Cardinality(Ranks(h)) /\ 2 \in 1 .. Cardinality(Ranks(h))
    BY <2>2
  <2>4. Count(h, s[1]) = 2 /\ Count(h, s[2]) = 2
    BY <2>1 DEF Shaped
  <2>5. s[1] > s[2] /\ s[1] \in 2 .. 14 /\ s[2] \in 2 .. 14
    <3>1. \/ Count(h, s[1]) > Count(h, s[2])
          \/ Count(h, s[1]) = Count(h, s[2]) /\ s[1] > s[2]
      BY <2>3 DEF Lists
    <3>2. s[1] \in Ranks(h) /\ s[2] \in Ranks(h)
      BY <2>3 DEF Lists
    <3> QED BY <2>4, <3>1, <3>2, FiveFacts
  <2> QED BY <2>5
<1> HIDE DEF At
<1>5. Held(h, 4) # {} <=> c = <<4, 1>>
  <2>1. Held(h, 4) = {s[i] : i \in At(4)}
    BY ONLY <1>1
  <2>2. At(4) # {} <=> c = <<4, 1>>
    BY ONLY <1>2
  <2> QED BY ONLY <2>1, <2>2
<1>6. Held(h, 3) # {} <=> c \in {<<3, 2>>, <<3, 1, 1>>}
  <2>1. Held(h, 3) = {s[i] : i \in At(3)}
    BY ONLY <1>1
  <2>2. At(3) # {} <=> c \in {<<3, 2>>, <<3, 1, 1>>}
    BY ONLY <1>2
  <2> QED BY ONLY <2>1, <2>2
<1>7. CASE c = <<3, 2>>
  <2>1. Held(h, 2) = {s[2]}
    BY <1>1, <1>3, <1>7
  <2>2. Cardinality(Held(h, 2)) = 1 /\ Held(h, 2) # {}
    BY <2>1, FS_Singleton
  <2> QED BY <1>5, <1>6, <1>7, <2>2
<1>8. CASE c = <<2, 2, 1>>
  <2>1. Held(h, 2) = {s[1]} \cup {s[2]}
    BY <1>1, <1>3, <1>8
  <2>2. Cardinality({s[1]} \cup {s[2]}) = 2
    <3>1. IsFiniteSet({s[1]}) /\ Cardinality({s[1]}) = 1 /\ s[2] \notin {s[1]}
      BY <1>4, <1>8, FS_Singleton
    <3> QED BY <3>1, FS_AddElement
  <2> QED BY <1>5, <1>6, <1>8, <2>1, <2>2
<1>9. CASE c = <<2, 1, 1, 1>>
  <2>1. Held(h, 2) = {s[1]}
    BY <1>1, <1>3, <1>9
  <2>2. Cardinality(Held(h, 2)) = 1 /\ Held(h, 2) # {}
    BY <2>1, FS_Singleton
  <2> QED BY <1>5, <1>6, <1>9, <2>2
<1>10. CASE c \notin {<<3, 2>>, <<2, 2, 1>>, <<2, 1, 1, 1>>}
  <2>1. Held(h, 2) = {}
    BY <1>1, <1>3, <1>10
  <2> QED BY <1>5, <1>6, <1>10, <2>1, FS_EmptySet
<1> QED BY <1>7, <1>8, <1>9, <1>10

\* The shape of a hand of each kind that is no straight.
ShapeOf(kind) ==
  CASE kind = 7 -> <<4, 1>>
    [] kind = 6 -> <<3, 2>>
    [] kind = 3 -> <<3, 1, 1>>
    [] kind = 2 -> <<2, 2, 1>>
    [] kind = 1 -> <<2, 1, 1, 1>>
    [] OTHER    -> Ones

\* The kind of a hand, by its shape.
LEMMA KindFacts ==
  ASSUME NEW h \in Hands5(Deck), NEW s, Lists(s, h), NEW c \in Shapes, Shaped(s, h, c)
  PROVE  /\ IsFlush(h) \/ Tops(h) # {} => c = Ones
         /\ Kind(h) = CASE c = <<4, 1>>       -> 7
                        [] c = <<3, 2>>       -> 6
                        [] c = <<3, 1, 1>>    -> 3
                        [] c = <<2, 2, 1>>    -> 2
                        [] c = <<2, 1, 1, 1>> -> 1
                        [] OTHER -> IF Tops(h) # {} THEN (IF IsFlush(h) THEN 8 ELSE 4)
                                    ELSE (IF IsFlush(h) THEN 5 ELSE 0)
<1>1. IsFlush(h) \/ Tops(h) # {} => c = Ones
  <2>1. HAVE IsFlush(h) \/ Tops(h) # {}
  <2>2. Cardinality(Ranks(h)) = 5 \/ \A r \in Ranks(h) : Count(h, r) = 1
    BY <2>1, FlushFacts, StraightFacts
  <2>3. Shaped(s, h, Ones)
    BY <2>2, OnesFacts
  <2>4. 1 .. Len(c) = 1 .. 5 /\ \A i \in 1 .. 5 : c[i] = 1
    BY <2>3 DEF Shaped, Ones
  <2>5. c[1] = 1
    BY <2>4
  <2> QED BY <2>5 DEF Shapes, Ones
<1>2. PICK flush, straight, h4, h3, h2, n2 :
        /\ flush \in BOOLEAN /\ straight \in BOOLEAN
        /\ h4 \in BOOLEAN /\ h3 \in BOOLEAN /\ h2 \in BOOLEAN
        /\ flush = IsFlush(h) /\ straight = (Tops(h) # {})
        /\ h4 = (Held(h, 4) # {}) /\ h3 = (Held(h, 3) # {}) /\ h2 = (Held(h, 2) # {})
        /\ n2 = Cardinality(Held(h, 2))
  BY DEF IsFlush
<1>3. Kind(h) = CASE flush /\ straight        -> 8
                  [] h4                       -> 7
                  [] h3 /\ h2                 -> 6
                  [] flush /\ ~straight       -> 5
                  [] ~flush /\ straight       -> 4
                  [] h3 /\ ~h2                -> 3
                  [] n2 = 2                   -> 2
                  [] n2 = 1 /\ ~h3            -> 1
                  [] OTHER                    -> 0
  BY <1>2 DEF Kind
<1>4. PICK d : d = c
  OBVIOUS
<1>5. /\ h4 <=> d = <<4, 1>>
      /\ h3 <=> d \in {<<3, 2>>, <<3, 1, 1>>}
      /\ h2 <=> d \in {<<3, 2>>, <<2, 2, 1>>, <<2, 1, 1, 1>>}
      /\ n2 = 2 <=> d = <<2, 2, 1>>
      /\ n2 = 1 <=> d \in {<<3, 2>>, <<2, 1, 1, 1>>}
  BY <1>2, <1>4, ShapeHolds
<1>6. /\ flush \/ straight => d = Ones
      /\ d \in Shapes
  BY <1>1, <1>2, <1>4
<1>7. Kind(h) = CASE d = <<4, 1>>       -> 7
                  [] d = <<3, 2>>       -> 6
                  [] d = <<3, 1, 1>>    -> 3
                  [] d = <<2, 2, 1>>    -> 2
                  [] d = <<2, 1, 1, 1>> -> 1
                  [] OTHER -> IF straight THEN (IF flush THEN 8 ELSE 4) ELSE (IF flush THEN 5 ELSE 0)
  <2>1. /\ flush \in BOOLEAN /\ straight \in BOOLEAN
        /\ h4 \in BOOLEAN /\ h3 \in BOOLEAN /\ h2 \in BOOLEAN
    BY <1>2
  <2> QED BY ONLY <1>3, <1>5, <1>6, <2>1 DEF Shapes, Ones
<1> QED BY <1>1, <1>2, <1>4, <1>7

\* With no pair the heights alone tell the order.
LEMMA DescendingFacts ==
  ASSUME NEW h, \A r \in Ranks(h) : Count(h, r) = 1
  PROVE  Descending(Ranks(h)) = ByCount(h)
<1> DEFINE R == Ranks(h)
           Ahead(q, r) == \/ Count(h, q) > Count(h, r)
                          \/ Count(h, q) = Count(h, r) /\ q > r
<1>1. \A q, r \in R : q > r <=> Ahead(q, r)
  BY DEF R
<1>2. \A r \in R : {q \in R : q > r} = {q \in R : Ahead(q, r)}
  <2> HIDE DEF Ahead, R
  <2> QED BY <1>1
<1>3. ByCount(h) = [i \in 1 .. Cardinality(R) |->
                      CHOOSE r \in R : Cardinality({q \in R : Ahead(q, r)}) = i - 1]
  BY DEF ByCount, Listed
<1>4. Descending(R) = [i \in 1 .. Cardinality(R) |->
                         CHOOSE r \in R : Cardinality({q \in R : q > r}) = i - 1]
  BY DEF Descending, Listed
<1> HIDE DEF Ahead, R
<1>5. \A i : (CHOOSE r \in R : Cardinality({q \in R : q > r}) = i - 1)
           = (CHOOSE r \in R : Cardinality({q \in R : Ahead(q, r)}) = i - 1)
  <2>1. TAKE i
  <2>2. \A r : r \in R /\ Cardinality({q \in R : q > r}) = i - 1
           <=> r \in R /\ Cardinality({q \in R : Ahead(q, r)}) = i - 1
    BY <1>2, Zenon
  <2> QED BY <2>2
<1>6. Descending(R) = ByCount(h)
  BY <1>3, <1>4, <1>5, Zenon
<1> QED BY <1>6 DEF R

\* What a hand's value consists of: its kind, and the ranks that are compared.
Valued(h, v) ==
  /\ v.category = Kind(h) /\ Kind(h) \in 0 .. 8
  /\ \/ Kind(h) \in {4, 8} /\ \E t \in 5 .. 14 : Max(Tops(h)) = t /\ v.ranks = <<t>>
     \/ Kind(h) \notin {4, 8} /\ Lists(v.ranks, h) /\ Shaped(v.ranks, h, ShapeOf(Kind(h)))

\* EvaluateFive gives a hand such a value.
LEMMA ValueFacts ==
  ASSUME NEW h \in Hands5(Deck)
  PROVE  Valued(h, EvaluateFive(h))
<1>1. PICK s : s = ByCount(h)
  OBVIOUS
<1>2. Lists(s, h)
  BY <1>1, ByCountFacts
<1>3. PICK c \in Shapes : Shaped(s, h, c)
  BY <1>2, SixShapes
<1>4. /\ IsFlush(h) \/ Tops(h) # {} => c = Ones
      /\ Kind(h) = CASE c = <<4, 1>>       -> 7
                     [] c = <<3, 2>>       -> 6
                     [] c = <<3, 1, 1>>    -> 3
                     [] c = <<2, 2, 1>>    -> 2
                     [] c = <<2, 1, 1, 1>> -> 1
                     [] OTHER -> IF Tops(h) # {} THEN (IF IsFlush(h) THEN 8 ELSE 4)
                                 ELSE (IF IsFlush(h) THEN 5 ELSE 0)
  BY <1>2, <1>3, KindFacts
<1>5. PICK high : high = StraightHigh(Ranks(h))
  OBVIOUS
<1>6. /\ Tops(h) = {} => high = 0
      /\ Tops(h) # {} => high \in 5 .. 14 /\ Max(Tops(h)) = high
  BY <1>5, StraightFacts
<1>7. PICK flat : flat = Descending(Ranks(h))
  OBVIOUS
<1>8. c = Ones => flat = s
  <2>1. HAVE c = Ones
  <2>2. \A r \in Ranks(h) : Count(h, r) = 1
    <3>1. TAKE r \in Ranks(h)
    <3>2. PICK i \in DOMAIN s : s[i] = r
      BY <1>2 DEF Lists
    <3>3. i \in 1 .. 5 /\ Count(h, s[i]) = Ones[i]
      BY <1>3, <2>1 DEF Shaped, Ones
    <3> QED BY <3>2, <3>3 DEF Ones
  <2> QED BY <1>1, <1>7, <2>2, DescendingFacts
<1>9. PICK n1, n2 : n1 = Count(h, s[1]) /\ n2 = Count(h, s[2])
  OBVIOUS
<1>10. n1 = c[1] /\ n2 = c[2]
  <2>1. 1 \in 1 .. Len(c) /\ 2 \in 1 .. Len(c)
    BY DEF Shapes, Ones
  <2> QED BY <1>3, <1>9, <2>1 DEF Shaped
<1>11. EvaluateFive(h) =
         IF IsFlush(h) /\ high > 0   THEN [category |-> 8, ranks |-> <<high>>]
         ELSE IF n1 = 4              THEN [category |-> 7, ranks |-> s]
         ELSE IF n1 = 3 /\ n2 = 2    THEN [category |-> 6, ranks |-> s]
         ELSE IF IsFlush(h)          THEN [category |-> 5, ranks |-> flat]
         ELSE IF high > 0            THEN [category |-> 4, ranks |-> <<high>>]
         ELSE IF n1 = 3              THEN [category |-> 3, ranks |-> s]
         ELSE IF n1 = 2 /\ n2 = 2    THEN [category |-> 2, ranks |-> s]
         ELSE IF n1 = 2              THEN [category |-> 1, ranks |-> s]
         ELSE [category |-> 0, ranks |-> flat]
  BY <1>1, <1>5, <1>7, <1>9, Zenon DEF EvaluateFive
<1>12. ASSUME Tops(h) # {}, IsFlush(h) PROVE Valued(h, EvaluateFive(h))
  <2>1. Kind(h) = 8 /\ EvaluateFive(h) = [category |-> 8, ranks |-> <<high>>]
    BY <1>4, <1>6, <1>11, <1>12 DEF Ones
  <2> QED BY <1>6, <1>12, <2>1 DEF Valued
<1>13. ASSUME Tops(h) # {}, ~IsFlush(h) PROVE Valued(h, EvaluateFive(h))
  <2>1. c = Ones /\ n1 = 1
    BY <1>4, <1>10, <1>13 DEF Ones
  <2>2. Kind(h) = 4 /\ EvaluateFive(h) = [category |-> 4, ranks |-> <<high>>]
    BY <1>4, <1>6, <1>11, <1>13, <2>1 DEF Ones
  <2> QED BY <1>6, <1>13, <2>2 DEF Valued
<1>14. ASSUME Tops(h) = {} PROVE Valued(h, EvaluateFive(h))
  <2>1. high = 0
    BY <1>6, <1>14
  <2>2. CASE c = Ones
    <3>1. n1 = 1 /\ flat = s
      BY <1>8, <1>10, <2>2 DEF Ones
    <3>2. Kind(h) = (IF IsFlush(h) THEN 5 ELSE 0)
      BY <1>4, <1>14, <2>2 DEF Ones
    <3>3. EvaluateFive(h) = [category |-> Kind(h), ranks |-> s]
      BY <1>11, <2>1, <3>1, <3>2
    <3>4. ShapeOf(Kind(h)) = c
      BY <2>2, <3>2 DEF ShapeOf
    <3> QED BY <1>2, <1>3, <3>2, <3>3, <3>4 DEF Valued
  <2>3. CASE c # Ones
    <3>1. ~IsFlush(h)
      BY <1>4, <2>3
    <3>2. Kind(h) = CASE c = <<4, 1>>       -> 7
                      [] c = <<3, 2>>       -> 6
                      [] c = <<3, 1, 1>>    -> 3
                      [] c = <<2, 2, 1>>    -> 2
                      [] OTHER -> 1
      BY <1>4, <2>3 DEF Shapes
    <3>3. EvaluateFive(h) = [category |-> Kind(h), ranks |-> s]
      BY <1>10, <1>11, <2>1, <2>3, <3>1, <3>2 DEF Shapes
    <3>4. ShapeOf(Kind(h)) = c /\ Kind(h) \in 0 .. 8 \ {4, 8}
      BY <2>3, <3>2 DEF ShapeOf, Shapes
    <3> QED BY <1>2, <1>3, <3>3, <3>4 DEF Valued
  <2> QED BY <2>2, <2>3
<1> QED BY <1>12, <1>13, <1>14

-----------------------------------------------------------------------------
(* The first place in which two lists differ. *)

\* A list of ranks of a known shape.
LEMMA ListFacts ==
  ASSUME NEW h \in Hands5(Deck), NEW s, Lists(s, h), NEW c \in Shapes, Shaped(s, h, c)
  PROVE  /\ Len(c) \in 2 .. 5 /\ DOMAIN s = 1 .. Len(c)
         /\ \A i \in 1 .. Len(c) : s[i] \in 2 .. 14 /\ c[i] \in 1 .. 4 /\ s[i] \in Held(h, c[i])
         /\ \A i, j \in 1 .. Len(c) :
              i < j => c[i] >= c[j] /\ s[i] # s[j] /\ (c[i] = c[j] => s[i] > s[j])
         /\ \A k : Held(h, k) = {s[i] : i \in {j \in 1 .. Len(c) : c[j] = k}}
<1>1. Len(c) \in 2 .. 5 /\ DOMAIN s = 1 .. Len(c) /\ \A i \in 1 .. Len(c) : c[i] \in 1 .. 4
  BY DEF Shaped, Shapes, Ones
<1>2. /\ \A i \in 1 .. Len(c) : s[i] \in Ranks(h) /\ Count(h, s[i]) = c[i]
      /\ \A i, j \in 1 .. Len(c) : i < j => \/ Count(h, s[i]) > Count(h, s[j])
                                            \/ Count(h, s[i]) = Count(h, s[j]) /\ s[i] > s[j]
  BY <1>1 DEF Shaped, Lists
<1>3. \A i \in 1 .. Len(c) : s[i] \in 2 .. 14
  BY <1>2, FiveFacts
<1>4. \A i, j \in 1 .. Len(c) : i < j => c[i] > c[j] \/ (c[i] = c[j] /\ s[i] > s[j])
  BY <1>2
<1>5. \A i, j \in 1 .. Len(c) : i < j => c[i] >= c[j] /\ (c[i] = c[j] => s[i] > s[j])
  BY <1>1, <1>3, <1>4
<1>6. \A i, j \in 1 .. Len(c) : i < j => s[i] # s[j]
  <2>1. SUFFICES ASSUME NEW i \in 1 .. Len(c), NEW j \in 1 .. Len(c), i < j, s[i] = s[j] PROVE FALSE
    OBVIOUS
  <2>2. c[i] = c[j]
    BY <1>2, <2>1
  <2>3. s[i] > s[j] /\ s[j] \in 2 .. 14
    BY <1>3, <1>5, <2>1, <2>2
  <2> QED BY <2>1, <2>3
<1>7. \A i \in 1 .. Len(c) : s[i] \in Held(h, c[i])
  BY <1>2 DEF Held
<1>8. \A k : Held(h, k) = {s[i] : i \in {j \in 1 .. Len(c) : c[j] = k}}
  BY HeldFacts
<1> QED BY <1>1, <1>3, <1>5, <1>6, <1>7, <1>8

\* g holds, of the ranks that only one of the two hands holds as often as
\* possible, the highest: the rule between hands that are no straights.
Above(g, h) ==
  \E k \in 1 .. 4 :
    LET mine == Held(g, k) \ Held(h, k)
        hers == Held(h, k) \ Held(g, k)
    IN  /\ \A j \in k + 1 .. 4 : Held(g, j) = Held(h, j)
        /\ mine # {}
        /\ \A r \in hers : r < Max(mine)

\* Two lists of one shape that agree before the place m, where the first is
\* higher: what is held more often than there is the same in both hands, and of
\* what is held as often as there, the first list alone has its m-th rank, and
\* the second none that is as high.
LEMMA FirstDifference ==
  ASSUME NEW g \in Hands5(Deck), NEW h \in Hands5(Deck), NEW s, NEW t, NEW c \in Shapes,
         Lists(s, g), Shaped(s, g, c), Lists(t, h), Shaped(t, h, c),
         NEW m \in 1 .. Len(c), \A i \in 1 .. Len(c) : i < m => s[i] = t[i], s[m] > t[m]
  PROVE  /\ \A k \in 1 .. 4 : k > c[m] => Held(g, k) = Held(h, k)
         /\ s[m] \in Held(g, c[m]) \ Held(h, c[m])
         /\ \A r \in Held(h, c[m]) \ Held(g, c[m]) : r < s[m]
<1>1. /\ Len(c) \in 2 .. 5
      /\ \A i \in 1 .. Len(c) : s[i] \in 2 .. 14 /\ c[i] \in 1 .. 4 /\ s[i] \in Held(g, c[i])
      /\ \A i, j \in 1 .. Len(c) :
           i < j => c[i] >= c[j] /\ s[i] # s[j] /\ (c[i] = c[j] => s[i] > s[j])
      /\ \A k : Held(g, k) = {s[i] : i \in {j \in 1 .. Len(c) : c[j] = k}}
  BY ListFacts
<1>2. /\ \A i \in 1 .. Len(c) : t[i] \in 2 .. 14
      /\ \A i, j \in 1 .. Len(c) : i < j => t[i] # t[j] /\ (c[i] = c[j] => t[i] > t[j])
      /\ \A k : Held(h, k) = {t[i] : i \in {j \in 1 .. Len(c) : c[j] = k}}
  BY ListFacts
<1>3. ASSUME NEW k \in 1 .. 4, k > c[m] PROVE Held(g, k) = Held(h, k)
  <2>1. \A i \in 1 .. Len(c) : c[i] = k => s[i] = t[i]
    <3>1. TAKE i \in 1 .. Len(c)
    <3>2. HAVE c[i] = k
    <3>3. i < m
      <4>1. c[i] > c[m]
        BY <1>3, <3>2
      <4>2. c[i] \in 1 .. 4 /\ c[m] \in 1 .. 4
        BY <1>1
      <4>3. i # m
        BY <4>1, <4>2
      <4>4. m < i => c[m] >= c[i]
        BY <1>1
      <4>5. i \in Nat /\ m \in Nat
        BY <1>1
      <4> QED BY ONLY <4>1, <4>2, <4>3, <4>4, <4>5
    <3> QED BY <3>3
  <2>2. {s[i] : i \in {j \in 1 .. Len(c) : c[j] = k}} = {t[i] : i \in {j \in 1 .. Len(c) : c[j] = k}}
    BY <2>1
  <2> QED BY <1>1, <1>2, <2>2, Zenon
<1>4. \A i \in 1 .. Len(c) : c[i] = c[m] => i < m \/ t[i] < s[m]
  <2>1. TAKE i \in 1 .. Len(c)
  <2>2. HAVE c[i] = c[m]
  <2>3. i < m \/ i = m \/ m < i
    BY <1>1
  <2>4. t[i] \in 2 .. 14 /\ t[m] \in 2 .. 14 /\ s[m] \in 2 .. 14
    BY <1>1, <1>2
  <2>5. m < i => t[m] > t[i]
    BY <1>2, <2>2
  <2>6. CASE i = m
    <3>1. t[i] < s[m]
      <4>1. s[m] > t[i]
        BY <2>6
      <4> QED BY ONLY <2>4, <4>1
    <3> QED BY <3>1
  <2>7. CASE m < i
    <3>1. t[m] > t[i] /\ s[m] > t[m]
      BY <2>5, <2>7
    <3>2. PICK x \in 2 .. 14, y \in 2 .. 14, z \in 2 .. 14 : x = t[i] /\ y = t[m] /\ z = s[m]
      BY <2>4
    <3>3. x < z
      BY <3>1, <3>2
    <3> QED BY <3>2, <3>3
  <2> QED BY <2>3, <2>6, <2>7
<1>5. s[m] \notin Held(h, c[m])
  <2>1. SUFFICES ASSUME NEW i \in 1 .. Len(c), c[i] = c[m], s[m] = t[i] PROVE FALSE
    BY <1>2
  <2>2. CASE i < m
    <3>1. s[i] = s[m] /\ s[i] # s[m]
      BY <1>1, <2>1, <2>2
    <3> QED BY <3>1
  <2>3. CASE t[i] < s[m]
    <3>1. s[m] < s[m] /\ s[m] \in 2 .. 14
      BY <1>1, <2>1, <2>3
    <3> QED BY ONLY <3>1
  <2> QED BY <1>4, <2>1, <2>2, <2>3
<1>6. ASSUME NEW r \in Held(h, c[m]) \ Held(g, c[m]) PROVE r < s[m]
  <2>1. PICK i \in 1 .. Len(c) : c[i] = c[m] /\ r = t[i]
    BY <1>2
  <2>2. CASE i < m
    <3>1. r = s[i]
      BY <2>1, <2>2
    <3>2. r \in Held(g, c[m])
      BY <1>1, <2>1, <3>1
    <3> QED BY <1>6, <3>2
  <2>3. CASE t[i] < s[m]
    BY <2>1, <2>3
  <2> QED BY <1>4, <2>1, <2>2, <2>3
<1> QED BY <1>1, <1>3, <1>5, <1>6

\* Such a first difference decides, in one direction only.
LEMMA DifferenceDecides ==
  ASSUME NEW g \in Hands5(Deck), NEW h \in Hands5(Deck), NEW k \in 1 .. 4, NEW x \in 2 .. 14,
         \A j \in 1 .. 4 : j > k => Held(g, j) = Held(h, j),
         x \in Held(g, k) \ Held(h, k),
         \A r \in Held(h, k) \ Held(g, k) : r < x
  PROVE  Above(g, h) /\ ~ Above(h, g)
<1>1. \A j : Held(g, j) \subseteq 0 .. 14 /\ Held(h, j) \subseteq 0 .. 14
  <2>1. Ranks(g) \subseteq 0 .. 14 /\ Ranks(h) \subseteq 0 .. 14
    BY FiveFacts
  <2> QED BY <2>1 DEF Held
<1>2. \A j : /\ Held(g, j) \ Held(h, j) # {} =>
                  /\ Max(Held(g, j) \ Held(h, j)) \in Held(g, j) \ Held(h, j)
                  /\ \A y \in Held(g, j) \ Held(h, j) : Max(Held(g, j) \ Held(h, j)) >= y
             /\ Held(h, j) \ Held(g, j) # {} =>
                  Max(Held(h, j) \ Held(g, j)) \in Held(h, j) \ Held(g, j)
  <2>1. TAKE j
  <2>2. Held(g, j) \ Held(h, j) \in SUBSET (0 .. 14) /\ Held(h, j) \ Held(g, j) \in SUBSET (0 .. 14)
    BY <1>1
  <2>3. 14 \in Nat
    OBVIOUS
  <2> QED BY ONLY <2>2, <2>3, MaxOfNaturals
<1>3. Above(g, h)
  <2>1. PICK M : M = Max(Held(g, k) \ Held(h, k))
    OBVIOUS
  <2>2. M >= x /\ M \in 0 .. 14
    BY <1>1, <1>2, <2>1
  <2>3. \A r \in Held(h, k) \ Held(g, k) : r < M
    <3>1. TAKE r \in Held(h, k) \ Held(g, k)
    <3>2. r < x /\ r \in 0 .. 14
      BY <1>1
    <3> QED BY <2>2, <3>2
  <2>4. \A j \in k + 1 .. 4 : Held(g, j) = Held(h, j)
    OBVIOUS
  <2> QED BY <2>1, <2>3, <2>4 DEF Above
<1>4. ASSUME Above(h, g) PROVE FALSE
  <2>1. PICK q \in 1 .. 4 :
          /\ \A j \in q + 1 .. 4 : Held(h, j) = Held(g, j)
          /\ Held(h, q) \ Held(g, q) # {}
          /\ \A r \in Held(g, q) \ Held(h, q) : r < Max(Held(h, q) \ Held(g, q))
    BY <1>4 DEF Above
  <2>2. CASE q > k
    BY <2>1, <2>2
  <2>3. CASE q < k
    <3>1. k \in q + 1 .. 4
      BY <2>3
    <3> QED BY <2>1, <3>1
  <2>4. CASE q = k
    <3>1. PICK M : M = Max(Held(h, k) \ Held(g, k))
      OBVIOUS
    <3>2. M \in Held(h, k) \ Held(g, k) /\ x < M
      BY <1>2, <2>1, <2>4, <3>1
    <3>3. M < x /\ M \in 0 .. 14
      BY <1>1, <3>2
    <3> QED BY <3>2, <3>3
  <2> QED BY <2>2, <2>3, <2>4
<1> QED BY <1>3, <1>4

\* Equal lists do not decide.
LEMMA SameLists ==
  ASSUME NEW g \in Hands5(Deck), NEW h \in Hands5(Deck), NEW s, NEW t, NEW c \in Shapes,
         Lists(s, g), Shaped(s, g, c), Lists(t, h), Shaped(t, h, c),
         \A i \in 1 .. Len(c) : s[i] = t[i]
  PROVE  ~ Above(g, h)
<1>1. \A k : Held(g, k) = {s[i] : i \in {j \in 1 .. Len(c) : c[j] = k}}
  BY ListFacts
<1>2. \A k : Held(h, k) = {t[i] : i \in {j \in 1 .. Len(c) : c[j] = k}}
  BY ListFacts
<1>3. \A k : Held(g, k) = Held(h, k)
  BY <1>1, <1>2
<1> QED BY <1>3 DEF Above

\* CompareHandValue of two values of one category with lists of one length: the
\* first difference decides.
LEMMA CompareLists ==
  ASSUME NEW v, NEW w, v.category = w.category, NEW n \in Nat,
         DOMAIN v.ranks = 1 .. n, DOMAIN w.ranks = 1 .. n
  PROVE  \/ (\A i \in 1 .. n : v.ranks[i] = w.ranks[i]) /\ Compare(v, w) = 0
         \/ \E m \in 1 .. n :
              /\ v.ranks[m] # w.ranks[m]
              /\ \A i \in 1 .. n : i < m => v.ranks[i] = w.ranks[i]
              /\ Compare(v, w) = IF v.ranks[m] > w.ranks[m] THEN 1 ELSE -1
<1> DEFINE D == {i \in DOMAIN v.ranks \cap DOMAIN w.ranks : v.ranks[i] # w.ranks[i]}
<1>1. D = {i \in 1 .. n : v.ranks[i] # w.ranks[i]}
  OBVIOUS
<1>2. Compare(v, w) = IF D = {} THEN 0 ELSE IF v.ranks[Min(D)] > w.ranks[Min(D)] THEN 1 ELSE -1
  BY DEF Compare
<1> HIDE DEF D
<1>3. CASE D = {}
  BY <1>1, <1>2, <1>3
<1>4. CASE D # {}
  <2>1. D \in SUBSET Nat
    BY <1>1
  <2>2. PICK m : m = Min(D)
    OBVIOUS
  <2>3. m \in D /\ \A i \in D : m <= i
    BY <1>4, <2>1, <2>2, MinOfNaturals
  <2>4. m \in 1 .. n /\ v.ranks[m] # w.ranks[m]
    BY <1>1, <2>3
  <2>5. \A i \in 1 .. n : i < m => v.ranks[i] = w.ranks[i]
    <3>1. TAKE i \in 1 .. n
    <3>2. HAVE i < m
    <3>3. i \notin D
      BY <2>3, <2>4, <3>2
    <3> QED BY <1>1, <3>3
  <2>6. Compare(v, w) = IF v.ranks[m] > w.ranks[m] THEN 1 ELSE -1
    BY <1>2, <1>4, <2>2
  <2> QED BY <2>4, <2>5, <2>6
<1> QED BY <1>3, <1>4

\* The rules of poker, in terms of hands.
RulesPrefer(g, h) ==
  \/ Kind(g) > Kind(h)
  \/ /\ Kind(g) = Kind(h)
     /\ IF Kind(g) \in {4, 8} THEN Max(Tops(g)) > Max(Tops(h)) ELSE Above(g, h)

\* They are what Beats says of two profiles.
LEMMA BeatsFacts ==
  ASSUME NEW g, NEW h
  PROVE  Beats(Profile(g), Profile(h)) <=> RulesPrefer(g, h)
<1>1. PICK a, b : a = Profile(g) /\ b = Profile(h)
  OBVIOUS
<1>2. /\ a.kind = Kind(g) /\ a.tops = Tops(g) /\ \A k \in 1 .. 4 : a.held[k] = Held(g, k)
      /\ b.kind = Kind(h) /\ b.tops = Tops(h) /\ \A k \in 1 .. 4 : b.held[k] = Held(h, k)
  BY <1>1 DEF Profile
<1>3. \A k \in 1 .. 4 :
        ((\A j \in k + 1 .. 4 : a.held[j] = b.held[j]) <=> (\A j \in k + 1 .. 4 : Held(g, j) = Held(h, j)))
  <2>1. \A k \in 1 .. 4 : \A j \in k + 1 .. 4 : j \in 1 .. 4
    OBVIOUS
  <2> QED BY <1>2, <2>1
<1>4. (\E k \in 1 .. 4 :
         LET mine == a.held[k] \ b.held[k]
             hers == b.held[k] \ a.held[k]
         IN  /\ \A j \in k + 1 .. 4 : a.held[j] = b.held[j]
             /\ mine # {}
             /\ \A r \in hers : r < Max(mine)) <=> Above(g, h)
  <2>1. \A k \in 1 .. 4 : /\ a.held[k] \ b.held[k] = Held(g, k) \ Held(h, k)
                          /\ b.held[k] \ a.held[k] = Held(h, k) \ Held(g, k)
    BY <1>2
  <2> QED BY <1>3, <2>1, Zenon DEF Above
<1>5. BeatsInKind(a, b) <=> IF Kind(g) \in {4, 8} THEN Max(Tops(g)) > Max(Tops(h)) ELSE Above(g, h)
  BY <1>2, <1>4, Zenon DEF BeatsInKind
<1> QED BY <1>1, <1>2, <1>5, Zenon DEF Beats, RulesPrefer

\* The evaluator agrees with the rules.
LEMMA CompareFacts ==
  ASSUME NEW g \in Hands5(Deck), NEW h \in Hands5(Deck), NEW v, NEW w, Valued(g, v), Valued(h, w)
  PROVE  Compare(v, w) = IF RulesPrefer(g, h) THEN 1 ELSE IF RulesPrefer(h, g) THEN -1 ELSE 0
<1>1. /\ v.category = Kind(g) /\ w.category = Kind(h)
      /\ Kind(g) \in 0 .. 8 /\ Kind(h) \in 0 .. 8
  BY DEF Valued
<1>2. CASE Kind(g) # Kind(h)
  <2>1. Compare(v, w) = IF Kind(g) > Kind(h) THEN 1 ELSE -1
    BY <1>1, <1>2 DEF Compare
  <2>2. (RulesPrefer(g, h) <=> Kind(g) > Kind(h)) /\ (RulesPrefer(h, g) <=> Kind(h) > Kind(g))
    BY <1>2 DEF RulesPrefer
  <2> QED BY <1>1, <1>2, <2>1, <2>2
<1>3. CASE Kind(g) = Kind(h) /\ Kind(g) \in {4, 8}
  <2>1. PICK t \in 5 .. 14 : Max(Tops(g)) = t /\ v.ranks = <<t>>
    BY <1>3 DEF Valued
  <2>2. PICK u \in 5 .. 14 : Max(Tops(h)) = u /\ w.ranks = <<u>>
    BY <1>3 DEF Valued
  <2>3. /\ RulesPrefer(g, h) <=> t > u
        /\ RulesPrefer(h, g) <=> u > t
    BY <1>1, <1>3, <2>1, <2>2 DEF RulesPrefer
  <2>4. /\ DOMAIN v.ranks = 1 .. 1 /\ DOMAIN w.ranks = 1 .. 1 /\ v.ranks[1] = t /\ w.ranks[1] = u
    BY <2>1, <2>2
  <2>5. \/ t = u /\ Compare(v, w) = 0
        \/ t # u /\ Compare(v, w) = IF t > u THEN 1 ELSE -1
    <3>1. \/ (\A i \in 1 .. 1 : v.ranks[i] = w.ranks[i]) /\ Compare(v, w) = 0
          \/ \E m \in 1 .. 1 :
               /\ v.ranks[m] # w.ranks[m]
               /\ \A i \in 1 .. 1 : i < m => v.ranks[i] = w.ranks[i]
               /\ Compare(v, w) = IF v.ranks[m] > w.ranks[m] THEN 1 ELSE -1
      <4>1. PICK n \in Nat : n = 1
        OBVIOUS
      <4>2. v.category = w.category /\ DOMAIN v.ranks = 1 .. n /\ DOMAIN w.ranks = 1 .. n
        BY <1>1, <1>3, <2>4, <4>1
      <4>3. \/ (\A i \in 1 .. n : v.ranks[i] = w.ranks[i]) /\ Compare(v, w) = 0
            \/ \E m \in 1 .. n :
                 /\ v.ranks[m] # w.ranks[m]
                 /\ \A i \in 1 .. n : i < m => v.ranks[i] = w.ranks[i]
                 /\ Compare(v, w) = IF v.ranks[m] > w.ranks[m] THEN 1 ELSE -1
        BY ONLY n \in Nat, <4>2, CompareLists
      <4> QED BY <4>1, <4>3
    <3>2. \A m \in 1 .. 1 : m = 1
      OBVIOUS
    <3>3. CASE (\A i \in 1 .. 1 : v.ranks[i] = w.ranks[i]) /\ Compare(v, w) = 0
      <4>1. v.ranks[1] = w.ranks[1]
        BY <3>3
      <4> QED BY <2>4, <3>3, <4>1
    <3>4. CASE \E m \in 1 .. 1 : /\ v.ranks[m] # w.ranks[m]
                                 /\ Compare(v, w) = IF v.ranks[m] > w.ranks[m] THEN 1 ELSE -1
      <4>1. /\ v.ranks[1] # w.ranks[1]
            /\ Compare(v, w) = IF v.ranks[1] > w.ranks[1] THEN 1 ELSE -1
        BY <3>2, <3>4
      <4> QED BY <2>4, <4>1
    <3> QED BY <3>1, <3>3, <3>4
  <2> QED BY <2>3, <2>5
<1>4. CASE Kind(g) = Kind(h) /\ Kind(g) \notin {4, 8}
  <2>1. PICK s, t, c : s = v.ranks /\ t = w.ranks /\ c = ShapeOf(Kind(g))
    OBVIOUS
  <2>2. Lists(s, g) /\ Shaped(s, g, c) /\ Lists(t, h) /\ Shaped(t, h, c)
    BY <1>4, <2>1 DEF Valued
  <2>3. c \in Shapes
    BY <1>1, <2>1 DEF ShapeOf, Shapes
  <2>4. /\ Len(c) \in Nat /\ DOMAIN s = 1 .. Len(c) /\ DOMAIN t = 1 .. Len(c)
        /\ \A i \in 1 .. Len(c) : s[i] \in 2 .. 14 /\ t[i] \in 2 .. 14
    BY <2>2, <2>3, ListFacts
  <2>5. \/ (\A i \in 1 .. Len(c) : s[i] = t[i]) /\ Compare(v, w) = 0
        \/ \E m \in 1 .. Len(c) :
             /\ s[m] # t[m]
             /\ \A i \in 1 .. Len(c) : i < m => s[i] = t[i]
             /\ Compare(v, w) = IF s[m] > t[m] THEN 1 ELSE -1
    <3>1. v.category = w.category /\ DOMAIN v.ranks = 1 .. Len(c) /\ DOMAIN w.ranks = 1 .. Len(c)
      BY <1>1, <1>4, <2>1, <2>4
    <3>2. \/ (\A i \in 1 .. Len(c) : v.ranks[i] = w.ranks[i]) /\ Compare(v, w) = 0
          \/ \E m \in 1 .. Len(c) :
               /\ v.ranks[m] # w.ranks[m]
               /\ \A i \in 1 .. Len(c) : i < m => v.ranks[i] = w.ranks[i]
               /\ Compare(v, w) = IF v.ranks[m] > w.ranks[m] THEN 1 ELSE -1
      BY ONLY <2>4, <3>1, CompareLists
    <3> QED BY <2>1, <3>2
  <2>6. (RulesPrefer(g, h) <=> Above(g, h)) /\ (RulesPrefer(h, g) <=> Above(h, g))
    BY <1>1, <1>4 DEF RulesPrefer
  <2>7. CASE (\A i \in 1 .. Len(c) : s[i] = t[i]) /\ Compare(v, w) = 0
    <3>1. ~ Above(g, h) /\ ~ Above(h, g)
      BY <2>2, <2>3, <2>7, SameLists
    <3> QED BY <2>6, <2>7, <3>1
  <2>8. ASSUME NEW m \in 1 .. Len(c), s[m] # t[m], \A i \in 1 .. Len(c) : i < m => s[i] = t[i],
               Compare(v, w) = IF s[m] > t[m] THEN 1 ELSE -1
        PROVE  Compare(v, w) = IF RulesPrefer(g, h) THEN 1 ELSE IF RulesPrefer(h, g) THEN -1 ELSE 0
    <3>1. s[m] \in 2 .. 14 /\ t[m] \in 2 .. 14
      BY <2>4
    <3>2. c[m] \in 1 .. 4
      BY <2>2, <2>3, ListFacts
    <3>3. (s[m] > t[m] \/ t[m] > s[m] \/ s[m] = t[m]) /\ (t[m] > s[m] => ~ (s[m] > t[m]))
      <4>1. PICK x \in 2 .. 14, y \in 2 .. 14 : x = s[m] /\ y = t[m]
        BY <3>1
      <4>2. (x > y \/ y > x \/ x = y) /\ (y > x => ~ (x > y))
        OBVIOUS
      <4> QED BY ONLY <4>1, <4>2
    <3>4. CASE s[m] > t[m]
      <4>1. /\ \A k \in 1 .. 4 : k > c[m] => Held(g, k) = Held(h, k)
            /\ s[m] \in Held(g, c[m]) \ Held(h, c[m])
            /\ \A r \in Held(h, c[m]) \ Held(g, c[m]) : r < s[m]
        BY <2>2, <2>3, <2>8, <3>4, FirstDifference
      <4>2. Above(g, h) /\ ~ Above(h, g)
        BY <3>1, <3>2, <4>1, DifferenceDecides
      <4> QED BY <2>6, <2>8, <3>4, <4>2
    <3>5. CASE t[m] > s[m]
      <4>1. /\ \A k \in 1 .. 4 : k > c[m] => Held(h, k) = Held(g, k)
            /\ t[m] \in Held(h, c[m]) \ Held(g, c[m])
            /\ \A r \in Held(g, c[m]) \ Held(h, c[m]) : r < t[m]
        <5>1. \A i \in 1 .. Len(c) : i < m => t[i] = s[i]
          BY <2>8
        <5> QED BY <2>2, <2>3, <3>5, <5>1, FirstDifference
      <4>2. Above(h, g) /\ ~ Above(g, h)
        BY <3>1, <3>2, <4>1, DifferenceDecides
      <4>3. ~ (s[m] > t[m])
        BY <3>5, <3>3
      <4> QED BY <2>6, <2>8, <4>2, <4>3
    <3> QED BY <2>8, <3>4, <3>5, <3>3
  <2> QED BY <2>5, <2>7, <2>8
<1> QED BY <1>2, <1>3, <1>4

-----------------------------------------------------------------------------
(* The best of several hands. *)

\* How many ranks the value of a category lists.
Listing(kind) == IF kind \in {4, 8} THEN 1 ELSE Len(ShapeOf(kind))

\* The values the evaluator gives.
IsValue(v) ==
  /\ v.category \in 0 .. 8 /\ Listing(v.category) \in 1 .. 5
  /\ DOMAIN v.ranks = 1 .. Listing(v.category)
  /\ \A i \in 1 .. Listing(v.category) : v.ranks[i] \in 2 .. 14

\* Among them are the values of the hands.
LEMMA ValueShape ==
  ASSUME NEW h \in Hands5(Deck)
  PROVE  IsValue(EvaluateFive(h))
<1>1. PICK v : v = EvaluateFive(h)
  OBVIOUS
<1>2. Valued(h, v)
  BY <1>1, ValueFacts
<1>3. v.category \in 0 .. 8
  BY <1>2 DEF Valued
<1>4. CASE v.category \in {4, 8}
  <2>1. PICK t \in 5 .. 14 : v.ranks = <<t>>
    BY <1>2, <1>4 DEF Valued
  <2>2. Listing(v.category) = 1
    BY <1>4 DEF Listing
  <2>3. DOMAIN v.ranks = 1 .. 1 /\ v.ranks[1] = t /\ \A i \in 1 .. 1 : i = 1
    BY <2>1
  <2> QED BY <1>1, <1>3, <2>2, <2>3 DEF IsValue
<1>5. CASE v.category \notin {4, 8}
  <2>1. PICK c : c = ShapeOf(v.category)
    OBVIOUS
  <2>2. Lists(v.ranks, h) /\ Shaped(v.ranks, h, c)
    BY <1>2, <1>5, <2>1 DEF Valued
  <2>3. c \in Shapes
    BY <1>3, <2>1 DEF ShapeOf, Shapes
  <2>4. Listing(v.category) = Len(c)
    BY <1>5, <2>1 DEF Listing
  <2>5. PICK s : s = v.ranks
    OBVIOUS
  <2>6. Len(c) \in 2 .. 5 /\ DOMAIN s = 1 .. Len(c) /\ \A i \in 1 .. Len(c) : s[i] \in 2 .. 14
    BY <2>2, <2>3, <2>5, ListFacts
  <2>7. Len(c) \in 1 .. 5
    BY <2>6
  <2> QED BY <1>1, <1>3, <2>4, <2>5, <2>6, <2>7 DEF IsValue
<1> QED BY <1>4, <1>5

\* w is at least v: a higher category, or a list that is the same or is higher
\* where they first differ.
AtMost(v, w) ==
  \/ v.category < w.category
  \/ /\ v.category = w.category
     /\ \/ \A i \in 1 .. Listing(v.category) : v.ranks[i] = w.ranks[i]
        \/ \E m \in 1 .. Listing(v.category) :
             /\ v.ranks[m] < w.ranks[m]
             /\ \A i \in 1 .. Listing(v.category) : i < m => v.ranks[i] = w.ranks[i]

\* CompareHandValue orders the values so.
LEMMA CompareOrders ==
  ASSUME NEW v, NEW w, IsValue(v), IsValue(w)
  PROVE  /\ Compare(v, w) <= 0 <=> AtMost(v, w)
         /\ Compare(v, w) > 0 => AtMost(w, v)
<1>1. v.category \in 0 .. 8 /\ w.category \in 0 .. 8
  BY DEF IsValue
<1>2. CASE v.category # w.category
  <2>1. Compare(v, w) = IF v.category > w.category THEN 1 ELSE -1
    BY <1>2 DEF Compare
  <2>2. (AtMost(v, w) <=> v.category < w.category) /\ (AtMost(w, v) <=> w.category < v.category)
    BY <1>2 DEF AtMost
  <2> QED BY <1>1, <1>2, <2>1, <2>2
<1>3. CASE v.category = w.category
  <2>1. PICK n : n = Listing(v.category)
    OBVIOUS
  <2>2. PICK s, t : s = v.ranks /\ t = w.ranks
    OBVIOUS
  <2>3. /\ n \in Nat /\ DOMAIN v.ranks = 1 .. n /\ DOMAIN w.ranks = 1 .. n
        /\ \A i \in 1 .. n : s[i] \in 2 .. 14 /\ t[i] \in 2 .. 14
    BY <1>3, <2>1, <2>2 DEF IsValue
  <2>4. \/ (\A i \in 1 .. n : v.ranks[i] = w.ranks[i]) /\ Compare(v, w) = 0
        \/ \E m \in 1 .. n :
             /\ v.ranks[m] # w.ranks[m]
             /\ \A i \in 1 .. n : i < m => v.ranks[i] = w.ranks[i]
             /\ Compare(v, w) = IF v.ranks[m] > w.ranks[m] THEN 1 ELSE -1
    BY ONLY <1>3, <2>3, CompareLists
  <2>5. \/ (\A i \in 1 .. n : s[i] = t[i]) /\ Compare(v, w) = 0
        \/ \E m \in 1 .. n :
             /\ s[m] # t[m]
             /\ \A i \in 1 .. n : i < m => s[i] = t[i]
             /\ Compare(v, w) = IF s[m] > t[m] THEN 1 ELSE -1
    BY <2>2, <2>4
  <2>6. /\ ~ (v.category < w.category) /\ ~ (w.category < v.category)
    BY <1>1, <1>3
  <2>7. /\ AtMost(v, w) <=> \/ \A i \in 1 .. n : s[i] = t[i]
                            \/ \E m \in 1 .. n : s[m] < t[m] /\ \A i \in 1 .. n : i < m => s[i] = t[i]
        /\ AtMost(w, v) <=> \/ \A i \in 1 .. n : t[i] = s[i]
                            \/ \E m \in 1 .. n : t[m] < s[m] /\ \A i \in 1 .. n : i < m => t[i] = s[i]
    BY ONLY <1>3, <2>1, <2>2, <2>6, Zenon DEF AtMost
  <2>8. CASE (\A i \in 1 .. n : s[i] = t[i]) /\ Compare(v, w) = 0
    <3>1. AtMost(v, w)
      BY <2>7, <2>8
    <3> QED BY <2>8, <3>1
  <2>9. ASSUME NEW m \in 1 .. n, s[m] # t[m], \A i \in 1 .. n : i < m => s[i] = t[i],
               Compare(v, w) = IF s[m] > t[m] THEN 1 ELSE -1
        PROVE  /\ Compare(v, w) <= 0 <=> AtMost(v, w)
               /\ Compare(v, w) > 0 => AtMost(w, v)
    <3>1. PICK x \in 2 .. 14, y \in 2 .. 14 : x = s[m] /\ y = t[m]
      BY <2>3
    <3>2. CASE x < y
      <4>1. AtMost(v, w)
        BY <2>7, <2>9, <3>1, <3>2
      <4>2. Compare(v, w) = -1
        BY <2>9, <3>1, <3>2
      <4> QED BY <4>1, <4>2
    <3>3. CASE y < x
      <4>1. AtMost(w, v)
        <5>1. \A i \in 1 .. n : i < m => t[i] = s[i]
          BY <2>9
        <5> QED BY <2>7, <3>1, <3>3, <5>1
      <4>2. Compare(v, w) = 1
        BY <2>9, <3>1, <3>3
      <4>3. ~ AtMost(v, w)
        <5>1. ~ (\A i \in 1 .. n : s[i] = t[i])
          BY <2>9
        <5>2. ASSUME NEW k \in 1 .. n, s[k] < t[k], \A i \in 1 .. n : i < k => s[i] = t[i]
              PROVE  FALSE
          <6>1. s[k] \in 2 .. 14 /\ t[k] \in 2 .. 14
            BY <2>3
          <6>2. CASE k < m
            <7>1. s[k] = t[k]
              BY <2>9, <6>2
            <7> QED BY <5>2, <6>1, <7>1
          <6>3. CASE m < k
            <7>1. s[m] = t[m]
              BY <5>2, <6>3
            <7> QED BY <2>9, <7>1
          <6>4. CASE m = k
            <7>1. x < y
              BY <3>1, <5>2, <6>4
            <7> QED BY <3>3, <7>1
          <6>5. k \in Nat /\ m \in Nat
            BY <2>3
          <6> QED BY <6>2, <6>3, <6>4, <6>5
        <5> QED BY <2>7, <5>1, <5>2
      <4> QED BY <4>1, <4>2, <4>3
    <3>4. x # y
      BY <2>9, <3>1
    <3> QED BY <3>2, <3>3, <3>4
  <2> QED BY <2>5, <2>8, <2>9
<1> QED BY <1>2, <1>3

\* The order is transitive.
LEMMA AtMostTransitive ==
  ASSUME NEW u, NEW v, NEW w, IsValue(u), IsValue(v), IsValue(w), AtMost(u, v), AtMost(v, w)
  PROVE  AtMost(u, w)
<1>1. u.category \in 0 .. 8 /\ v.category \in 0 .. 8 /\ w.category \in 0 .. 8
  BY DEF IsValue
<1>2. CASE u.category < v.category \/ v.category < w.category
  <2>1. u.category <= v.category /\ v.category <= w.category
    BY <1>1 DEF AtMost
  <2>2. u.category < w.category
    BY <1>1, <1>2, <2>1
  <2> QED BY <2>2 DEF AtMost
<1>3. CASE u.category = v.category /\ v.category = w.category
  <2>1. PICK n, r, s, t : n = Listing(u.category) /\ r = u.ranks /\ s = v.ranks /\ t = w.ranks
    OBVIOUS
  <2>2. /\ n \in Nat
        /\ \A i \in 1 .. n : r[i] \in 2 .. 14 /\ s[i] \in 2 .. 14 /\ t[i] \in 2 .. 14
    BY <1>3, <2>1 DEF IsValue
  <2>3. ~ (u.category < v.category) /\ ~ (v.category < w.category)
    BY <1>1, <1>3
  <2>4. \/ \A i \in 1 .. n : r[i] = s[i]
        \/ \E m \in 1 .. n : r[m] < s[m] /\ \A i \in 1 .. n : i < m => r[i] = s[i]
    BY <2>1, <2>3, Zenon DEF AtMost
  <2>5. \/ \A i \in 1 .. n : s[i] = t[i]
        \/ \E m \in 1 .. n : s[m] < t[m] /\ \A i \in 1 .. n : i < m => s[i] = t[i]
    BY <1>3, <2>1, <2>3, Zenon DEF AtMost
  <2>6. \/ \A i \in 1 .. n : r[i] = t[i]
        \/ \E m \in 1 .. n : r[m] < t[m] /\ \A i \in 1 .. n : i < m => r[i] = t[i]
    <3>1. CASE \A i \in 1 .. n : r[i] = s[i]
      BY <2>5, <3>1
    <3>2. CASE \A i \in 1 .. n : s[i] = t[i]
      BY <2>4, <3>2
    <3>3. ASSUME NEW a \in 1 .. n, r[a] < s[a], \A i \in 1 .. n : i < a => r[i] = s[i],
                 NEW b \in 1 .. n, s[b] < t[b], \A i \in 1 .. n : i < b => s[i] = t[i]
          PROVE  \E m \in 1 .. n : r[m] < t[m] /\ \A i \in 1 .. n : i < m => r[i] = t[i]
      <4>1. a \in Nat /\ b \in Nat
        BY <2>2
      <4>2. CASE a < b
        <5>1. r[a] < t[a]
          BY <3>3, <4>2
        <5>2. \A i \in 1 .. n : i < a => i < b
          BY <4>1, <4>2
        <5>3. \A i \in 1 .. n : i < a => r[i] = t[i]
          BY <3>3, <5>2
        <5> QED BY <5>1, <5>3
      <4>3. CASE b < a
        <5>1. r[b] < t[b]
          BY <3>3, <4>3
        <5>2. \A i \in 1 .. n : i < b => i < a
          BY <4>1, <4>3
        <5>3. \A i \in 1 .. n : i < b => r[i] = t[i]
          BY <3>3, <5>2
        <5> QED BY <5>1, <5>3
      <4>4. CASE a = b
        <5>1. PICK x \in 2 .. 14, y \in 2 .. 14, z \in 2 .. 14 : x = r[a] /\ y = s[a] /\ z = t[a]
          BY <2>2
        <5>2. x < z
          BY <3>3, <4>4, <5>1
        <5>3. \A i \in 1 .. n : i < a => r[i] = t[i]
          BY <3>3, <4>4
        <5> QED BY <5>1, <5>2, <5>3
      <4> QED BY <4>1, <4>2, <4>3, <4>4
    <3> QED BY <2>4, <2>5, <3>1, <3>2, <3>3
  <2> QED BY <1>3, <2>1, <2>6, Zenon DEF AtMost
<1>4. \/ u.category < v.category \/ v.category < w.category
      \/ u.category = v.category /\ v.category = w.category
  BY DEF AtMost
<1> QED BY <1>2, <1>3, <1>4

\* F maps every set of D to the best value of its hands, the hands being taken
\* out of a set one after another.
Bests(F, D) ==
  F = [s \in D |-> IF s = {} THEN Nothing ELSE Better(Pick(s), F[s \ {Pick(s)}])]

\* BestOf, with the definitions of the library expanded.
LEMMA BestDefinition ==
  ASSUME NEW S
  PROVE  BestOf(S) = (CHOOSE F : Bests(F, SUBSET Hands5(S)))[Hands5(S)]
BY DEF BestOf, FoldSet, MapThenFoldSet, Bests, Pick

\* The recursion has a solution on the sets of every size.
LEMMA BestsExist ==
  ASSUME NEW S, IsFiniteSet(S)
  PROVE  \A n \in Nat : \E F : Bests(F, UpTo(S, n))
<1> DEFINE Bad == {n \in Nat : ~ \E F : Bests(F, UpTo(S, n))}
<1>1. SUFFICES ASSUME Bad # {} PROVE FALSE
  OBVIOUS
<1>2. Min(Bad) \in Bad /\ \A k \in Bad : Min(Bad) <= k
  <2>1. Bad \in SUBSET Nat
    OBVIOUS
  <2> HIDE DEF Bad
  <2> QED BY <1>1, <2>1, MinOfNaturals
<1>3. PICK n \in Nat : n \in Bad /\ \A k \in Nat : k < n => k \notin Bad
  BY <1>2
<1>4. CASE n = 0
  <2> DEFINE F == [s \in UpTo(S, n) |-> Nothing]
  <2>1. \A s \in UpTo(S, n) : s = {}
    BY <1>4, FS_Subset, FS_CardinalityType, FS_EmptySet DEF UpTo
  <2>2. Bests(F, UpTo(S, n))
    BY <2>1 DEF Bests
  <2> QED BY <1>3, <2>2
<1>5. CASE n # 0
  <2>1. PICK F : Bests(F, UpTo(S, n - 1))
    BY <1>3, <1>5
  <2> DEFINE G == [s \in UpTo(S, n) |->
                     IF s = {} THEN Nothing ELSE Better(Pick(s), F[s \ {Pick(s)}])]
  <2>2. ASSUME NEW s \in UpTo(S, n), s # {}
        PROVE  G[s \ {Pick(s)}] = F[s \ {Pick(s)}]
    <3> DEFINE r == s \ {Pick(s)}
    <3>1. r \in UpTo(S, n - 1) /\ r \in UpTo(S, n)
      BY <2>2, PickFacts DEF UpTo
    <3> HIDE DEF r
    <3>2. F[r] = IF r = {} THEN Nothing ELSE Better(Pick(r), F[r \ {Pick(r)}])
      BY <2>1, <3>1 DEF Bests
    <3> QED BY <3>1, <3>2 DEF r
  <2>3. Bests(G, UpTo(S, n))
    BY <2>2 DEF Bests
  <2> QED BY <1>3, <2>3
<1> QED BY <1>4, <1>5

\* Five of a player's cards are a hand, there is one, and finitely many.
LEMMA HandsAmong ==
  ASSUME NEW S \in SUBSET Deck
  PROVE  /\ Hands5(S) \subseteq Hands5(Deck) /\ IsFiniteSet(Hands5(S))
         /\ Cardinality(S) >= 5 => Hands5(S) # {}
<1>1. IsFiniteSet(S) /\ Cardinality(S) \in Nat
  BY DeckFinite, FS_Subset, FS_CardinalityType
<1>2. Hands5(S) \subseteq Hands5(Deck)
  BY DEF Hands5, kSubset
<1>3. IsFiniteSet(Hands5(S))
  <2>1. Hands5(S) \in SUBSET SUBSET S
    BY DEF Hands5, kSubset
  <2>2. IsFiniteSet(SUBSET S)
    BY <1>1, FS_SUBSET
  <2> QED BY <2>1, <2>2, FS_Subset
<1>4. ASSUME Cardinality(S) >= 5 PROVE Hands5(S) # {}
  <2>1. PICK f : f \in Bijection(1 .. Cardinality(S), S)
    BY <1>1, FS_CardinalityType DEF ExistsBijection
  <2>2. \A p \in S : \E i \in 1 .. Cardinality(S) : f[i] = p
    BY <2>1 DEF Bijection, Surjection
  <2> DEFINE pos == [p \in S |-> CHOOSE i \in 1 .. Cardinality(S) : f[i] = p]
  <2>3. \A p \in S : pos[p] \in 1 .. Cardinality(S) /\ f[pos[p]] = p
    BY <2>2
  <2>4. pos \in [S -> Nat] /\ \A p, q \in S : pos[p] = pos[q] => p = q
    <3>1. \A p \in S : pos[p] \in Nat
      BY <1>1, <2>3
    <3>2. \A p, q \in S : pos[p] = pos[q] => p = q
      <4> HIDE DEF pos
      <4> QED BY <2>3
    <3>3. pos = [p \in S |-> pos[p]]
      OBVIOUS
    <3> HIDE DEF pos
    <3> QED BY <3>1, <3>2, <3>3
  <2> HIDE DEF pos
  <2> DEFINE five == {p \in S : Cardinality({q \in S : pos[q] < pos[p]}) < 5}
  <2>5. Cardinality(five) = 5
    <3>1. 5 \in Nat /\ 5 <= Cardinality(S)
      BY <1>1, <1>4
    <3> QED BY <1>1, <2>4, <3>1, RanksCount
  <2>6. five \in SUBSET S
    OBVIOUS
  <2> HIDE DEF five
  <2>7. five \in Hands5(S)
    BY <2>5, <2>6 DEF Hands5, kSubset
  <2> QED BY <2>7
<1> QED BY <1>2, <1>3, <1>4

\* BestOfSeven returns the value of one of the hands, and no hand's is higher.
LEMMA BestFacts ==
  ASSUME NEW S \in SUBSET Deck, Cardinality(S) >= 5
  PROVE  \E h \in Hands5(S) :
           /\ BestOf(S) = EvaluateFive(h)
           /\ \A q \in Hands5(S) : Compare(EvaluateFive(q), EvaluateFive(h)) <= 0
<1> DEFINE H == Hands5(S)
<1>1. H \subseteq Hands5(Deck) /\ IsFiniteSet(H) /\ H # {}
  BY HandsAmong
<1>2. BestOf(S) = (CHOOSE F : Bests(F, SUBSET H))[H]
  BY BestDefinition
<1> HIDE DEF H
<1>3. \E F : Bests(F, SUBSET H)
  <2>1. Cardinality(H) \in Nat
    BY <1>1, FS_CardinalityType
  <2>2. UpTo(H, Cardinality(H)) = SUBSET H
    BY <1>1, FS_Subset DEF UpTo
  <2>3. \E F : Bests(F, UpTo(H, Cardinality(H)))
    BY <1>1, <2>1, BestsExist
  <2> QED BY <2>2, <2>3
<1>4. PICK F : Bests(F, SUBSET H) /\ BestOf(S) = F[H]
  BY <1>2, <1>3
<1> DEFINE Best(s, v) == \E h \in s : /\ v = EvaluateFive(h)
                                      /\ \A q \in s : AtMost(EvaluateFive(q), v)
           B == {s \in SUBSET H : IF s = {} THEN F[s] = Nothing ELSE Best(s, F[s])}
<1>5. {} \in B
  <2>1. F[{}] = Nothing
    BY <1>4 DEF Bests
  <2> QED BY <2>1
<1>6. ASSUME NEW s \in SUBSET H, s # {}, s \ {Pick(s)} \in B
      PROVE  s \in B
  <2>1. PICK x, r, v, e : x = Pick(s) /\ r = s \ {Pick(s)} /\ v = F[r] /\ e = EvaluateFive(x)
    OBVIOUS
  <2>2. x \in s /\ s = r \cup {x} /\ r \in SUBSET H /\ r \in B
    <3>1. Pick(s) \in s /\ s \ {Pick(s)} \in SUBSET H
      BY <1>1, <1>6, PickFacts
    <3>2. r \in B
      BY <1>6, <2>1, Zenon
    <3> HIDE DEF B
    <3> QED BY <2>1, <3>1, <3>2
  <2>3. F[s] = IF Compare(e, v) > 0 THEN e ELSE v
    <3>1. F[s] = Better(x, v)
      BY <1>4, <1>6, <2>1 DEF Bests
    <3> QED BY <2>1, <3>1 DEF Better
  <2>4. \A q \in H : IsValue(EvaluateFive(q)) /\ AtMost(EvaluateFive(q), EvaluateFive(q))
    <3>1. \A q \in H : IsValue(EvaluateFive(q))
      BY <1>1, ValueShape
    <3> QED BY <3>1 DEF AtMost
  <2>5. CASE r = {}
    <3>1. v = Nothing
      BY <2>1, <2>2, <2>5
    <3>2. Compare(e, v) = 1
      <4>1. e.category \in 0 .. 8 /\ v.category = -1
        <5>1. IsValue(e)
          BY <1>6, <2>1, <2>2, <2>4
        <5>2. Nothing.category = -1
          BY DEF Nothing
        <5> QED BY <3>1, <5>1, <5>2 DEF IsValue
      <4> QED BY <4>1 DEF Compare
    <3>3. F[s] = e /\ s = {x}
      BY <2>2, <2>3, <2>5, <3>2
    <3>4. Best(s, e)
      BY <2>1, <2>2, <2>4, <3>3
    <3> HIDE DEF Best
    <3> QED BY <1>6, <3>3, <3>4
  <2>6. CASE r # {}
    <3>1. PICK h \in r : v = EvaluateFive(h) /\ \A q \in r : AtMost(EvaluateFive(q), v)
      BY <2>1, <2>2, <2>6
    <3>2. IsValue(v) /\ IsValue(e) /\ AtMost(e, e) /\ AtMost(v, v)
      BY <2>1, <2>2, <2>4, <3>1
    <3>3. CASE Compare(e, v) > 0
      <4>1. F[s] = e /\ AtMost(v, e)
        BY <2>3, <3>2, <3>3, CompareOrders
      <4>2. \A q \in r : AtMost(EvaluateFive(q), e)
        <5>1. TAKE q \in r
        <5>2. IsValue(EvaluateFive(q)) /\ AtMost(EvaluateFive(q), v)
          BY <2>2, <2>4, <3>1
        <5> QED BY <3>2, <4>1, <5>2, AtMostTransitive
      <4>3. Best(s, e)
        BY <2>1, <2>2, <3>2, <4>2
      <4> HIDE DEF Best
      <4> QED BY <1>6, <4>1, <4>3
    <3>4. CASE ~ (Compare(e, v) > 0)
      <4>1. F[s] = v
        BY <2>3, <3>4
      <4>2. AtMost(e, v)
        <5>1. Compare(e, v) \in {-1, 0, 1}
          BY DEF Compare
        <5>2. Compare(e, v) <= 0
          BY <3>4, <5>1
        <5> QED BY <3>2, <5>2, CompareOrders
      <4>3. Best(s, v)
        BY <2>1, <2>2, <3>1, <4>2
      <4> HIDE DEF Best
      <4> QED BY <1>6, <4>1, <4>3
    <3> QED BY <3>3, <3>4
  <2> QED BY <2>5, <2>6
<1>7. SUBSET H \subseteq B
  <2> HIDE DEF B
  <2> QED BY <1>1, <1>5, <1>6, PickInduction
<1>8. Best(H, F[H])
  BY <1>1, <1>7
<1>9. PICK h \in H : F[H] = EvaluateFive(h) /\ \A q \in H : AtMost(EvaluateFive(q), F[H])
  BY <1>8
<1>10. \A q \in H : Compare(EvaluateFive(q), EvaluateFive(h)) <= 0
  <2>1. TAKE q \in H
  <2>2. IsValue(EvaluateFive(q)) /\ IsValue(EvaluateFive(h))
    BY <1>1, ValueShape
  <2>3. AtMost(EvaluateFive(q), EvaluateFive(h))
    BY <1>9
  <2> QED BY <2>2, <2>3, CompareOrders
<1> QED BY <1>4, <1>9, <1>10 DEF H

-----------------------------------------------------------------------------
(* The theorems. *)

\* Cards come from the deck.
LEMMA CardsFromDeck == Spec => [](cards \subseteq Deck)
<1>1. Init => cards \subseteq Deck
  BY DEF Init
<1>2. cards \subseteq Deck /\ [Next]_cards => (cards \subseteq Deck)'
  BY DEF Next, Draw
<1> QED BY <1>1, <1>2, PTL DEF Spec

\* EvaluateFive and CompareHandValue rank any two hands of any deck as the rules
\* of poker do.
THEOREM HandsRankAsTheRules == Spec => []RanksAsTheRules
<1>1. cards \subseteq Deck => RanksAsTheRules
  <2>1. SUFFICES ASSUME cards \subseteq Deck, Cardinality(cards) = 5, NEW h \in Hands5(Deck)
                 PROVE  Compare(Profile(cards).value, Profile(h).value) =
                          (IF Beats(Profile(cards), Profile(h)) THEN 1
                           ELSE IF Beats(Profile(h), Profile(cards)) THEN -1 ELSE 0)
    BY DEF RanksAsTheRules, AllProfiles
  <2>2. cards \in Hands5(Deck)
    BY <2>1 DEF Hands5, kSubset
  <2>3. Profile(cards).value = EvaluateFive(cards) /\ Profile(h).value = EvaluateFive(h)
    BY DEF Profile
  <2>4. Valued(cards, EvaluateFive(cards)) /\ Valued(h, EvaluateFive(h))
    BY <2>2, ValueFacts
  <2>5. Compare(EvaluateFive(cards), EvaluateFive(h)) =
          (IF RulesPrefer(cards, h) THEN 1 ELSE IF RulesPrefer(h, cards) THEN -1 ELSE 0)
    BY <2>2, <2>4, CompareFacts
  <2>6. /\ Beats(Profile(cards), Profile(h)) <=> RulesPrefer(cards, h)
        /\ Beats(Profile(h), Profile(cards)) <=> RulesPrefer(h, cards)
    BY BeatsFacts
  <2> QED BY <2>3, <2>5, <2>6
<1> QED BY <1>1, CardsFromDeck, PTL

\* BestOfSeven returns the value of five of the cards that no other five beat by
\* the rules, for any deck and any number of cards.
THEOREM BestStaysUnbeaten == Spec => []BestIsUnbeaten
<1>1. cards \subseteq Deck => BestIsUnbeaten
  <2>1. SUFFICES ASSUME cards \subseteq Deck, Cardinality(cards) >= 5
                 PROVE  \E p \in {Profile(h) : h \in Hands5(cards)} :
                          /\ p.value = BestOf(cards)
                          /\ \A q \in {Profile(h) : h \in Hands5(cards)} : ~ Beats(q, p)
    BY DEF BestIsUnbeaten
  <2>2. PICK h \in Hands5(cards) :
          /\ BestOf(cards) = EvaluateFive(h)
          /\ \A q \in Hands5(cards) : Compare(EvaluateFive(q), EvaluateFive(h)) <= 0
    BY <2>1, BestFacts
  <2>3. Profile(h).value = BestOf(cards)
    BY <2>2 DEF Profile
  <2>4. ASSUME NEW q \in Hands5(cards), Beats(Profile(q), Profile(h)) PROVE FALSE
    <3>1. q \in Hands5(Deck) /\ h \in Hands5(Deck)
      BY <2>1, HandsAmong
    <3>2. Valued(q, EvaluateFive(q)) /\ Valued(h, EvaluateFive(h))
      BY <3>1, ValueFacts
    <3>3. RulesPrefer(q, h)
      BY <2>4, BeatsFacts
    <3>4. Compare(EvaluateFive(q), EvaluateFive(h)) = 1
      BY <3>1, <3>2, <3>3, CompareFacts
    <3>5. Compare(EvaluateFive(q), EvaluateFive(h)) <= 0
      BY <2>2
    <3> QED BY <3>4, <3>5
  <2> QED BY <2>3, <2>4
<1> QED BY <1>1, CardsFromDeck, PTL
=============================================================================
