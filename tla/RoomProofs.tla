----------------------------- MODULE RoomProofs ------------------------------
(***************************************************************************)
(* Theorems of Room, for any users, any orders of the hands' ranks and any *)
(* bounds.                                                                 *)
(*                                                                         *)
(* RoomInv is the inductive invariant.  What the runs check is not         *)
(* inductive: that the owner is at the table needs that members are not    *)
(* watching; that the hand agrees with the room needs that the hand's      *)
(* human players are members and that its removed AI players never come    *)
(* back (PlayersKnown), and that a hand is either Going, Done or panicked  *)
(* (HandOK) after every answer and every leave.  Two kinds of hands are    *)
(* told apart.  One that nobody has left (Whole) is in play as Hand        *)
(* describes it, and the lemmas about Hand apply to it with what the       *)
(* players brought; one that somebody left keeps only what LeaveRoom       *)
(* restores: positions in range, stacks and stakes of whoever is still     *)
(* there (Going).  Settled, GoesOn and Runs say what a call of the engine  *)
(* makes of a hand; one lemma per engine operation shows it, and one lemma *)
(* per store method then keeps RoomInv.                                    *)
(***************************************************************************)
EXTENDS Room, HandFacts, SequenceTheorems

-----------------------------------------------------------------------------
(* Some of the players, in order. *)

\* Induction along a sequence, for a property given as the set B it defines.
LEMMA AppendInduction ==
  ASSUME NEW T, NEW B, <<>> \in B,
         \A s \in Seq(T), x \in T : s \in B => Append(s, x) \in B
  PROVE  Seq(T) \subseteq B
<1> DEFINE Bad == {n \in Nat : \E s \in Seq(T) : s \notin B /\ Len(s) = n}
<1>1. SUFFICES ASSUME NEW t \in Seq(T), t \notin B PROVE FALSE
  OBVIOUS
<1>2. Min(Bad) \in Bad /\ \A k \in Bad : Min(Bad) <= k
  <2>1. Bad \in SUBSET Nat /\ Len(t) \in Bad
    BY <1>1
  <2> HIDE DEF Bad
  <2> QED BY <2>1, MinOfNaturals
<1>3. PICK s \in Seq(T) : s \notin B /\ Len(s) = Min(Bad)
  BY <1>2
<1>4. s # <<>>
  BY <1>3
<1>5. PICK front \in Seq(T), last \in T : s = Append(front, last)
  BY <1>4, SequenceEmptyOrAppend
<1>6. front \notin B
  BY <1>3, <1>5
<1>7. Len(s) = Len(front) + 1 /\ Len(front) \in Nat
  BY <1>5
<1>8. Len(front) \in Bad
  BY <1>6, <1>7
<1> HIDE DEF Bad
<1> QED BY <1>2, <1>3, <1>7, <1>8

\* The players of a longer sequence.
LEMMA AppendFacts ==
  ASSUME NEW T, NEW s \in Seq(T), NEW x
  PROVE  /\ Range(Append(s, x)) = Range(s) \cup {x}
         /\ IsInjective(Append(s, x)) <=> IsInjective(s) /\ x \notin Range(s)
<1> DEFINE t == Append(s, x)
<1>1. /\ DOMAIN s = 1 .. Len(s) /\ Len(s) \in Nat /\ DOMAIN t = 1 .. Len(s) + 1
      /\ t[Len(s) + 1] = x /\ \A i \in 1 .. Len(s) : t[i] = s[i]
  OBVIOUS
<1> HIDE DEF t
<1>2. Range(t) = Range(s) \cup {x}
  <2>1. Range(t) = {t[i] : i \in 1 .. Len(s) + 1} /\ Range(s) = {s[i] : i \in 1 .. Len(s)}
    BY <1>1 DEF Range
  <2>2. 1 .. Len(s) + 1 = (1 .. Len(s)) \cup {Len(s) + 1}
    BY <1>1
  <2> QED BY <1>1, <2>1, <2>2
<1>3. IsInjective(t) => IsInjective(s) /\ x \notin Range(s)
  BY <1>1 DEF IsInjective, Range
<1>4. ASSUME IsInjective(s), x \notin Range(s) PROVE IsInjective(t)
  BY <1>1, <1>4 DEF IsInjective, Range
<1> QED BY <1>2, <1>3, <1>4 DEF t

\* f is what Among keeps of the first n players of ps, one after another.
Keeps(f, ps, S, n) ==
  f = [i \in 0 .. n |->
         IF i = 0 THEN <<>> ELSE IF ps[i] \in S THEN Append(f[i - 1], ps[i]) ELSE f[i - 1]]

\* There is such a function.
LEMMA KeepsExists ==
  ASSUME NEW ps, NEW S
  PROVE  \A n \in Nat : \E f : Keeps(f, ps, S, n)
<1> DEFINE Bad == {n \in Nat : ~ \E f : Keeps(f, ps, S, n)}
<1>1. SUFFICES ASSUME Bad # {} PROVE FALSE
  OBVIOUS
<1>2. Min(Bad) \in Bad /\ \A k \in Bad : Min(Bad) <= k
  <2>1. Bad \in SUBSET Nat
    OBVIOUS
  <2> HIDE DEF Bad
  <2> QED BY <1>1, <2>1, MinOfNaturals
<1>3. PICK n \in Nat : n \in Bad /\ \A k \in Nat : k < n => k \notin Bad
  BY <1>2
<1>4. CASE n = 0
  <2>1. Keeps([i \in 0 .. 0 |-> <<>>], ps, S, 0)
    BY DEF Keeps
  <2> QED BY <1>3, <1>4, <2>1
<1>5. CASE n # 0
  <2>1. PICK f : Keeps(f, ps, S, n - 1)
    BY <1>3, <1>5
  <2> DEFINE next == IF ps[n] \in S THEN Append(f[n - 1], ps[n]) ELSE f[n - 1]
             e    == [i \in 0 .. n |-> IF i = n THEN next ELSE f[i]]
  <2>2. \A i \in 0 .. n - 1 :
          f[i] = IF i = 0 THEN <<>> ELSE IF ps[i] \in S THEN Append(f[i - 1], ps[i]) ELSE f[i - 1]
    BY <2>1 DEF Keeps
  <2> HIDE DEF next
  <2>3. \A i \in 0 .. n :
          e[i] = IF i = 0 THEN <<>> ELSE IF ps[i] \in S THEN Append(e[i - 1], ps[i]) ELSE e[i - 1]
    <3>1. TAKE i \in 0 .. n
    <3>2. CASE i = n
      <4>1. e[n - 1] = f[n - 1] /\ e[n] = next
        BY <1>5
      <4> HIDE DEF e
      <4> QED BY <1>5, <3>2, <4>1 DEF next
    <3>3. CASE i # n
      <4>1. i \in 0 .. n - 1 /\ e[i] = f[i] /\ (i # 0 => e[i - 1] = f[i - 1])
        BY <3>3
      <4> HIDE DEF e
      <4> QED BY <2>2, <4>1
    <3> QED BY <3>2, <3>3
  <2>4. e = [i \in 0 .. n |-> e[i]]
    OBVIOUS
  <2> HIDE DEF e
  <2>5. Keeps(e, ps, S, n)
    BY <2>3, <2>4 DEF Keeps
  <2> QED BY <1>3, <2>5
<1> QED BY <1>4, <1>5

\* Among is the last value of such a function.
LEMMA AmongKeeps ==
  ASSUME NEW T, NEW ps \in Seq(T), NEW S
  PROVE  \E f : Keeps(f, ps, S, Len(ps)) /\ Among(ps, S) = f[Len(ps)]
<1>1. \E f : Keeps(f, ps, S, Len(ps))
  <2>1. Len(ps) \in Nat
    OBVIOUS
  <2> QED BY <2>1, KeepsExists
<1>2. Among(ps, S) = (CHOOSE f : Keeps(f, ps, S, Len(ps)))[Len(ps)]
  BY DEF Among, Keeps
<1> QED BY <1>1, <1>2

\* Among keeps nobody of nobody.
LEMMA AmongEmpty ==
  ASSUME NEW S
  PROVE  Among(<<>>, S) = <<>>
<1>1. <<>> \in Seq({}) /\ Len(<<>>) = 0
  OBVIOUS
<1>2. PICK f : Keeps(f, <<>>, S, 0) /\ Among(<<>>, S) = f[0]
  BY <1>1, AmongKeeps
<1> QED BY <1>2 DEF Keeps

\* Among decides about a player without looking at those who follow.
LEMMA AmongAppend ==
  ASSUME NEW T, NEW S, NEW s \in Seq(T), NEW x \in T
  PROVE  Among(Append(s, x), S) = IF x \in S THEN Append(Among(s, S), x) ELSE Among(s, S)
<1> DEFINE t == Append(s, x)
<1>1. /\ t \in Seq(T) /\ Len(t) = Len(s) + 1 /\ Len(s) \in Nat
      /\ t[Len(s) + 1] = x /\ \A i \in 1 .. Len(s) : t[i] = s[i]
  OBVIOUS
<1> HIDE DEF t
<1>2. PICK f : Keeps(f, s, S, Len(s)) /\ Among(s, S) = f[Len(s)]
  BY AmongKeeps
<1>3. PICK e : Keeps(e, t, S, Len(s) + 1) /\ Among(t, S) = e[Len(s) + 1]
  BY <1>1, AmongKeeps
<1> DEFINE Bad == {i \in Nat : i <= Len(s) /\ f[i] # e[i]}
<1>4. Bad = {}
  <2>1. SUFFICES ASSUME Bad # {} PROVE FALSE
    OBVIOUS
  <2>2. Min(Bad) \in Bad /\ \A k \in Bad : Min(Bad) <= k
    <3>1. Bad \in SUBSET Nat
      OBVIOUS
    <3> HIDE DEF Bad
    <3> QED BY <2>1, <3>1, MinOfNaturals
  <2>3. PICK i \in Nat : i <= Len(s) /\ f[i] # e[i] /\ \A k \in Nat : k < i => k \notin Bad
    <3>1. PICK i : i = Min(Bad)
      OBVIOUS
    <3>2. i \in Nat /\ i <= Len(s) /\ f[i] # e[i]
      BY ONLY <2>2, <3>1
    <3>3. \A k \in Nat : k < i => k \notin Bad
      <4> HIDE DEF Bad
      <4> QED BY ONLY <2>2, <3>1, <3>2
    <3> QED BY ONLY <3>2, <3>3
  <2>4. f[i] = IF i = 0 THEN <<>> ELSE IF s[i] \in S THEN Append(f[i - 1], s[i]) ELSE f[i - 1]
    <3>1. i \in 0 .. Len(s)
      BY <1>1, <2>3
    <3> QED BY <1>2, <3>1 DEF Keeps
  <2>5. e[i] = IF i = 0 THEN <<>> ELSE IF t[i] \in S THEN Append(e[i - 1], t[i]) ELSE e[i - 1]
    <3>1. i \in 0 .. Len(s) + 1
      BY <1>1, <2>3
    <3> QED BY <1>3, <3>1 DEF Keeps
  <2>6. i # 0 => f[i - 1] = e[i - 1] /\ s[i] = t[i]
    BY <1>1, <2>3
  <2> QED BY <2>3, <2>4, <2>5, <2>6
<1>5. f[Len(s)] = e[Len(s)]
  BY <1>1, <1>4
<1>6. e[Len(s) + 1] = IF x \in S THEN Append(e[Len(s)], x) ELSE e[Len(s)]
  <2>1. Len(s) + 1 \in 0 .. Len(s) + 1 /\ Len(s) + 1 # 0 /\ (Len(s) + 1) - 1 = Len(s)
    BY <1>1
  <2> QED BY <1>1, <1>3, <2>1 DEF Keeps
<1> QED BY <1>2, <1>3, <1>5, <1>6 DEF t

\* Whom Among keeps.
LEMMA AmongFacts ==
  ASSUME NEW T, NEW ps \in Seq(T), NEW S
  PROVE  /\ Among(ps, S) \in Seq(T) /\ Range(Among(ps, S)) = Range(ps) \cap S
         /\ IsInjective(ps) => IsInjective(Among(ps, S))
<1> DEFINE good(s) == /\ Among(s, S) \in Seq(T) /\ Range(Among(s, S)) = Range(s) \cap S
                      /\ IsInjective(s) => IsInjective(Among(s, S))
           B == {s \in Seq(T) : good(s)}
<1>1. <<>> \in B
  <2>1. Range(<<>>) = {} /\ IsInjective(<<>>) /\ <<>> \in Seq(T)
    BY DEF Range, IsInjective
  <2>2. Among(<<>>, S) = <<>>
    BY AmongEmpty
  <2> QED BY <2>1, <2>2
<1>2. ASSUME NEW s \in Seq(T), NEW x \in T, s \in B
      PROVE  Append(s, x) \in B
  <2>1. /\ Among(s, S) \in Seq(T) /\ Range(Among(s, S)) = Range(s) \cap S
        /\ IsInjective(s) => IsInjective(Among(s, S))
    BY <1>2
  <2>2. Among(Append(s, x), S) = IF x \in S THEN Append(Among(s, S), x) ELSE Among(s, S)
    BY AmongAppend
  <2>3. /\ Range(Append(s, x)) = Range(s) \cup {x}
        /\ IsInjective(Append(s, x)) <=> IsInjective(s) /\ x \notin Range(s)
    BY AppendFacts
  <2>4. CASE x \in S
    <3>1. Among(Append(s, x), S) = Append(Among(s, S), x)
      BY <2>2, <2>4
    <3>2. /\ Range(Append(Among(s, S), x)) = Range(Among(s, S)) \cup {x}
          /\ IsInjective(Append(Among(s, S), x)) <=> IsInjective(Among(s, S)) /\ x \notin Range(Among(s, S))
      BY <2>1, AppendFacts
    <3>3. Append(Among(s, S), x) \in Seq(T) /\ Append(s, x) \in Seq(T)
      BY <2>1
    <3> QED BY <2>1, <2>3, <2>4, <3>1, <3>2, <3>3
  <2>5. CASE x \notin S
    <3>1. Among(Append(s, x), S) = Among(s, S) /\ Append(s, x) \in Seq(T)
      BY <2>2, <2>5
    <3> QED BY <2>1, <2>3, <2>5, <3>1
  <2> QED BY <2>4, <2>5
<1>3. Seq(T) \subseteq B
  <2> HIDE DEF B
  <2> QED BY <1>1, <1>2, AppendInduction
<1> QED BY <1>3

\* Among does not look at those who are not there.
LEMMA AmongSame ==
  ASSUME NEW T, NEW ps \in Seq(T), NEW S, NEW R, Range(ps) \cap S = Range(ps) \cap R
  PROVE  Among(ps, S) = Among(ps, R)
<1> DEFINE B == {s \in Seq(T) : Range(s) \cap S = Range(s) \cap R => Among(s, S) = Among(s, R)}
<1>1. <<>> \in B
  <2>1. <<>> \in Seq(T)
    OBVIOUS
  <2> QED BY <2>1, AmongEmpty
<1>2. ASSUME NEW s \in Seq(T), NEW x \in T, s \in B
      PROVE  Append(s, x) \in B
  <2>1. /\ Among(Append(s, x), S) = IF x \in S THEN Append(Among(s, S), x) ELSE Among(s, S)
        /\ Among(Append(s, x), R) = IF x \in R THEN Append(Among(s, R), x) ELSE Among(s, R)
    BY AmongAppend
  <2>2. Range(Append(s, x)) = Range(s) \cup {x} /\ Append(s, x) \in Seq(T)
    BY AppendFacts
  <2>3. ASSUME Range(Append(s, x)) \cap S = Range(Append(s, x)) \cap R
        PROVE  Among(Append(s, x), S) = Among(Append(s, x), R)
    <3>1. (x \in S <=> x \in R) /\ Range(s) \cap S = Range(s) \cap R
      BY <2>2, <2>3
    <3>2. Among(s, S) = Among(s, R)
      BY <1>2, <3>1
    <3> QED BY <2>1, <3>1, <3>2
  <2> QED BY <2>2, <2>3
<1>3. Seq(T) \subseteq B
  <2> HIDE DEF B
  <2> QED BY <1>1, <1>2, AppendInduction
<1> QED BY <1>3

\* Keeping some of those who were kept.
LEMMA AmongAmong ==
  ASSUME NEW T, NEW ps \in Seq(T), NEW S, NEW R
  PROVE  Among(Among(ps, R), S) = Among(ps, R \cap S)
<1> DEFINE B == {s \in Seq(T) : Among(Among(s, R), S) = Among(s, R \cap S)}
<1>1. <<>> \in B
  <2>1. <<>> \in Seq(T)
    OBVIOUS
  <2> QED BY <2>1, AmongEmpty
<1>2. ASSUME NEW s \in Seq(T), NEW x \in T, s \in B
      PROVE  Append(s, x) \in B
  <2>1. /\ Among(Append(s, x), R) = IF x \in R THEN Append(Among(s, R), x) ELSE Among(s, R)
        /\ Among(Append(s, x), R \cap S)
             = IF x \in R \cap S THEN Append(Among(s, R \cap S), x) ELSE Among(s, R \cap S)
    BY AmongAppend
  <2>2. Among(s, R) \in Seq(T)
    BY AmongFacts
  <2>3. Among(Append(Among(s, R), x), S)
          = IF x \in S THEN Append(Among(Among(s, R), S), x) ELSE Among(Among(s, R), S)
    BY <2>2, AmongAppend
  <2>4. Append(s, x) \in Seq(T)
    OBVIOUS
  <2>5. Among(Among(Append(s, x), R), S) = Among(Append(s, x), R \cap S)
    <3>1. Among(Among(s, R), S) = Among(s, R \cap S)
      BY <1>2
    <3>2. CASE x \in R
      <4>1. Among(Append(s, x), R) = Append(Among(s, R), x)
        BY <2>1, <3>2
      <4>2. CASE x \in S
        <5>1. Among(Append(s, x), R \cap S) = Append(Among(s, R \cap S), x)
          BY <2>1, <3>2, <4>2
        <5>2. Among(Append(Among(s, R), x), S) = Append(Among(Among(s, R), S), x)
          BY <2>3, <4>2
        <5> QED BY <3>1, <4>1, <5>1, <5>2
      <4>3. CASE x \notin S
        <5>1. Among(Append(s, x), R \cap S) = Among(s, R \cap S)
          BY <2>1, <4>3
        <5>2. Among(Append(Among(s, R), x), S) = Among(Among(s, R), S)
          BY <2>3, <4>3
        <5> QED BY <3>1, <4>1, <5>1, <5>2
      <4> QED BY <4>2, <4>3
    <3>3. CASE x \notin R
      <4>1. Among(Append(s, x), R) = Among(s, R)
        BY <2>1, <3>3
      <4>2. Among(Append(s, x), R \cap S) = Among(s, R \cap S)
        BY <2>1, <3>3
      <4> QED BY <3>1, <4>1, <4>2
    <3> QED BY <3>2, <3>3
  <2> QED BY <2>4, <2>5
<1>3. Seq(T) \subseteq B
  <2> HIDE DEF B
  <2> QED BY <1>1, <1>2, AppendInduction
<1> QED BY <1>3

\* A table of people, none of whom has two seats.
LEMMA SeatedIfDistinct ==
  ASSUME NEW T, NEW s \in Seq(T), IsInjective(s), s # <<>>
  PROVE  Seated(s)
BY DEF Seated, IsInjective, Range

\* Nobody has two seats exactly when there are as many people as seats.
LEMMA SeatsOfDistinct ==
  ASSUME NEW T, NEW s \in Seq(T), IsInjective(s)
  PROVE  IsFiniteSet(Range(s)) /\ Cardinality(Range(s)) = Len(s)
<1>1. DOMAIN s = 1 .. Len(s) /\ Len(s) \in Nat
  OBVIOUS
<1>2. Range(s) = {s[i] : i \in 1 .. Len(s)}
  BY <1>1 DEF Range
<1>3. s \in [1 .. Len(s) -> Range(s)]
  BY <1>1, <1>2
<1>4. \A i, j \in 1 .. Len(s) : s[i] = s[j] => i = j
  BY <1>1 DEF IsInjective
<1>5. \A y \in Range(s) : \E i \in 1 .. Len(s) : s[i] = y
  BY <1>2
<1> HIDE DEF Range
<1>6. s \in Bijection(1 .. Len(s), Range(s))
  BY <1>3, <1>4, <1>5 DEF Bijection, Injection, Surjection, IsInjective
<1>7. IsFiniteSet(1 .. Len(s)) /\ Cardinality(1 .. Len(s)) = Len(s)
  <2>1. PICK n \in Nat : n = Len(s)
    BY <1>1
  <2>2. PICK a \in Int : a = 1
    OBVIOUS
  <2>3. n \in Int
    BY ONLY <2>1
  <2>4. IsFiniteSet(a .. n) /\ Cardinality(a .. n) = IF a > n THEN 0 ELSE n - a + 1
    BY ONLY <2>2, <2>3, FS_Interval, Zenon
  <2>5. (IF a > n THEN 0 ELSE n - a + 1) = n
    BY ONLY <2>1, <2>2
  <2> QED BY ONLY <2>1, <2>2, <2>4, <2>5
<1>8. ExistsBijection(1 .. Len(s), Range(s))
  BY <1>6 DEF ExistsBijection
<1> QED BY <1>7, <1>8, FS_Bijection

-----------------------------------------------------------------------------
(* The hands of a room: players may leave them. *)

\* What is put in is in the pot, and the cards drawn are accounted for: two for
\* each player, more if some have left, and the board.
Backed(Q, h) ==
  /\ Shape(Q, h)
  /\ SumFunctionOnSet(h.contributed, Range(Q)) <= h.pot
  /\ h.board = BoardAt[h.stage] /\ h.drawn >= 2 * N(Q) + h.board

\* A hand in play, which players may have left since the deal.
Going(Q, h) == Backed(Q, h) /\ Contested(h)

\* A hand that is over, which players may have left before or after.
Done(h) ==
  /\ DOMAIN h = Fields /\ h.stage = "finished"
  /\ h.players \in Seq(Range(h.players)) /\ h.pot \in Nat
  /\ h.stack \in [Range(h.players) -> Nat] /\ h.contributed \in [Range(h.players) -> Nat]
  /\ \A p \in Range(h.players) : h.contributed[p] <= h.pot

\* k settles h: no chip is made, none is lost but at a showdown, and nobody has
\* less than before.
Settled(Q, h, k) ==
  /\ Over(Q, k) /\ k.folded = h.folded
  /\ SumFunctionOnSet(k.stack, Range(Q)) <= SumFunctionOnSet(h.stack, Range(Q)) + h.pot
  /\ k.reason # "showdown" =>
       SumFunctionOnSet(k.stack, Range(Q)) = SumFunctionOnSet(h.stack, Range(Q)) + h.pot
  /\ \A p \in Range(Q) : /\ k.stack[p] >= h.stack[p] /\ k.contributed[p] <= k.pot
                         /\ k.stack[p] + k.contributed[p] >= h.stack[p] + h.contributed[p]

\* k is h one answer or one street later.
GoesOn(Q, h, k) ==
  /\ Going(Q, k) /\ k.folded = h.folded
  /\ k.stack = h.stack /\ k.contributed = h.contributed /\ k.pot = h.pot
  /\ k.drawn - k.board = h.drawn - h.board

\* What the tail of an operation makes of the hand h.
Runs(Q, h, k) == k.stage = "panic" \/ Settled(Q, h, k) \/ GoesOn(Q, h, k)

\* Why dealing h on may not return: the cards run out, or the seat that was to
\* have the turn is gone.
Halts(h) == h.drawn + (5 - h.board) > DeckSize \/ BlindSeatLost(h)

\* The cards drawn so far do not run out below the board.
LEMMA BackedFacts ==
  ASSUME NEW Q, Seated(Q), NEW h, Backed(Q, h)
  PROVE  /\ Shape(Q, h) /\ N(Q) \in Nat \ {0} /\ IsFiniteSet(Range(Q))
         /\ h.board \in 0 .. 5 /\ h.drawn \in Nat /\ h.pot \in Nat
         /\ h.stage # "river" =>
              LET street == StreetAfter[h.stage] IN
              /\ street \in Streets /\ BoardOn[street] = BoardAt[street]
              /\ BoardOn[street] \in {3, 4, 5} /\ BoardOn[street] - h.board \in Nat
<1>1. Shape(Q, h) /\ N(Q) \in Nat \ {0} /\ IsFiniteSet(Range(Q)) /\ h.drawn \in Nat /\ h.pot \in Nat
  BY SeatingFacts DEF Backed, Shape, Table
<1>2. h.stage \in {"preflop", "flop", "turn", "river"} /\ h.board = BoardAt[h.stage]
  BY <1>1 DEF Backed, Shape, Streets
<1>3. h.board \in 0 .. 5
  BY <1>2 DEF BoardAt
<1>4. h.stage # "river" =>
        LET street == StreetAfter[h.stage] IN
        /\ street \in Streets /\ BoardOn[street] = BoardAt[street]
        /\ BoardOn[street] \in {3, 4, 5} /\ BoardOn[street] - h.board \in Nat
  BY <1>2 DEF StreetAfter, BoardOn, BoardAt, Streets
<1> QED BY <1>1, <1>3, <1>4

\* The payouts hold no more than the stakes.
LEMMA PayoutsWithinStakes ==
  ASSUME NEW Q, Seated(Q), NEW h, Table(Q, h)
  PROVE  SumFunctionOnSet([p \in Range(Q) |-> Payout(h, p)], Range(Q))
           <= SumFunctionOnSet(h.contributed, Range(Q))
<1> DEFINE paid == [p \in Range(Q) |-> Payout(h, p)]
<1>1. /\ IsFiniteSet(Range(Q)) /\ \A p \in Range(Q) : h.contributed[p] \in Nat
      /\ Levels(h) \subseteq Nat \ {0} /\ IsFiniteSet(Levels(h))
  BY LevelFacts
<1>2. SumFunctionOnSet(h.contributed, Range(Q)) \in Nat
  BY <1>1, SumType
<1>3. CASE Levels(h) = {}
  <2>1. \A p \in Range(Q) : paid[p] = 0
    <3>1. TAKE p \in Range(Q)
    <3>2. PICK won : won = [l \in Levels(h) |-> Share(h, p, l)]
      OBVIOUS
    <3>3. Payout(h, p) = SumFunctionOnSet(won, {})
      BY <1>3, <3>2 DEF Payout
    <3>4. IsFiniteSet({}) /\ \A x \in {} : won[x] = 0
      BY FS_EmptySet
    <3> QED BY <3>3, <3>4, SumZero
  <2> HIDE DEF paid
  <2>2. SumFunctionOnSet(paid, Range(Q)) = 0
    BY <1>1, <2>1, SumZero
  <2> QED BY <1>2, <2>2 DEF paid
<1>4. CASE Levels(h) # {}
  <2>1. PICK top \in Levels(h) : \A l \in Levels(h) : l <= top
    <3> DEFINE b == SumFunctionOnSet(h.contributed, Range(Q))
    <3>1. \A p \in Range(Q) : h.contributed[p] <= b
      BY <1>1, SumBounds
    <3>2. Active(h) \subseteq Range(Q)
      BY LevelFacts
    <3> HIDE DEF b
    <3>3. Levels(h) \in SUBSET (0 .. b)
      BY <1>1, <3>1, <3>2 DEF Levels
    <3>4. b \in Nat
      BY <1>2 DEF b
    <3>5. Max(Levels(h)) \in Levels(h) /\ \A l \in Levels(h) : Max(Levels(h)) >= l
      BY <1>4, <3>3, <3>4, MaxOfNaturals
    <3> QED BY <1>1, <3>5
  <2> DEFINE held == [q \in Range(Q) |-> Min({h.contributed[q], top})]
  <2>2. SumFunctionOnSet(paid, Range(Q)) = SumFunctionOnSet(held, Range(Q))
    BY <2>1, PayoutsAddUp
  <2>3. \A q \in Range(Q) : held[q] \in Int /\ held[q] <= h.contributed[q]
    <3>1. TAKE q \in Range(Q)
    <3>2. Min({h.contributed[q], top}) = IF h.contributed[q] <= top THEN h.contributed[q] ELSE top
      BY <1>1, <2>1, MinOfPair
    <3> QED BY <1>1, <2>1, <3>2
  <2> HIDE DEF held, paid
  <2>4. SumFunctionOnSet(held, Range(Q)) <= SumFunctionOnSet(h.contributed, Range(Q))
    BY <1>1, <2>3, SumMonotone
  <2> QED BY <2>2, <2>4 DEF paid
<1> QED BY <1>3, <1>4

\* A showdown settles the hand.
LEMMA ShowdownSettles ==
  ASSUME NEW Q, Seated(Q), NEW h, Table(Q, h), Contested(h),
         SumFunctionOnSet(h.contributed, Range(Q)) <= h.pot,
         NEW s, \A p \in Range(Q) : s[p] \in Nat, NEW k, k = Showdown(h, s)
  PROVE  Settled(Q, h, k)
<1>1. /\ Over(Q, k) /\ k.folded = h.folded /\ k.reason = "showdown"
      /\ \A p \in Range(Q) : k.stack[p] >= h.stack[p]
  BY ShowdownOver
<1>2. PICK e : /\ Table(Q, e) /\ e.folded = h.folded /\ e.pot = h.pot
               /\ e.stack = h.stack /\ e.contributed = h.contributed
               /\ PaidOut(Q, e, k)
  BY ShowdownOver
<1>3. PICK r : r = Refund(e)
  OBVIOUS
<1>4. /\ k.contributed = r.contributed /\ k.pot = r.pot
      /\ \A p \in Range(Q) : k.stack[p] = r.stack[p] + Payout(r, p)
  BY <1>2, <1>3 DEF PaidOut
<1>5. Contested(e)
  <2>1. e.players = Q /\ h.players = Q
    BY <1>2 DEF Table
  <2>2. Active(e) = Range(Q) \ e.folded
    BY ONLY Seated(Q), <2>1, SeatsOfShape
  <2>3. Active(h) = Range(Q) \ h.folded
    BY ONLY Seated(Q), <2>1, SeatsOfShape
  <2> QED BY <1>2, <2>2, <2>3 DEF Contested
<1>6. SumFunctionOnSet(e.contributed, Range(Q)) <= e.pot
  BY <1>2
<1>7. /\ Table(Q, r)
      /\ r.pot - SumFunctionOnSet(r.contributed, Range(Q))
           = e.pot - SumFunctionOnSet(e.contributed, Range(Q))
      /\ \A p \in Range(Q) : r.stack[p] + r.contributed[p] = e.stack[p] + e.contributed[p]
  BY <1>2, <1>3, <1>5, <1>6, RefundEffect
<1>8. /\ IsFiniteSet(Range(Q))
      /\ \A p \in Range(Q) : /\ r.stack[p] \in Nat /\ r.contributed[p] \in Nat
                             /\ h.stack[p] \in Nat /\ h.contributed[p] \in Nat
                             /\ Payout(r, p) \in Nat
      /\ h.pot \in Nat /\ r.pot \in Nat
  <2>1. \A p \in Range(Q) : Payout(r, p) \in Nat
    BY <1>7, PayoutType
  <2> QED BY <1>7, <2>1, SeatingFacts DEF Table
<1> DEFINE R     == Range(Q)
           paid  == [p \in R |-> Payout(r, p)]
           both  == [p \in R |-> h.stack[p] + h.contributed[p]]
<1>9. /\ SumFunctionOnSet(h.stack, R) \in Int /\ SumFunctionOnSet(h.contributed, R) \in Int
      /\ SumFunctionOnSet(r.stack, R) \in Int /\ SumFunctionOnSet(r.contributed, R) \in Nat
  BY <1>8, SumType
<1>10. SumFunctionOnSet(both, R) = SumFunctionOnSet(h.stack, R) + SumFunctionOnSet(h.contributed, R)
  <2>1. \A p \in R : h.stack[p] \in Int /\ h.contributed[p] \in Int /\ both[p] = h.stack[p] + h.contributed[p]
    BY <1>8
  <2> HIDE DEF both
  <2> QED BY <1>8, <2>1, SumAdd
<1>11. SumFunctionOnSet(both, R) = SumFunctionOnSet(r.stack, R) + SumFunctionOnSet(r.contributed, R)
  <2>1. \A p \in R : r.stack[p] \in Int /\ r.contributed[p] \in Int /\ both[p] = r.stack[p] + r.contributed[p]
    BY <1>2, <1>7, <1>8
  <2> HIDE DEF both
  <2> QED BY <1>8, <2>1, SumAdd
<1>12. SumFunctionOnSet(k.stack, R) = SumFunctionOnSet(r.stack, R) + SumFunctionOnSet(paid, R)
  <2>1. \A p \in R : r.stack[p] \in Int /\ paid[p] \in Int /\ k.stack[p] = r.stack[p] + paid[p]
    BY <1>4, <1>8
  <2> HIDE DEF paid
  <2> QED BY <1>8, <2>1, SumAdd
<1>13. SumFunctionOnSet(paid, R) <= SumFunctionOnSet(r.contributed, R)
  BY <1>7, PayoutsWithinStakes
<1>14. SumFunctionOnSet(paid, R) \in Int
  <2>1. \A p \in R : paid[p] \in Int
    BY <1>8
  <2> HIDE DEF paid
  <2> QED BY <1>8, <2>1, SumType
<1> HIDE DEF paid, both
<1>15. SumFunctionOnSet(k.stack, R) <= SumFunctionOnSet(h.stack, R) + h.pot
  BY <1>8, <1>9, <1>10, <1>11, <1>12, <1>13, <1>14
<1>16. ASSUME NEW p \in R
       PROVE  /\ k.contributed[p] <= k.pot
              /\ k.stack[p] + k.contributed[p] >= h.stack[p] + h.contributed[p]
  <2>1. r.contributed[p] <= SumFunctionOnSet(r.contributed, R)
    BY <1>8, SumBounds
  <2>2. SumFunctionOnSet(r.contributed, R) <= r.pot
    BY <1>2, <1>7, <1>8, <1>9
  <2>3. k.contributed[p] <= k.pot
    BY <1>4, <1>8, <1>9, <2>1, <2>2
  <2>4. k.stack[p] + k.contributed[p] >= h.stack[p] + h.contributed[p]
    BY <1>2, <1>4, <1>7, <1>8
  <2> QED BY <2>3, <2>4
<1> QED BY <1>1, <1>15, <1>16 DEF Settled

\* So does finishByLastStanding.
LEMMA LastStandingSettles ==
  ASSUME NEW Q, Seated(Q), NEW h, Backed(Q, h), Active(h) # {}
  PROVE  Settled(Q, h, LastStanding(h))
<1> DEFINE k == LastStanding(h)
<1>1. Shape(Q, h) /\ IsFiniteSet(Range(Q)) /\ h.pot \in Nat
  BY BackedFacts
<1>2. /\ Over(Q, k) /\ k.folded = h.folded
      /\ \A p \in Range(Q) : k.stack[p] >= h.stack[p]
      /\ TakesPot(Q, h, k)
  BY <1>1, LastStandingOver
<1>3. k.contributed = h.contributed /\ k.pot = h.pot
  BY <1>1 DEF LastStanding, Shape, Table, Fields
<1> HIDE DEF k
<1>4. \A p \in Range(Q) : h.stack[p] \in Nat /\ h.contributed[p] \in Nat /\ k.stack[p] \in Nat
  BY <1>1, <1>2 DEF Shape, Over, Table
<1>5. PICK w \in Range(Q) : /\ k.stack[w] = h.stack[w] + h.pot
                            /\ \A p \in Range(Q) \ {w} : k.stack[p] = h.stack[p]
  BY <1>2 DEF TakesPot
<1>6. SumFunctionOnSet(k.stack, Range(Q)) = SumFunctionOnSet(h.stack, Range(Q)) + h.pot
  <2>1. h.pot \in Int /\ \A p \in Range(Q) : h.stack[p] \in Int
    BY <1>1, <1>4
  <2> QED BY ONLY <1>1, <1>5, <2>1, SumUpdate
<1>7. SumFunctionOnSet(h.stack, Range(Q)) \in Int
  BY <1>1, <1>4, SumType
<1>8. \A p \in Range(Q) : h.contributed[p] <= h.pot
  <2>1. SumFunctionOnSet(h.contributed, Range(Q)) <= h.pot
    BY DEF Backed
  <2>2. SumFunctionOnSet(h.contributed, Range(Q)) \in Int
    BY <1>1, <1>4, SumType
  <2>3. TAKE p \in Range(Q)
  <2>4. h.contributed[p] <= SumFunctionOnSet(h.contributed, Range(Q))
    BY <1>1, <1>4, SumBounds
  <2> QED BY <1>1, <1>4, <2>1, <2>2, <2>4
<1>9. \A p \in Range(Q) : /\ k.contributed[p] <= k.pot
                          /\ k.stack[p] + k.contributed[p] >= h.stack[p] + h.contributed[p]
  BY <1>2, <1>3, <1>4, <1>8
<1>10. SumFunctionOnSet(k.stack, Range(Q)) <= SumFunctionOnSet(h.stack, Range(Q)) + h.pot
  BY <1>1, <1>6, <1>7
<1>11. Settled(Q, h, k)
  BY <1>2, <1>6, <1>9, <1>10 DEF Settled
<1> QED BY <1>11 DEF k

\* The rest of the board is dealt, or there is no seat to give the turn to.
LEMMA RunOutRuns ==
  ASSUME NEW Q, Seated(Q), NEW h, Going(Q, h), NEW s, \A p \in Range(Q) : s[p] \in Nat
  PROVE  Runs(Q, h, RunOut(h, s)) /\ (RunOut(h, s).stage = "panic" => Halts(h))
<1> DEFINE r == ResetRound(h)
           drawn == h.drawn + (5 - h.board)
           k == [r EXCEPT !.board = 5, !.drawn = drawn, !.turn = OpeningSeat(h)]
<1>1. /\ Shape(Q, h) /\ h.board \in 0 .. 5 /\ h.drawn \in Nat
      /\ SumFunctionOnSet(h.contributed, Range(Q)) <= h.pot /\ Contested(h) /\ Table(Q, h)
  BY BackedFacts DEF Going, Backed, Shape
<1>2. drawn \in Nat
  BY <1>1
<1>3. CASE drawn > DeckSize \/ (h.stage # "river" /\ BlindSeatLost(h))
  <2>1. RunOut(h, s) = Panic(h)
    BY <1>3, Zenon DEF RunOut
  <2>2. Halts(h)
    BY <1>3 DEF Halts
  <2> QED BY <1>1, <2>1, <2>2, PanicEffect DEF Runs
<1>4. Settled(Q, h, RunOut(h, s)) => RunOut(h, s).stage # "panic"
  BY DEF Settled, Over
<1>5. CASE ~(drawn > DeckSize \/ (h.stage # "river" /\ BlindSeatLost(h)))
  <2>1. RunOut(h, s) = Showdown(IF h.stage = "river" THEN h ELSE k, s)
    BY <1>5, Zenon DEF RunOut
  <2>2. CASE h.stage = "river"
    <3>1. RunOut(h, s) = Showdown(h, s)
      BY <2>1, <2>2
    <3>2. Settled(Q, h, RunOut(h, s))
      BY <1>1, <3>1, ShowdownSettles
    <3> QED BY <1>4, <3>2 DEF Runs
  <2>3. CASE h.stage # "river"
    <3>1. OpeningSeat(h) \in Places(Q)
      BY <1>1, <1>5, <2>3, OpeningSeatPlayable
    <3>2. /\ Shape(Q, r) /\ r.stack = h.stack /\ r.contributed = h.contributed /\ r.pot = h.pot
          /\ r.folded = h.folded
      BY <1>1, ResetRoundEffect
    <3> HIDE DEF r, drawn
    <3>3. DOMAIN k = Fields
      BY <3>2, Zenon DEF Shape, Table
    <3>4. /\ Table(Q, k) /\ k.stack = h.stack /\ k.contributed = h.contributed /\ k.pot = h.pot
          /\ k.folded = h.folded
      BY <1>2, <3>1, <3>2, <3>3 DEF Shape, Table, Fields
    <3>5. Active(k) = Active(h)
      <4>1. k.players = Q /\ h.players = Q /\ k.folded = h.folded
        BY ONLY <1>1, <3>4 DEF Table
      <4>2. Active(k) = Range(Q) \ k.folded
        BY ONLY Seated(Q), <4>1, SeatsOfShape
      <4>3. Active(h) = Range(Q) \ h.folded
        BY ONLY Seated(Q), <4>1, SeatsOfShape
      <4> QED BY <4>1, <4>2, <4>3
    <3>6. Contested(k)
      BY <1>1, <3>5 DEF Contested
    <3>7. SumFunctionOnSet(k.contributed, Range(Q)) <= k.pot
      BY <1>1, <3>4
    <3>8. RunOut(h, s) = Showdown(k, s)
      BY <2>1, <2>3
    <3> HIDE DEF k
    <3>9. Settled(Q, k, RunOut(h, s))
      BY <3>4, <3>6, <3>7, <3>8, ShowdownSettles
    <3>10. Settled(Q, h, RunOut(h, s))
      BY <3>4, <3>9 DEF Settled
    <3> QED BY <1>4, <3>10 DEF Runs
  <2> QED BY <2>2, <2>3
<1> QED BY <1>3, <1>5

\* The next street is dealt, or there is no seat to give the turn to.
LEMMA NextStreetRuns ==
  ASSUME NEW Q, Seated(Q), NEW h, Going(Q, h), h.stage # "river"
  PROVE  Runs(Q, h, NextStreet(h)) /\ (NextStreet(h).stage = "panic" => Halts(h))
<1> DEFINE k == NextStreet(h)
           r == ResetRound(h)
           street == StreetAfter[h.stage]
           drawn  == h.drawn + (BoardOn[street] - h.board)
<1>1. /\ Shape(Q, h) /\ h.board \in 0 .. 5 /\ h.drawn \in Nat /\ Contested(h) /\ N(Q) \in Nat
      /\ SumFunctionOnSet(h.contributed, Range(Q)) <= h.pot /\ h.drawn >= 2 * N(Q) + h.board
      /\ street \in Streets /\ BoardOn[street] = BoardAt[street]
      /\ BoardOn[street] \in {3, 4, 5} /\ BoardOn[street] - h.board \in Nat
  BY BackedFacts DEF Going, Backed
<1>2. CASE drawn > DeckSize \/ BlindSeatLost(h)
  <2>1. k = Panic(h)
    BY <1>2, Zenon DEF NextStreet
  <2>2. Halts(h)
    BY <1>1, <1>2, DeckAssumption DEF Halts
  <2> HIDE DEF k
  <2>3. Runs(Q, h, k)
    BY <1>1, <2>1, PanicEffect DEF Runs
  <2> QED BY <2>2, <2>3 DEF k
<1>3. CASE ~(drawn > DeckSize \/ BlindSeatLost(h))
  <2>1. k = [r EXCEPT !.stage = street, !.board = BoardOn[street], !.drawn = drawn,
                      !.turn = OpeningSeat(h)]
    BY <1>3, Zenon DEF NextStreet
  <2>2. OpeningSeat(h) \in Places(Q)
    BY <1>1, <1>3, OpeningSeatPlayable
  <2>3. /\ Shape(Q, r) /\ r.stack = h.stack /\ r.contributed = h.contributed /\ r.pot = h.pot
        /\ r.folded = h.folded
    <3>1. Shape(Q, h)
      BY <1>1
    <3> QED BY ONLY Seated(Q), <3>1, ResetRoundEffect
  <2>4. drawn \in Nat /\ drawn - BoardOn[street] = h.drawn - h.board
        /\ drawn >= 2 * N(Q) + BoardOn[street]
    BY <1>1
  <2> HIDE DEF r, street, drawn, k
  <2>5. DOMAIN k = Fields
    BY <2>1, <2>3, Zenon DEF Shape, Table
  <2>6. /\ k.stage = street /\ k.board = BoardOn[street] /\ k.drawn = drawn /\ k.pot = h.pot
        /\ k.stack = h.stack /\ k.contributed = h.contributed /\ k.folded = h.folded
        /\ Shape(Q, k)
    BY <1>1, <2>1, <2>2, <2>3, <2>4, <2>5 DEF Shape, Table, Fields
  <2>7. Contested(k)
    <3>1. Active(k) = Range(Q) \ k.folded
      BY ONLY Seated(Q), <2>6, PlayableOfShape
    <3>2. Active(h) = Range(Q) \ h.folded
      BY ONLY Seated(Q), <1>1, PlayableOfShape
    <3> QED BY <1>1, <2>6, <3>1, <3>2 DEF Contested
  <2>8. GoesOn(Q, h, k)
    BY <1>1, <2>4, <2>6, <2>7 DEF GoesOn, Going, Backed
  <2>9. k.stage # "panic"
    BY <1>1, <2>6 DEF street, Streets
  <2> QED BY <2>8, <2>9 DEF Runs, k
<1> QED BY <1>2, <1>3

\* advanceStage, whether the round is complete or not.
LEMMA AdvanceStageRuns ==
  ASSUME NEW Q, Seated(Q), NEW h, Going(Q, h), NEW s, \A p \in Range(Q) : s[p] \in Nat
  PROVE  Runs(Q, h, AdvanceStage(h, s)) /\ (AdvanceStage(h, s).stage = "panic" => Halts(h))
<1>1. CASE h.stage = "river" \/ Playable(h) = {}
  <2>1. AdvanceStage(h, s) = RunOut(h, s)
    BY <1>1 DEF AdvanceStage
  <2> QED BY <2>1, RunOutRuns
<1>2. CASE h.stage # "river" /\ Playable(h) # {}
  <2>1. AdvanceStage(h, s) = NextStreet(h)
    BY <1>2 DEF AdvanceStage
  <2> QED BY <1>2, <2>1, NextStreetRuns
<1> QED BY <1>1, <1>2

\* A hand with the same stakes runs on alike.
LEMMA RunsAlike ==
  ASSUME NEW Q, NEW h, NEW r, NEW k, Runs(Q, r, k),
         r.folded = h.folded, r.stack = h.stack, r.contributed = h.contributed, r.pot = h.pot,
         r.drawn = h.drawn, r.board = h.board
  PROVE  Runs(Q, h, k)
BY DEF Runs, Settled, GoesOn

\* The tail of ApplyAction.
LEMMA SettleRuns ==
  ASSUME NEW Q, Seated(Q), NEW h, Backed(Q, h), Active(h) # {}, NEW u \in Range(Q),
         NEW s, \A p \in Range(Q) : s[p] \in Nat
  PROVE  Runs(Q, h, Settle(h, u, s))
<1> DEFINE r == [h EXCEPT !.hasActed = @ \cup {u}]
           m == NextTurnSeat(r, r.turn)
           t == [r EXCEPT !.turn = m]
<1>1. Shape(Q, h)
  BY DEF Backed
<1>2. /\ Shape(Q, r) /\ r.stage = h.stage /\ r.board = h.board /\ r.drawn = h.drawn
      /\ r.pot = h.pot /\ r.stack = h.stack /\ r.contributed = h.contributed /\ r.folded = h.folded
  <2>1. DOMAIN r = Fields
    BY <1>1, Zenon DEF Shape, Table
  <2> QED BY <1>1, <2>1 DEF Shape, Table, Fields
<1>3. Settle(h, u, s) = IF Cardinality(Active(r)) = 1 THEN LastStanding(r)
                        ELSE IF RoundComplete(r) THEN AdvanceStage(r, s) ELSE t
  BY DEF Settle
<1> HIDE DEF r
<1>4. Backed(Q, r)
  BY <1>2 DEF Backed
<1>5. Active(r) # {}
  <2>1. Active(r) = Range(Q) \ r.folded
    BY ONLY Seated(Q), <1>2, PlayableOfShape
  <2>2. Active(h) = Range(Q) \ h.folded
    BY ONLY Seated(Q), <1>1, PlayableOfShape
  <2> QED BY <1>2, <2>1, <2>2
<1>6. CASE Cardinality(Active(r)) = 1
  <2>1. Runs(Q, r, Settle(h, u, s))
    BY <1>3, <1>4, <1>5, <1>6, LastStandingSettles DEF Runs
  <2> QED BY <1>2, <2>1, RunsAlike
<1>7. CASE Cardinality(Active(r)) # 1 /\ RoundComplete(r)
  <2>1. Going(Q, r)
    BY <1>2, <1>4, <1>5, <1>7, ContestedUnlessOne DEF Going
  <2>2. Runs(Q, r, Settle(h, u, s))
    BY <1>3, <1>7, <2>1, AdvanceStageRuns
  <2> QED BY <1>2, <2>2, RunsAlike
<1>8. CASE Cardinality(Active(r)) # 1 /\ ~RoundComplete(r)
  <2>1. Contested(r)
    BY <1>2, <1>5, <1>8, ContestedUnlessOne
  <2>2. m \in Places(Q)
    BY <1>2, TurnSearch DEF Shape, Table
  <2> HIDE DEF m
  <2>3. DOMAIN t = Fields
    BY <1>2, Zenon DEF Shape, Table
  <2>4. /\ Shape(Q, t) /\ t.stage = r.stage /\ t.board = r.board /\ t.drawn = r.drawn
        /\ t.pot = r.pot /\ t.stack = r.stack /\ t.contributed = r.contributed
        /\ t.folded = r.folded
    BY <1>2, <2>2, <2>3 DEF Shape, Table, Fields
  <2> HIDE DEF t
  <2>5. Backed(Q, t)
    BY <1>4, <2>4 DEF Backed
  <2>6. Contested(t)
    <3>1. Active(t) = Range(Q) \ t.folded
      BY ONLY Seated(Q), <2>4, PlayableOfShape
    <3>2. Active(r) = Range(Q) \ r.folded
      BY ONLY Seated(Q), <1>2, PlayableOfShape
    <3> QED BY <2>1, <2>4, <3>1, <3>2 DEF Contested
  <2>7. GoesOn(Q, r, t)
    BY <2>4, <2>5, <2>6 DEF GoesOn, Going
  <2>8. Runs(Q, r, Settle(h, u, s))
    BY <1>3, <1>8, <2>7 DEF Runs
  <2> QED BY <1>2, <2>8, RunsAlike
<1> QED BY <1>6, <1>7, <1>8

\* What an answer of u changes before the tail of ApplyAction: u may put in
\* chips, and only u's chips change.
Pays(Q, h, u, c) ==
  /\ Backed(Q, c) /\ Active(c) # {} /\ c.drawn - c.board = h.drawn - h.board
  /\ \A p \in Range(Q) \ {u} : c.stack[p] = h.stack[p] /\ c.contributed[p] = h.contributed[p]
  /\ SumFunctionOnSet(c.stack, Range(Q)) + c.pot = SumFunctionOnSet(h.stack, Range(Q)) + h.pot

\* An answer changes nothing but flags, or puts in n chips and may raise.
LEMMA StakePays ==
  ASSUME NEW Q, Seated(Q), NEW h, Going(Q, h), NEW u \in Range(Q), NEW n \in 0 .. h.stack[u],
         NEW c, c = Commit(h, u, n) \/ c = Raise(Commit(h, u, n), u)
  PROVE  Pays(Q, h, u, c)
<1> DEFINE e == Commit(h, u, n)
<1>1. /\ Backed(Q, h) /\ Shape(Q, h) /\ Contested(h) /\ IsFiniteSet(Range(Q))
      /\ \A p \in Range(Q) : h.stack[p] \in Nat /\ h.contributed[p] \in Nat
      /\ h.pot \in Nat /\ n \in Nat
  BY BackedFacts DEF Going, Shape, Table
<1>2. /\ Shape(Q, e) /\ e.pot = h.pot + n /\ e.drawn = h.drawn
      /\ e.stage = h.stage /\ e.board = h.board /\ e.folded = h.folded
      /\ e.stack[u] = h.stack[u] - n /\ e.contributed[u] = h.contributed[u] + n
      /\ \A p \in Range(Q) \ {u} : e.stack[p] = h.stack[p] /\ e.contributed[p] = h.contributed[p]
  BY <1>1, CommitEffect
<1> HIDE DEF e
<1>3. /\ Shape(Q, c) /\ c.pot = e.pot /\ c.drawn = e.drawn /\ c.stage = e.stage
      /\ c.board = e.board /\ c.folded = e.folded /\ c.stack = e.stack
      /\ c.contributed = e.contributed
  <2>1. CASE c = e
    BY <1>2, <2>1
  <2>2. CASE c = [e EXCEPT !.roundBet = e.roundContrib[u],
                           !.hasActed = @ \ (Playable(e) \ {u})]
    <3>1. DOMAIN c = Fields
      BY <1>2, <2>2, Zenon DEF Shape, Table
    <3>2. e.roundContrib[u] \in Nat /\ e.hasActed \ (Playable(e) \ {u}) \subseteq Range(Q)
      BY <1>2 DEF Shape, Table
    <3> QED BY <1>2, <2>2, <3>1, <3>2 DEF Shape, Table, Fields
  <2> QED BY <2>1, <2>2 DEF Raise, e
<1>4. /\ SumFunctionOnSet(e.contributed, Range(Q)) = SumFunctionOnSet(h.contributed, Range(Q)) + n
      /\ SumFunctionOnSet(e.stack, Range(Q)) = SumFunctionOnSet(h.stack, Range(Q)) + (0 - n)
  <2>1. /\ \A p \in Range(Q) : h.contributed[p] \in Int /\ h.stack[p] \in Int
        /\ n \in Int /\ 0 - n \in Int /\ e.stack[u] = h.stack[u] + (0 - n)
    BY <1>1, <1>2
  <2>2. SumFunctionOnSet(e.contributed, Range(Q)) = SumFunctionOnSet(h.contributed, Range(Q)) + n
    BY ONLY ZenonT(40), <1>1, <1>2, <2>1, u \in Range(Q), SumUpdate
  <2>3. SumFunctionOnSet(e.stack, Range(Q)) = SumFunctionOnSet(h.stack, Range(Q)) + (0 - n)
    BY ONLY ZenonT(40), <1>1, <1>2, <2>1, u \in Range(Q), SumUpdate
  <2> QED BY <2>2, <2>3
<1>5. /\ SumFunctionOnSet(h.stack, Range(Q)) \in Int
      /\ SumFunctionOnSet(h.contributed, Range(Q)) \in Int
      /\ SumFunctionOnSet(h.contributed, Range(Q)) <= h.pot
  BY <1>1, SumType DEF Backed
<1>6. Backed(Q, c)
  <2>1. h.board = BoardAt[h.stage] /\ h.drawn >= 2 * N(Q) + h.board
    BY <1>1 DEF Backed
  <2>2. SumFunctionOnSet(c.contributed, Range(Q)) <= c.pot
    BY <1>1, <1>2, <1>3, <1>4, <1>5
  <2> QED BY <1>2, <1>3, <2>1, <2>2 DEF Backed
<1>7. Active(c) # {}
  <2>1. Active(c) = Range(Q) \ c.folded
    BY ONLY Seated(Q), <1>3, PlayableOfShape
  <2>2. Active(h) = Range(Q) \ h.folded
    BY ONLY Seated(Q), <1>1, PlayableOfShape
  <2> QED BY <1>1, <1>2, <1>3, <2>1, <2>2 DEF Contested
<1>8. SumFunctionOnSet(c.stack, Range(Q)) + c.pot = SumFunctionOnSet(h.stack, Range(Q)) + h.pot
  BY <1>1, <1>2, <1>3, <1>4, <1>5
<1> QED BY <1>2, <1>3, <1>6, <1>7, <1>8 DEF Pays

\* An answer ApplyAction accepts: the player whose turn it is may pay, and the
\* hand runs on.
LEMMA MovesRun ==
  ASSUME NEW Q, Seated(Q), NEW h, Going(Q, h), NEW u, MayAct(h, u),
         NEW s, \A p \in Range(Q) : s[p] \in Nat,
         NEW k,
         \/ CanCheck(h, u) /\ k = Check(h, u, s)
         \/ CanCall(h, u) /\ k = Call(h, u, s)
         \/ CanAllIn(h, u) /\ k = AllIn(h, u, s)
         \/ CanFold(h, u) /\ k = Fold(h, u, s)
         \/ \E n \in Nat : CanBet(h, u, n) /\ k = Bet(h, u, n, s)
  PROVE  /\ u \in Range(Q) /\ u = At(h, h.turn)
         /\ \E c : Pays(Q, h, u, c) /\ Runs(Q, c, k)
<1>1. /\ Shape(Q, h) /\ Backed(Q, h) /\ Contested(h) /\ Active(h) = Range(Q) \ h.folded
      /\ Playable(h) = (Range(Q) \ h.folded) \ h.allIn
  BY PlayableOfShape DEF Going, Backed
<1>2. u \in Range(Q) /\ u = At(h, h.turn) /\ u \in Playable(h)
  BY <1>1 DEF MayAct
<1>3. /\ h.stack[u] \in Nat /\ h.roundBet \in Nat /\ h.roundContrib[u] \in Nat /\ h.pot \in Nat
  BY <1>1, <1>2 DEF Shape, Table
<1>4. ASSUME NEW c, Pays(Q, h, u, c), k = Settle(c, u, s)
      PROVE  \E e : Pays(Q, h, u, e) /\ Runs(Q, e, k)
  BY <1>2, <1>4, SettleRuns DEF Pays
<1>5. CASE CanCheck(h, u) /\ k = Check(h, u, s)
  <2>1. Pays(Q, h, u, h)
    BY <1>1 DEF Pays, Contested
  <2> QED BY <1>2, <1>4, <1>5, <2>1 DEF Check
<1>6. CASE CanFold(h, u) /\ k = Fold(h, u, s)
  <2> DEFINE c == [h EXCEPT !.folded = @ \cup {u}]
  <2>1. DOMAIN c = Fields
    BY <1>1, Zenon DEF Shape, Table
  <2>2. /\ Shape(Q, c) /\ c.folded = h.folded \cup {u} /\ c.stage = h.stage /\ c.board = h.board
        /\ c.pot = h.pot /\ c.drawn = h.drawn
        /\ c.stack = h.stack /\ c.contributed = h.contributed
    BY <1>1, <1>2, <2>1 DEF Shape, Table, Fields
  <2>3. k = Settle(c, u, s)
    BY <1>6 DEF Fold
  <2> HIDE DEF c
  <2>4. Active(c) # {}
    <3>1. Active(c) = Range(Q) \ c.folded
      BY ONLY Seated(Q), <2>2, PlayableOfShape
    <3> QED BY <1>1, <2>2, <3>1 DEF Contested
  <2>5. Backed(Q, c)
    BY <1>1, <2>2 DEF Backed
  <2>6. Pays(Q, h, u, c)
    BY <2>2, <2>4, <2>5 DEF Pays
  <2> QED BY <1>2, <1>4, <2>3, <2>6
<1>7. ASSUME NEW n \in 0 .. h.stack[u], k = Bet(h, u, n, s)
      PROVE  \E e : Pays(Q, h, u, e) /\ Runs(Q, e, k)
  BY <1>2, <1>4, <1>7, StakePays DEF Bet
<1>8. CASE CanAllIn(h, u) /\ k = AllIn(h, u, s)
  BY <1>2, <1>3, <1>7, <1>8 DEF AllIn
<1>9. ASSUME NEW n \in Nat, CanBet(h, u, n), k = Bet(h, u, n, s)
      PROVE  \E e : Pays(Q, h, u, e) /\ Runs(Q, e, k)
  <2>1. n \in LeastBet(h, u) .. h.stack[u]
    BY <1>9 DEF CanBet
  <2>2. LeastBet(h, u) \in Int
    BY <1>3, BlindsAssumption DEF LeastBet
  <2>3. n \in 0 .. h.stack[u]
    BY <1>3, <2>1, <2>2
  <2> QED BY <1>7, <1>9, <2>3
<1>10. CASE CanCall(h, u) /\ k = Call(h, u, s)
  <2> DEFINE owes == h.roundBet - h.roundContrib[u]
             n    == Min({owes, h.stack[u]})
  <2>1. n = IF owes <= h.stack[u] THEN owes ELSE h.stack[u]
    BY <1>3, MinOfPair
  <2>2. owes \in Nat
    BY <1>3, <1>10 DEF CanCall
  <2>3. n \in 0 .. h.stack[u]
    BY <1>3, <2>1, <2>2
  <2>4. k = Settle(Commit(h, u, n), u, s)
    BY <1>10 DEF Call
  <2> HIDE DEF n
  <2> DEFINE c == Commit(h, u, n)
  <2>5. Pays(Q, h, u, c)
    BY <1>2, <2>3, StakePays
  <2> HIDE DEF c
  <2> QED BY <1>2, <1>4, <2>4, <2>5 DEF c
<1>11. \E e : Pays(Q, h, u, e) /\ Runs(Q, e, k)
  BY <1>5, <1>6, <1>8, <1>9, <1>10
<1> QED BY <1>2, <1>11

\* ForceLeaveForStore: the hand goes on, is settled or stuck, with u folded; and
\* it is stuck only when it cannot be dealt on, or when u was the last who could
\* act and several are all-in.
LeftBy(Q, h, u, k) ==
  \E c : /\ Runs(Q, c, k) /\ c.folded = h.folded \cup (Range(Q) \cap {u})
         /\ c.stack = h.stack /\ c.contributed = h.contributed /\ c.pot = h.pot
         /\ c.drawn = h.drawn /\ c.board = h.board

LeaveHalts(h, u) ==
  Halts(h) \/ (Playable(h) \subseteq {u} /\ Cardinality(Active(h) \ {u}) > 1)

LEMMA ForceLeaveRuns ==
  ASSUME NEW Q, Seated(Q), NEW h, Going(Q, h), NEW u,
         NEW s, \A p \in Range(Q) : s[p] \in Nat, NEW k, k = ForceLeave(h, u, s)
  PROVE  LeftBy(Q, h, u, k) /\ (k.stage = "panic" => LeaveHalts(h, u))
<1> USE DEF LeftBy, LeaveHalts
<1> DEFINE c == IF u \in InHand(h) THEN [h EXCEPT !.folded = @ \cup {u}, !.hasActed = @ \cup {u}]
                ELSE h
           m == NextTurnSeat(c, c.turn)
           t == IF At(c, c.turn) \in Playable(c) THEN c ELSE [c EXCEPT !.turn = m]
<1>1. Shape(Q, h) /\ Backed(Q, h) /\ Contested(h) /\ InHand(h) = Range(Q)
  BY SeatsOfShape DEF Going, Backed, Shape, Table
<1>2. /\ Shape(Q, c) /\ c.folded = h.folded \cup (Range(Q) \cap {u})
      /\ c.stage = h.stage /\ c.stack = h.stack /\ c.contributed = h.contributed /\ c.pot = h.pot
      /\ c.drawn = h.drawn /\ c.board = h.board /\ c.allIn = h.allIn /\ c.bb = h.bb
  <2>1. CASE u \notin InHand(h)
    BY <1>1, <2>1
  <2>2. CASE u \in InHand(h)
    <3>1. c = [h EXCEPT !.folded = @ \cup {u}, !.hasActed = @ \cup {u}]
      BY <2>2
    <3> HIDE DEF c
    <3>2. DOMAIN c = Fields
      BY <1>1, <3>1, Zenon DEF Shape, Table
    <3>3. c.folded = h.folded \cup {u}
      BY <1>1, <3>1 DEF Shape, Table, Fields
    <3>4. u \in Range(Q)
      BY <1>1, <2>2
    <3> QED BY <1>1, <3>1, <3>2, <3>3, <3>4 DEF Shape, Table, Fields
  <2> QED BY <2>1, <2>2
<1>3. k = IF Cardinality(Active(c)) <= 1 THEN LastStanding(c)
          ELSE IF Playable(c) = {} THEN Panic(c)
          ELSE IF RoundComplete(t) THEN AdvanceStage(t, s) ELSE t
  BY <1>1 DEF ForceLeave, Betting, Shape
<1> HIDE DEF c
<1>4. Backed(Q, c) /\ Active(c) # {} /\ Active(c) = Range(Q) \ c.folded /\ IsFiniteSet(Active(c))
  <2>1. Backed(Q, c)
    BY <1>1, <1>2 DEF Backed
  <2>2. Active(c) = Range(Q) \ c.folded
    BY ONLY Seated(Q), <1>2, PlayableOfShape
  <2>3. Active(h) = Range(Q) \ h.folded
    BY ONLY Seated(Q), <1>1, PlayableOfShape
  <2>4. Active(c) # {}
    BY <1>1, <1>2, <2>2, <2>3 DEF Contested
  <2>5. IsFiniteSet(Active(c))
    BY <2>2, SeatingFacts, FS_Subset
  <2> QED BY <2>1, <2>2, <2>4, <2>5
<1>5. Active(c) = Active(h) \ {u} /\ Playable(c) = Playable(h) \ {u}
  <2>1. Active(c) = Range(Q) \ c.folded /\ Playable(c) = (Range(Q) \ c.folded) \ c.allIn
    BY ONLY Seated(Q), <1>2, PlayableOfShape
  <2>2. Active(h) = Range(Q) \ h.folded /\ Playable(h) = (Range(Q) \ h.folded) \ h.allIn
    BY ONLY Seated(Q), <1>1, PlayableOfShape
  <2>3. c.folded = h.folded \cup (Range(Q) \cap {u}) /\ c.allIn = h.allIn
    BY <1>2
  <2> QED BY ONLY <2>1, <2>2, <2>3
<1>6. Cardinality(Active(c)) \in Nat
  BY <1>4, FS_CardinalityType
<1>7. CASE Cardinality(Active(c)) <= 1
  <2>1. Settled(Q, c, k)
    BY <1>3, <1>4, <1>7, LastStandingSettles
  <2>2. Runs(Q, c, k) /\ k.stage # "panic"
    BY <2>1 DEF Runs, Settled, Over
  <2> QED BY <1>2, <2>2
<1>8. CASE ~(Cardinality(Active(c)) <= 1) /\ Playable(c) = {}
  <2>1. k = Panic(c)
    BY <1>3, <1>8
  <2>2. Runs(Q, c, k)
    BY <1>2, <2>1, PanicEffect DEF Runs
  <2>3. Playable(h) \subseteq {u} /\ Cardinality(Active(h) \ {u}) > 1
    BY <1>8, <1>5, <1>6
  <2> QED BY <1>2, <2>2, <2>3
<1>9. CASE ~(Cardinality(Active(c)) <= 1) /\ Playable(c) # {}
  <2>1. Contested(c)
    <3>1. Cardinality(Active(c)) # 1
      BY <1>9
    <3> QED BY <1>2, <1>4, <3>1, ContestedUnlessOne
  <2>2. m \in Places(Q)
    BY <1>2, TurnSearch DEF Shape, Table
  <2> HIDE DEF m
  <2>3. /\ Shape(Q, t) /\ t.stage = c.stage /\ t.stack = c.stack /\ t.contributed = c.contributed
        /\ t.pot = c.pot /\ t.drawn = c.drawn /\ t.board = c.board /\ t.folded = c.folded
        /\ t.bb = c.bb
    <3>1. CASE At(c, c.turn) \in Playable(c)
      <4>1. t = c
        BY <3>1
      <4> HIDE DEF t
      <4> QED BY <1>2, <4>1
    <3>2. CASE At(c, c.turn) \notin Playable(c)
      <4>1. t = [c EXCEPT !.turn = m]
        BY <3>2
      <4> HIDE DEF t
      <4>2. DOMAIN t = Fields
        BY <1>2, <4>1, Zenon DEF Shape, Table
      <4> QED BY <1>2, <2>2, <4>1, <4>2 DEF Shape, Table, Fields
    <3> QED BY <3>1, <3>2
  <2>4. k = IF RoundComplete(t) THEN AdvanceStage(t, s) ELSE t
    BY <1>3, <1>9
  <2> HIDE DEF t
  <2>5. Going(Q, t)
    <3>1. Active(t) = Range(Q) \ t.folded
      BY ONLY Seated(Q), <2>3, PlayableOfShape
    <3>2. Contested(t)
      BY <1>4, <2>1, <2>3, <3>1 DEF Contested
    <3>3. Backed(Q, t)
      BY <1>4, <2>3 DEF Backed
    <3> QED BY <3>2, <3>3 DEF Going
  <2>6. Runs(Q, t, k) /\ (k.stage = "panic" => Halts(t))
    <3>1. CASE RoundComplete(t)
      BY <2>4, <2>5, <3>1, AdvanceStageRuns
    <3>2. CASE ~RoundComplete(t)
      BY <2>3, <2>4, <2>5, <3>2 DEF Runs, GoesOn, Shape, Streets
    <3> QED BY <3>1, <3>2
  <2>7. Runs(Q, c, k)
    BY <2>3, <2>6, RunsAlike
  <2>8. Halts(t) => Halts(h)
    <3>1. t.players = h.players
      BY <1>1, <2>3 DEF Shape, Table
    <3>2. t.bb = h.bb /\ t.drawn = h.drawn /\ t.board = h.board
      BY <1>2, <2>3
    <3> QED BY ONLY <3>1, <3>2 DEF Halts, BlindSeatLost
  <2> QED BY <1>2, <2>6, <2>7, <2>8
<1> QED BY <1>7, <1>8, <1>9

-----------------------------------------------------------------------------
(* The hand without those who left the room. *)

\* k is h of which only the players P are left.
Reseated(h, P, k) ==
  /\ DOMAIN k = Fields /\ k.players = P
  /\ k.stage = h.stage /\ k.bb = h.bb /\ k.pot = h.pot /\ k.roundBet = h.roundBet
  /\ k.board = h.board /\ k.drawn = h.drawn /\ k.reason = h.reason /\ k.winners = h.winners
  /\ k.turn = (IF Len(P) > 0 /\ h.turn >= Len(P) THEN 0 ELSE h.turn)
  /\ k.dealer = (IF Len(P) > 0 /\ h.dealer >= Len(P) THEN Len(P) - 1 ELSE h.dealer)
  /\ k.stack = [p \in Range(P) |-> h.stack[p]]
  /\ k.contributed = [p \in Range(P) |-> h.contributed[p]]
  /\ k.roundContrib = [p \in Range(P) |-> h.roundContrib[p]]
  /\ k.won = [p \in Range(P) |-> h.won[p]]
  /\ k.reveal = [p \in Range(P) |-> h.reveal[p]]
  /\ k.strength = [p \in Range(P) |-> h.strength[p]]
  /\ k.folded = h.folded \cap Range(P) /\ k.allIn = h.allIn \cap Range(P)
  /\ k.hasActed = h.hasActed \cap Range(P)

\* Without copies the hand and replaces its players.
LEMMA WithoutEffect ==
  ASSUME NEW h, DOMAIN h = Fields, NEW ps, NEW P, P = Among(ps, InHand(h)),
         NEW k, k = Without(h, ps)
  PROVE  Reseated(h, P, k)
<1> DEFINE n == Len(P)
           keep(f) == Restrict(f, Range(P))
           e == [h EXCEPT !.players = P,
                !.turn   = IF n > 0 /\ @ >= n THEN 0 ELSE @,
                !.dealer = IF n > 0 /\ @ >= n THEN n - 1 ELSE @,
                !.stack = keep(@), !.contributed = keep(@), !.roundContrib = keep(@),
                !.won = keep(@), !.reveal = keep(@), !.strength = keep(@),
                !.folded = @ \cap Range(P), !.allIn = @ \cap Range(P),
                !.hasActed = @ \cap Range(P)]
<1>1. k = e
  BY DEF Without
<1>2. DOMAIN e = Fields
  BY Zenon
<1>3. /\ e.players = P
      /\ e.stage = h.stage /\ e.bb = h.bb /\ e.pot = h.pot /\ e.roundBet = h.roundBet
      /\ e.board = h.board /\ e.drawn = h.drawn /\ e.reason = h.reason /\ e.winners = h.winners
      /\ e.turn = (IF n > 0 /\ h.turn >= n THEN 0 ELSE h.turn)
      /\ e.dealer = (IF n > 0 /\ h.dealer >= n THEN n - 1 ELSE h.dealer)
      /\ e.folded = h.folded \cap Range(P) /\ e.allIn = h.allIn \cap Range(P)
      /\ e.hasActed = h.hasActed \cap Range(P)
      /\ e.stack = keep(h.stack) /\ e.contributed = keep(h.contributed)
      /\ e.roundContrib = keep(h.roundContrib) /\ e.won = keep(h.won)
      /\ e.reveal = keep(h.reveal) /\ e.strength = keep(h.strength)
  <2> HIDE DEF keep, n
  <2> QED BY DEF Fields
<1> HIDE DEF e
<1> QED BY <1>1, <1>2, <1>3, Zenon DEF Reseated, Restrict

\* When those who left have folded, the hand goes on, and with fewer players
\* when one of them was in it.
LEMMA WithoutGoing ==
  ASSUME NEW Q, Seated(Q), NEW h, Going(Q, h), NEW T, NEW ps \in Seq(T), IsInjective(ps),
         Range(Q) \ Range(ps) \subseteq h.folded,
         NEW P, P = Among(ps, Range(Q)), NEW k, k = Without(h, ps)
  PROVE  /\ Seated(P) /\ Range(P) = Range(ps) \cap Range(Q)
         /\ Going(P, k) /\ Reseated(h, P, k) /\ Active(k) = Active(h)
         /\ N(P) <= N(Q) /\ (Range(Q) \subseteq Range(ps) \/ N(P) < N(Q))
<1>1. /\ Shape(Q, h) /\ Backed(Q, h) /\ Contested(h) /\ InHand(h) = Range(Q)
      /\ Active(h) = Range(Q) \ h.folded /\ IsFiniteSet(Range(Q)) /\ Q \in Seq(Range(Q))
  <2>1. Shape(Q, h) /\ Backed(Q, h) /\ Contested(h) /\ h.players = Q
    BY DEF Going, Backed, Shape, Table
  <2>2. InHand(h) = Range(Q) /\ Active(h) = Range(Q) \ h.folded
    BY ONLY Seated(Q), <2>1, SeatsOfShape
  <2> QED BY <2>1, <2>2, SeatingFacts DEF Seated
<1>2. Reseated(h, P, k)
  BY <1>1, WithoutEffect DEF Shape, Table
<1>3. P \in Seq(T) /\ Range(P) = Range(ps) \cap Range(Q) /\ IsInjective(P)
  BY AmongFacts
<1>4. Active(h) \subseteq Range(P)
  BY <1>1, <1>3
<1>5. Seated(P)
  <2>1. P # <<>>
    <3>1. PICK p : p \in Range(P)
      BY <1>1, <1>4 DEF Contested
    <3> QED BY <3>1 DEF Range
  <2> QED BY <1>3, <2>1, SeatedIfDistinct
<1>6. N(P) \in Nat \ {0} /\ N(Q) \in Nat \ {0} /\ IsFiniteSet(Range(P))
  BY <1>5, SeatingFacts
<1>7. N(P) <= N(Q) /\ (Range(Q) \subseteq Range(ps) \/ N(P) < N(Q))
  <2>1. Cardinality(Range(P)) = N(P)
    BY <1>3, SeatsOfDistinct DEF N
  <2>2. Cardinality(Range(Q)) = N(Q)
    <3>1. IsInjective(Q)
      BY DEF Seated, IsInjective
    <3> QED BY <1>1, <3>1, SeatsOfDistinct DEF N
  <2>3. Range(P) \in SUBSET Range(Q)
    BY <1>3
  <2>4. N(P) <= N(Q) /\ (N(Q) = N(P) => Range(Q) = Range(P))
    BY <1>1, <2>1, <2>2, <2>3, FS_Subset
  <2> QED BY <1>3, <1>6, <2>4
<1>8. Shape(P, k)
  <2>1. k.dealer \in Places(P) /\ k.turn \in Places(P)
    <3>1. h.dealer \in Nat /\ h.turn \in Nat
      BY <1>1, <1>6 DEF Shape, Table, Places
    <3> QED BY <1>2, <1>6, <3>1 DEF Reseated, Places, N
  <2>2. \A p \in Range(P) : /\ h.stack[p] \in Nat /\ h.contributed[p] \in Nat
                            /\ h.roundContrib[p] \in Nat /\ h.won[p] \in Nat
                            /\ h.reveal[p] \in 0 .. 3 /\ h.strength[p] \in Nat
    BY <1>1, <1>3 DEF Shape, Table
  <2>3. /\ k.bb \in Nat /\ k.pot \in Nat /\ k.roundBet \in Nat /\ k.board \in {0, 3, 4, 5}
        /\ k.drawn \in Nat /\ k.stage \in Streets /\ k.reason = "none" /\ k.winners = {}
    BY <1>1, <1>2 DEF Reseated, Shape, Table
  <2>4. /\ k.stack \in [Range(P) -> Nat] /\ k.contributed \in [Range(P) -> Nat]
        /\ k.roundContrib \in [Range(P) -> Nat] /\ k.won \in [Range(P) -> Nat]
        /\ k.reveal \in [Range(P) -> 0..3] /\ k.strength \in [Range(P) -> Nat]
    BY <1>2, <2>2 DEF Reseated
  <2>5. DOMAIN k = Fields /\ k.players = P /\ k.folded \subseteq Range(P)
        /\ k.allIn \subseteq Range(P) /\ k.hasActed \subseteq Range(P)
    BY <1>2 DEF Reseated
  <2> QED BY <2>1, <2>3, <2>4, <2>5 DEF Shape, Table
<1>9. Active(k) = Active(h)
  <2>1. Active(k) = Range(P) \ k.folded
    BY ONLY <1>5, <1>8, PlayableOfShape
  <2> QED BY <1>1, <1>2, <1>3, <1>4, <2>1 DEF Reseated
<1>10. Backed(P, k)
  <2>1. SumFunctionOnSet(k.contributed, Range(P)) <= k.pot
    <3>1. \A p \in Range(Q) : h.contributed[p] \in Nat
      BY <1>1 DEF Shape, Table
    <3>2. Range(P) \in SUBSET Range(Q)
      BY <1>3
    <3>3. SumFunctionOnSet(h.contributed, Range(P)) <= SumFunctionOnSet(h.contributed, Range(Q))
      BY <1>1, <3>1, <3>2, SumPart
    <3>4. SumFunctionOnSet(k.contributed, Range(P)) = SumFunctionOnSet(h.contributed, Range(P))
      <4>1. \A p \in Range(P) : h.contributed[p] \in Int /\ k.contributed[p] = h.contributed[p]
        BY <1>2, <3>1, <3>2 DEF Reseated
      <4> QED BY <1>6, <4>1, SumSame
    <3>5. /\ SumFunctionOnSet(h.contributed, Range(P)) \in Int
          /\ SumFunctionOnSet(h.contributed, Range(Q)) \in Int
      BY <1>1, <1>6, <3>1, <3>2, SumType
    <3>6. k.pot = h.pot /\ h.pot \in Int /\ SumFunctionOnSet(h.contributed, Range(Q)) <= h.pot
      BY <1>1, <1>2 DEF Reseated, Backed, Shape, Table
    <3> QED BY <3>3, <3>4, <3>5, <3>6
  <2>2. k.board = BoardAt[k.stage]
    BY <1>1, <1>2 DEF Reseated, Backed
  <2>3. k.drawn >= 2 * N(P) + k.board
    <3>1. h.drawn \in Nat /\ h.board \in Nat /\ h.drawn >= 2 * N(Q) + h.board
      <4>1. h.drawn \in Nat /\ h.board \in {0, 3, 4, 5}
        BY <1>1 DEF Shape, Table
      <4>2. h.drawn >= 2 * N(Q) + h.board
        BY <1>1 DEF Backed
      <4> QED BY <4>1, <4>2
    <3>2. k.drawn = h.drawn /\ k.board = h.board
      BY <1>2 DEF Reseated
    <3> QED BY <1>6, <1>7, <3>1, <3>2
  <2> QED BY <1>8, <2>1, <2>2, <2>3 DEF Backed
<1>11. Going(P, k)
  BY <1>1, <1>9, <1>10 DEF Going, Contested
<1> QED BY <1>2, <1>3, <1>5, <1>7, <1>9, <1>11

\* Leaving a hand that is over.
LEMMA WithoutDone ==
  ASSUME NEW h, Done(h), NEW T, NEW ps \in Seq(T), NEW k, k = Without(h, ps)
  PROVE  /\ Done(k) /\ InHand(k) = Range(ps) \cap InHand(h)
         /\ k.pot = h.pot /\ k.folded = h.folded \cap InHand(k)
         /\ \A p \in InHand(k) : k.stack[p] = h.stack[p] /\ k.contributed[p] = h.contributed[p]
<1> DEFINE P == Among(ps, InHand(h))
<1>1. Reseated(h, P, k)
  BY WithoutEffect DEF Done
<1>2. P \in Seq(T) /\ Range(P) = Range(ps) \cap InHand(h)
  BY AmongFacts
<1> HIDE DEF P
<1>3. P \in Seq(Range(P))
  BY <1>2 DEF Range
<1>4. \A p \in Range(P) : h.stack[p] \in Nat /\ h.contributed[p] \in Nat /\ h.contributed[p] <= h.pot
  BY <1>2 DEF Done, InHand
<1>5. /\ k.players = P /\ InHand(k) = Range(P) /\ k.folded = h.folded \cap Range(P)
      /\ DOMAIN k = Fields /\ k.stage = h.stage /\ k.pot = h.pot
      /\ k.stack = [p \in Range(P) |-> h.stack[p]]
      /\ k.contributed = [p \in Range(P) |-> h.contributed[p]]
  BY <1>1 DEF Reseated, InHand
<1>6. \A p \in Range(P) : k.stack[p] = h.stack[p] /\ k.contributed[p] = h.contributed[p]
  BY <1>5
<1>7. k.stack \in [Range(P) -> Nat] /\ k.contributed \in [Range(P) -> Nat]
  BY <1>4, <1>5
<1>8. Done(k)
  BY <1>3, <1>4, <1>5, <1>6, <1>7 DEF Done
<1> QED BY <1>2, <1>5, <1>6, <1>8

\* finishByLastStanding on a hand that is over already: the pot is paid to the
\* first player who has not folded.
LEMMA LastStandingDone ==
  ASSUME NEW h, Done(h), NEW k, k = LastStanding(h)
  PROVE  /\ Done(k) /\ k.players = h.players /\ InHand(k) = InHand(h)
         /\ k.folded = h.folded /\ k.contributed = h.contributed
         /\ \A p \in InHand(h) : k.stack[p] >= h.stack[p]
         /\ \A w : Active(h) = {w} => k.stack[w] = h.stack[w] + h.pot
<1> DEFINE Standing == {pos \in Seats(h) : At(h, pos) \in Active(h)}
           winner   == At(h, Min(Standing))
           e == [h EXCEPT !.stack[winner] = @ + h.pot,
                     !.won[winner]   = h.pot,
                     !.stage   = "finished",
                     !.reason  = "others folded",
                     !.winners = {winner},
                     !.reveal  = DefaultReveal(h, {winner})]
<1>1. /\ DOMAIN h = Fields /\ h.stage = "finished" /\ h.pot \in Nat
      /\ h.stack \in [InHand(h) -> Nat] /\ h.players \in Seq(InHand(h))
  BY DEF Done, InHand
<1>2. CASE Standing = {}
  <2>1. k = h
    BY <1>2, Zenon DEF LastStanding
  <2>2. Active(h) = {}
    <3>1. ASSUME NEW p \in Active(h) PROVE FALSE
      <4>1. p \in Range(h.players)
        BY <3>1 DEF Active, InHand
      <4>2. PICK i \in DOMAIN h.players : h.players[i] = p
        BY <4>1 DEF Range
      <4>3. i \in 1 .. Len(h.players) /\ Len(h.players) \in Nat
        BY <1>1, <4>2
      <4>4. i - 1 \in Seats(h) /\ At(h, i - 1) = p
        BY <4>2, <4>3 DEF Seats, At
      <4> QED BY <1>2, <3>1, <4>4
    <3> QED BY <3>1
  <2>3. \A p \in InHand(h) : h.stack[p] >= h.stack[p]
    BY <1>1
  <2> QED BY <2>1, <2>2, <2>3
<1>3. CASE Standing # {}
  <2>1. k = e
    BY <1>3, Zenon DEF LastStanding
  <2>2. winner \in Active(h)
    <3>1. Standing \in SUBSET Nat
      BY <1>1 DEF Seats
    <3>2. Min(Standing) \in Standing
      <4> HIDE DEF Standing
      <4> QED BY <1>3, <3>1, MinOfNaturals
    <3> QED BY <3>2
  <2>3. winner \in InHand(h)
    BY <2>2 DEF Active
  <2> HIDE DEF winner, Standing
  <2>4. DOMAIN e = Fields
    BY <1>1, Zenon
  <2>5. /\ e.players = h.players /\ e.folded = h.folded /\ e.contributed = h.contributed
        /\ e.pot = h.pot /\ e.stage = "finished"
        /\ e.stack = [h.stack EXCEPT ![winner] = @ + h.pot]
    BY <1>1 DEF Fields
  <2> HIDE DEF e
  <2>6. /\ k.players = h.players /\ k.folded = h.folded /\ k.contributed = h.contributed
        /\ k.pot = h.pot /\ k.stage = "finished" /\ DOMAIN k = Fields /\ InHand(k) = InHand(h)
        /\ k.stack = [h.stack EXCEPT ![winner] = @ + h.pot]
    BY <2>1, <2>4, <2>5 DEF InHand
  <2>7. /\ k.stack \in [InHand(h) -> Nat] /\ k.stack[winner] = h.stack[winner] + h.pot
        /\ \A p \in InHand(h) : k.stack[p] >= h.stack[p]
    BY <1>1, <2>3, <2>6
  <2>8. Done(k)
    BY <2>6, <2>7 DEF Done, InHand
  <2> QED BY <2>2, <2>6, <2>7, <2>8
<1> QED BY <1>2, <1>3

\* A hand that was settled is over, with no stake beyond the pot.
LEMMA SettledDone ==
  ASSUME NEW Q, Seated(Q), NEW k, Over(Q, k), \A p \in Range(Q) : k.contributed[p] <= k.pot
  PROVE  Done(k) /\ InHand(k) = Range(Q) /\ k.players = Q
BY DEF Over, Table, Done, InHand, Seated

\* Two players cannot be at most one.
LEMMA ContestedByTwo ==
  ASSUME NEW h, Contested(h), IsFiniteSet(Active(h))
  PROVE  ~(Cardinality(Active(h)) <= 1)
<1>1. PICK p, q \in Active(h) : p # q
  BY DEF Contested
<1>2. IsFiniteSet({p}) /\ Cardinality({p}) = 1
  BY FS_Singleton
<1>3. {p} \in SUBSET Active(h) /\ {p} # Active(h)
  BY <1>1
<1>4. Cardinality({p}) <= Cardinality(Active(h)) /\ Cardinality(Active(h)) # Cardinality({p})
  BY <1>3, FS_Subset
<1>5. Cardinality(Active(h)) \in Nat
  BY FS_CardinalityType
<1> QED BY <1>2, <1>4, <1>5

-----------------------------------------------------------------------------
(* The deal. *)

\* What the players brought to the hand.
Brought(h) == [p \in InHand(h) |-> h.stack[p] + h.contributed[p]]

\* A hand that nobody has left since the deal.
Whole(h) == Betting(h) /\ h.drawn = 2 * Len(h.players) + h.board

\* k is a hand dealt to Q with the stacks d: in play, or dealt out at once.
Deals(Q, d, k) ==
  /\ k.players = Q /\ InHand(k) = Range(Q) /\ k.folded = {} /\ At(k, k.dealer) \in Range(Q)
  /\ \A p \in Range(Q) : k.stack[p] + k.contributed[p] >= d[p]
  /\ \/ Done(k) /\ SumFunctionOnSet(k.stack, Range(Q)) = SumFunctionOnSet(d, Range(Q))
     \/ /\ Going(Q, k) /\ Whole(k) /\ InPlay(Q, k, Brought(k))
        /\ \A p \in Range(Q) : k.stack[p] + k.contributed[p] = d[p]
        /\ SumFunctionOnSet(k.stack, Range(Q)) + k.pot = SumFunctionOnSet(d, Range(Q))

\* A hand that ended as Hand describes it leaves nobody with less than before.
LEMMA EndedSettled ==
  ASSUME NEW Q, Seated(Q), NEW k, NEW d, Ended(Q, k, d)
  PROVE  /\ Over(Q, k)
         /\ \A p \in Range(Q) : k.stack[p] + k.contributed[p] >= d[p] /\ k.contributed[p] <= k.pot
<1>1. ASSUME NEW h, Settled(Q, h, k), \A p \in Range(Q) : h.stack[p] + h.contributed[p] = d[p]
      PROVE  /\ Over(Q, k)
             /\ \A p \in Range(Q) : k.stack[p] + k.contributed[p] >= d[p] /\ k.contributed[p] <= k.pot
  BY <1>1 DEF Settled
<1>2. CASE \E h, s : Divisible(Q, h, d) /\ (\A p \in Range(Q) : s[p] \in Nat) /\ k = Showdown(h, s)
  <2>1. PICK h, s : Divisible(Q, h, d) /\ (\A p \in Range(Q) : s[p] \in Nat) /\ k = Showdown(h, s)
    BY <1>2
  <2>2. /\ Table(Q, h) /\ Contested(h)
        /\ SumFunctionOnSet(h.contributed, Range(Q)) <= h.pot
        /\ \A p \in Range(Q) : h.stack[p] + h.contributed[p] = d[p]
    BY <2>1 DEF Divisible
  <2>3. Settled(Q, h, k)
    BY <2>1, <2>2, ShowdownSettles
  <2> QED BY <1>1, <2>2, <2>3
<1>3. CASE \E h : Stakes(Q, h, d) /\ (\E w : Active(h) = {w}) /\ k = LastStanding(h)
  <2>1. PICK h : Stakes(Q, h, d) /\ (\E w : Active(h) = {w}) /\ k = LastStanding(h)
    BY <1>3
  <2>2. Backed(Q, h) /\ \A p \in Range(Q) : h.stack[p] + h.contributed[p] = d[p]
    <3>1. Shape(Q, h) /\ Booked(Q, h, d)
      BY <2>1 DEF Stakes
    <3>2. /\ h.pot \in Nat /\ h.drawn \in Nat
          /\ h.pot = SumFunctionOnSet(h.contributed, Range(Q))
          /\ h.board = BoardAt[h.stage] /\ h.drawn = 2 * N(Q) + h.board
          /\ \A p \in Range(Q) : h.stack[p] + h.contributed[p] = d[p]
      BY <3>1 DEF Booked, Shape, Table
    <3>3. SumFunctionOnSet(h.contributed, Range(Q)) <= h.pot /\ h.drawn >= 2 * N(Q) + h.board
      BY <3>2
    <3> QED BY <3>1, <3>2, <3>3 DEF Backed
  <2>3. Active(h) # {} /\ k = LastStanding(h)
    BY <2>1
  <2>4. Settled(Q, h, k)
    BY <2>2, <2>3, LastStandingSettles
  <2> QED BY <1>1, <2>2, <2>4
<1> QED BY <1>2, <1>3 DEF Ended

\* Some folded player put in more than was called.
Overpaid(k) == \E p \in k.folded : k.contributed[p] > CalledLevel(k, Active(k))

\* Nothing else loses chips when a hand ends as Hand describes it.
LEMMA EndedKeeps ==
  ASSUME NEW Q, Seated(Q), NEW k, NEW d, Ended(Q, k, d)
  PROVE  \/ SumFunctionOnSet(k.stack, Range(Q)) = SumFunctionOnSet(d, Range(Q))
         \/ k.reason = "showdown" /\ Overpaid(k)
<1> DEFINE lost == k.reason = "showdown" /\ Overpaid(k)
           dead(p) == IF p \in k.folded /\ k.reason = "showdown"
                      THEN Max({0, k.contributed[p] - CalledLevel(k, Active(k))}) ELSE 0
           deads == [p \in Range(Q) |-> dead(p)]
<1>1. SUFFICES ASSUME ~lost
               PROVE  SumFunctionOnSet(k.stack, Range(Q)) = SumFunctionOnSet(d, Range(Q))
  OBVIOUS
<1>2. Over(Q, k) /\ Accounted(Q, k, d) /\ Table(Q, k) /\ IsFiniteSet(Range(Q))
  BY EndedDivided, SeatingFacts DEF Divided, Over
<1>3. ASSUME k.reason = "showdown" PROVE Contested(k)
  <2>1. ~\E h : Stakes(Q, h, d) /\ (\E w : Active(h) = {w}) /\ k = LastStanding(h)
    BY <1>3, LastStandingOver DEF Stakes
  <2>2. PICK h, s : Divisible(Q, h, d) /\ (\A p \in Range(Q) : s[p] \in Nat) /\ k = Showdown(h, s)
    BY <2>1 DEF Ended
  <2>3. Table(Q, h) /\ Contested(h) /\ k.folded = h.folded
    BY <2>2, ShowdownOver DEF Divisible
  <2>4. Active(h) = Range(Q) \ h.folded
    BY ONLY Seated(Q), <2>3, SeatsOfShape DEF Table
  <2>5. Active(k) = Range(Q) \ k.folded
    BY ONLY Seated(Q), <1>2, SeatsOfShape DEF Table
  <2> QED BY <2>3, <2>4, <2>5 DEF Contested
<1>4. \A p \in Range(Q) : dead(p) = 0
  <2>1. TAKE p \in Range(Q)
  <2>2. CASE p \in k.folded /\ k.reason = "showdown"
    <3>1. CalledLevel(k, Active(k)) \in Nat
      BY <1>2, <1>3, <2>2, CalledLevelType
    <3>2. k.contributed[p] \in Nat
      BY <1>2 DEF Table
    <3>3. ~(k.contributed[p] > CalledLevel(k, Active(k)))
      BY <1>1, <2>2 DEF Overpaid
    <3>4. Max({0, k.contributed[p] - CalledLevel(k, Active(k))}) = 0
      BY ONLY <3>1, <3>2, <3>3, MaxOfPair
    <3> QED BY <2>2, <3>4
  <2> QED BY <2>2
<1>5. SumFunctionOnSet(d, Range(Q))
        = SumFunctionOnSet(k.stack, Range(Q)) + SumFunctionOnSet(deads, Range(Q))
  BY <1>2 DEF Accounted
<1>6. SumFunctionOnSet(deads, Range(Q)) = 0
  <2>1. \A p \in Range(Q) : deads[p] = 0
    BY <1>4
  <2> HIDE DEF deads
  <2> QED BY <1>2, <2>1, SumZero
<1>7. SumFunctionOnSet(k.stack, Range(Q)) \in Int
  <2>1. \A p \in Range(Q) : k.stack[p] \in Int
    BY <1>2 DEF Table
  <2> QED BY <1>2, <2>1, SumType
<1> HIDE DEF deads, lost
<1> QED BY <1>5, <1>6, <1>7

\* A hand in play as Hand describes it is one that nobody has left.
LEMMA InPlayGoing ==
  ASSUME NEW Q, Seated(Q), NEW k, NEW d, InPlay(Q, k, d)
  PROVE  /\ Going(Q, k) /\ Whole(k) /\ Brought(k) = d /\ InHand(k) = Range(Q) /\ k.players = Q
         /\ k.pot = SumFunctionOnSet(k.contributed, Range(Q))
         /\ \A p \in Range(Q) : k.stack[p] + k.contributed[p] = d[p]
<1>1. Shape(Q, k) /\ Booked(Q, k, d) /\ Contested(k)
  BY DEF InPlay, Stakes
<1>2. /\ k.pot \in Nat /\ k.drawn \in Nat /\ k.players = Q /\ k.stage \in Streets
      /\ k.pot = SumFunctionOnSet(k.contributed, Range(Q))
      /\ k.board = BoardAt[k.stage] /\ k.drawn = 2 * N(Q) + k.board
      /\ d \in [Range(Q) -> Nat \ {0}]
      /\ \A p \in Range(Q) : k.stack[p] + k.contributed[p] = d[p]
  BY <1>1 DEF Booked, Shape, Table
<1>3. SumFunctionOnSet(k.contributed, Range(Q)) <= k.pot /\ k.drawn >= 2 * N(Q) + k.board
  BY <1>2
<1>4. Going(Q, k)
  BY <1>1, <1>2, <1>3 DEF Going, Backed
<1>5. InHand(k) = Range(Q)
  BY <1>2 DEF InHand
<1>6. Brought(k) = d
  BY <1>2, <1>5 DEF Brought
<1>7. Whole(k)
  BY <1>2 DEF Whole, Betting, N
<1> QED BY <1>2, <1>4, <1>5, <1>6, <1>7

\* NewGame deals such a hand, unless the deck does not hold its cards.
LEMMA NewGameDeals ==
  ASSUME NEW Q, Seated(Q), NEW dealer \in Places(Q), NEW d,
         N(Q) >= 2, \A p \in Range(Q) : d[p] \in Nat \ {0},
         NEW s, \A p \in Range(Q) : s[p] \in Nat, NEW k, k = NewGame(Q, d, dealer, s)
  PROVE  Stuck(Q, k) \/ Deals(Q, d, k)
<1> DEFINE e == [p \in Range(Q) |-> d[p]]
<1>1. \/ Stuck(Q, k)
      \/ k.folded = {} /\ (Ended(Q, k, e) \/ InPlay(Q, k, e))
  BY NewGameInPlay
<1>2. \A p \in Range(Q) : e[p] = d[p] /\ d[p] \in Nat
  OBVIOUS
<1> HIDE DEF e
<1>3. IsFiniteSet(Range(Q)) /\ \A i \in Places(Q) : Q[i + 1] \in Range(Q)
  BY SeatingFacts
<1>4. SumFunctionOnSet(e, Range(Q)) = SumFunctionOnSet(d, Range(Q))
  BY <1>2, <1>3, SumSame
<1>5. CASE k.folded = {} /\ Ended(Q, k, e)
  <2>1. /\ Over(Q, k) /\ SumFunctionOnSet(k.stack, Range(Q)) = SumFunctionOnSet(e, Range(Q))
        /\ \A p \in Range(Q) : k.stack[p] + k.contributed[p] >= e[p] /\ k.contributed[p] <= k.pot
    BY <1>5, EndedSettled, EndedKeeps DEF Overpaid
  <2>2. Done(k) /\ InHand(k) = Range(Q) /\ k.players = Q
    BY <2>1, SettledDone
  <2>3. At(k, k.dealer) \in Range(Q)
    BY <1>3, <2>1 DEF Over, Table, At
  <2> QED BY <1>2, <1>4, <1>5, <2>1, <2>2, <2>3 DEF Deals
<1>6. CASE k.folded = {} /\ InPlay(Q, k, e)
  <2>1. /\ Going(Q, k) /\ Whole(k) /\ Brought(k) = e /\ InHand(k) = Range(Q) /\ k.players = Q
        /\ k.pot = SumFunctionOnSet(k.contributed, Range(Q))
        /\ \A p \in Range(Q) : k.stack[p] + k.contributed[p] = e[p]
    BY <1>6, InPlayGoing
  <2>2. Table(Q, k)
    BY <2>1 DEF Going, Backed, Shape
  <2>3. /\ At(k, k.dealer) \in Range(Q)
        /\ \A p \in Range(Q) : k.stack[p] \in Int /\ k.contributed[p] \in Int
                               /\ d[p] = k.stack[p] + k.contributed[p]
                               /\ k.stack[p] + k.contributed[p] >= d[p]
    BY <1>2, <1>3, <2>1, <2>2 DEF Table, At
  <2>4. SumFunctionOnSet(d, Range(Q))
          = SumFunctionOnSet(k.stack, Range(Q)) + SumFunctionOnSet(k.contributed, Range(Q))
    BY <1>3, <2>3, SumAdd
  <2> QED BY <1>2, <1>6, <2>1, <2>3, <2>4 DEF Deals
<1> QED BY <1>1, <1>5, <1>6

\* Numbers modulo n.
LEMMA ModOf ==
  ASSUME NEW n \in Nat \ {0}, NEW q \in Nat, NEW m \in 0 .. n - 1
  PROVE  ((n * q) + m) % n = m
OBVIOUS

\* From any seat, every seat is reached within one round of the table.
LEMMA RingHit ==
  ASSUME NEW n \in Nat \ {0}, NEW a \in Nat, NEW m \in 0 .. n - 1
  PROVE  \E i \in 0 .. n - 1 : (a + i) % n = m
<1>1. PICK q \in Nat, r \in 0 .. n - 1 : a = (n * q) + r
  <2>1. a % n \in 0 .. n - 1 /\ a \div n \in Nat /\ a = (n * (a \div n)) + (a % n)
    OBVIOUS
  <2> QED BY <2>1
<1>2. CASE m >= r
  <2>1. a + (m - r) = (n * q) + m /\ m - r \in 0 .. n - 1
    BY <1>1, <1>2
  <2> QED BY <1>1, <2>1, ModOf
<1>3. CASE m < r
  <2>1. a + (m - r + n) = (n * (q + 1)) + m /\ m - r + n \in 0 .. n - 1 /\ q + 1 \in Nat
    BY <1>1, <1>3
  <2> QED BY <1>1, <2>1, ModOf
<1> QED BY <1>2, <1>3

\* The players with chips.
Funds(stacks) == {u \in Members : stacks[u] > 0}

\* buildGameFromRoom deals to the players with chips, in the room's order.
LEMMA DealtDeals ==
  ASSUME RoomAssumption, players \in Seq(User), IsInjective(players), nextDealer \in Nat,
         NEW stacks \in [User -> Nat], EnoughChips(stacks), NEW s \in Orders,
         NEW k, k = Dealt(stacks, s), NEW Q, Q = Among(players, Funds(stacks))
  PROVE  /\ Seated(Q) /\ Range(Q) = Funds(stacks)
         /\ Stuck(Q, k) \/ Deals(Q, stacks, k)
<1> DEFINE In     == Funds(stacks)
           n      == Len(players)
           Hops   == {i \in 0 .. n - 1 : players[((nextDealer + i) % n) + 1] \in In}
           hop    == Min(Hops)
           dealer == players[((nextDealer + hop) % n) + 1]
           place  == CHOOSE d \in 0 .. Len(Q) - 1 : Q[d + 1] = dealer
<1>1. k = NewGame(Q, stacks, place, s)
  BY DEF Dealt, Funds
<1>2. Q \in Seq(User) /\ Range(Q) = Members \cap In /\ IsInjective(Q)
  BY AmongFacts DEF Members
<1>3. Range(Q) = In
  BY <1>2 DEF Funds
<1>4. Cardinality(Range(Q)) = N(Q) /\ N(Q) >= 2
  <2>1. Cardinality(Range(Q)) = Len(Q)
    BY <1>2, SeatsOfDistinct
  <2>2. Cardinality(In) >= 2
    BY DEF EnoughChips, Funds
  <2> QED BY <1>3, <2>1, <2>2 DEF N
<1>5. Seated(Q)
  <2>1. Q # <<>>
    BY <1>4 DEF N
  <2> QED BY <1>2, <2>1, SeatedIfDistinct
<1>6. PICK u \in In : TRUE
  <2>1. 0 \in Places(Q)
    BY <1>4, <1>5, SeatingFacts DEF Places
  <2>2. Q[0 + 1] \in Range(Q)
    BY <1>5, <2>1, SeatingFacts
  <2> QED BY <1>3, <2>2
<1>7. n \in Nat /\ DOMAIN players = 1 .. n
  OBVIOUS
<1>8. PICK i \in 1 .. n : players[i] = u
  BY <1>6, <1>7 DEF Funds, Members, Range
<1>9. hop \in Hops
  <2>1. n \in Nat \ {0} /\ i - 1 \in 0 .. n - 1 /\ (i - 1) + 1 = i
    BY <1>7, <1>8
  <2> HIDE DEF n
  <2>2. PICK j \in 0 .. n - 1 : (nextDealer + j) % n = i - 1
    BY <2>1, RingHit
  <2>3. players[((nextDealer + j) % n) + 1] = u
    BY <1>8, <2>1, <2>2
  <2>4. j \in Hops /\ Hops \in SUBSET Nat
    BY <1>6, <2>2, <2>3
  <2> HIDE DEF Hops
  <2> QED BY <2>4, MinOfNaturals
<1>10. dealer \in Range(Q)
  BY <1>3, <1>9
<1> HIDE DEF n, Hops, hop, dealer
<1>11. \E d \in 0 .. Len(Q) - 1 : Q[d + 1] = dealer
  BY <1>5, <1>10, SeatingFacts DEF Places, N
<1>12. place \in Places(Q)
  BY <1>11 DEF Places, N
<1>13. \A p \in Range(Q) : stacks[p] \in Nat \ {0} /\ s[p] \in Nat
  <2>1. s \in [User -> Nat]
    BY DEF RoomAssumption
  <2>2. \A p \in Range(Q) : p \in User /\ stacks[p] > 0
    <3>1. Range(Q) \subseteq User
      BY <1>2 DEF Range
    <3>2. \A p \in Range(Q) : stacks[p] > 0
      BY <1>3 DEF Funds
    <3> QED BY <3>1, <3>2
  <2> QED BY <2>1, <2>2
<1> HIDE DEF place, In
<1>14. Stuck(Q, k) \/ Deals(Q, stacks, k)
  BY <1>1, <1>4, <1>5, <1>12, <1>13, NewGameDeals
<1> QED BY <1>3, <1>5, <1>14 DEF In

-----------------------------------------------------------------------------
(* The invariant of a room. *)

\* The seats: nobody has two, nobody both plays and watches, the AI players
\* were added, and the owner sits at the table while there is one.
SeatsOK ==
  /\ IsInjective(players) /\ Members \cap spectators = {} /\ Members \cap Bot \subseteq bots
  /\ IF status = "deleted" THEN players = <<>> /\ game = NoGame ELSE owner \in Members

\* The hand: none yet, one that never returned, one that is over, or one that
\* is being played by some of the members, in the room's order.
HandOK ==
  \/ game = NoGame \/ game.stage = "panic" \/ Done(game)
  \/ /\ Going(game.players, game) /\ status = "playing"
     /\ game.players = Among(players, InHand(game))

\* A hand's players are still at the table, but for the AI players who were
\* removed after it, and those never come back.
PlayersKnown ==
  game.stage \in Streets \cup {"finished"} =>
    InHand(game) \cap Human \subseteq Members /\ InHand(game) \cap Bot \subseteq bots

\* A vote.
VoteOK ==
  /\ vote \in [result : {"none", "pending", "approved", "rejected"},
               eligible : SUBSET Human, agreed : SUBSET Human]
  /\ VoteIsCurrent

\* The room's stacks are behind the hand's at most by the blinds the hand was
\* dealt with, and only until somebody has acted.
StacksKept ==
  game.stage \in Streets \cup {"finished"} =>
    \/ \A p \in Members \cap InHand(game) : stack[p] <= game.stack[p]
    \/ /\ status = "playing" /\ game.folded = {}
       /\ \A p \in Members \cap InHand(game) : stack[p] <= game.stack[p] + game.contributed[p]

\* It is in play as Hand describes it.
WholeInPlay == Whole(game) => InPlay(game.players, game, Brought(game))

\* All of it.
RoomInv ==
  /\ RoomTypeOK /\ SeatsOK /\ HandOK /\ PlayersKnown /\ VoteOK /\ StacksKept /\ WholeInPlay

\* While the room is waiting no hand is being played.
LEMMA WaitingFacts ==
  ASSUME RoomInv, Up, status = "waiting" \/ BetweenHands
  PROVE  (game = NoGame \/ Done(game)) /\ BetweenHands /\ ~Betting(game)
<1>1. game = NoGame \/ Done(game)
  <2>1. ASSUME Going(game.players, game), status = "playing" PROVE FALSE
    <3>1. game.stage \in Streets
      BY <2>1 DEF Going, Backed, Shape
    <3> QED BY <2>1, <3>1 DEF BetweenHands, Streets
  <2> QED BY <2>1 DEF RoomInv, HandOK, Up
<1>2. game.stage \in {"none", "finished"}
  BY <1>1 DEF NoGame, Done
<1> QED BY <1>1, <1>2 DEF BetweenHands, Betting, Streets

\* Who sits down now is in no hand.
LEMMA NewcomerFacts ==
  ASSUME RoomInv, Up, NEW u, u \in Human \ Members \/ u \in Bot \ bots
  PROVE  u \notin Members /\ (game.stage \in Streets \cup {"finished"} => u \notin InHand(game))
<1>1. u \notin Members
  BY DEF RoomInv, SeatsOK
<1> QED BY <1>1 DEF RoomInv, PlayersKnown

\* JoinRoom and AddAI.
LEMMA SitDownInv ==
  ASSUME RoomAssumption, RoomInv, Up, status = "waiting", NEW u,
         \/ /\ u \in Human \ Members /\ bots' = bots /\ vote' = NoVote
            /\ spectators' = spectators \ {u}
         \/ /\ u \in Bot \ bots /\ bots' = bots \cup {u} /\ vote' = vote
            /\ spectators' = spectators,
         SitDown(u), UNCHANGED <<owner, status, nextDealer, game, hands>>
  PROVE  RoomInv'
<1>1. /\ RoomTypeOK /\ SeatsOK /\ HandOK /\ PlayersKnown /\ VoteOK /\ StacksKept /\ WholeInPlay
  BY DEF RoomInv
<1>2. u \in User /\ u \notin Members /\ (game.stage \in Streets \cup {"finished"} => u \notin InHand(game))
  BY NewcomerFacts DEF User
<1>3. /\ players' \in Seq(User) /\ Members' = Members \cup {u} /\ IsInjective(players')
  <2>1. players \in Seq(User) /\ IsInjective(players) /\ players' = Append(players, u)
    BY <1>1 DEF SitDown, RoomTypeOK, SeatsOK
  <2>2. Range(players') = Range(players) \cup {u} /\ IsInjective(players')
    BY <1>2, <2>1, AppendFacts DEF Members
  <2> QED BY <1>2, <2>1, <2>2 DEF Members
<1>4. RoomTypeOK'
  BY <1>1, <1>3 DEF SitDown, RoomTypeOK, RoomAssumption, NoVote, User
<1>5. SeatsOK'
  BY <1>1, <1>2, <1>3 DEF SeatsOK, RoomTypeOK, RoomAssumption, Up
<1>6. HandOK'
  BY <1>1, WaitingFacts DEF HandOK
<1>7. PlayersKnown'
  BY <1>1, <1>3 DEF PlayersKnown
<1>8. VoteOK'
  <2>1. vote' = NoVote \/ (vote' = vote /\ Humans(players)' = Humans(players))
    BY <1>3 DEF Humans, Members, RoomAssumption
  <2>2. CASE vote' = NoVote
    BY <2>2 DEF VoteOK, VoteIsCurrent, NoVote
  <2>3. CASE vote' = vote /\ Humans(players)' = Humans(players)
    BY <1>1, <2>3 DEF VoteOK, VoteIsCurrent, BetweenHands, Up
  <2> QED BY <2>1, <2>2, <2>3
<1>9. StacksKept'
  <2>1. game.stage \in Streets \cup {"finished"} =>
          \A p \in Members' \cap InHand(game) : p \in Members \cap InHand(game) /\ stack'[p] = stack[p]
    BY <1>1, <1>2, <1>3 DEF SitDown, RoomTypeOK
  <2> QED BY <1>1, <2>1 DEF StacksKept
<1>10. WholeInPlay'
  BY <1>1 DEF WholeInPlay
<1> QED BY <1>4, <1>5, <1>6, <1>7, <1>8, <1>9, <1>10 DEF RoomInv

\* SpectateRoom and LeaveAsSpectator.
LEMMA WatchInv ==
  ASSUME RoomAssumption, RoomInv, NEW u \in Human, SpectateRoom(u) \/ LeaveAsSpectator(u)
  PROVE  RoomInv'
<1>1. /\ RoomTypeOK /\ SeatsOK /\ HandOK /\ PlayersKnown /\ VoteOK /\ StacksKept /\ WholeInPlay
  BY DEF RoomInv
<1>2. /\ UNCHANGED <<players, owner, bots, entries, status, stack, nextDealer, game, vote, hands>>
      /\ spectators' \subseteq Human /\ Members \cap spectators' = {}
  BY <1>1 DEF SpectateRoom, LeaveAsSpectator, RoomTypeOK, SeatsOK
<1>3. RoomTypeOK' /\ SeatsOK'
  BY <1>1, <1>2 DEF RoomTypeOK, SeatsOK, Members
<1>4. HandOK' /\ PlayersKnown' /\ VoteOK' /\ StacksKept' /\ WholeInPlay'
  BY <1>1, <1>2 DEF HandOK, PlayersKnown, VoteOK, VoteIsCurrent, BetweenHands, Up, StacksKept,
     WholeInPlay, Members
<1> QED BY <1>3, <1>4 DEF RoomInv

\* RemoveAI.
LEMMA RemoveAIInv ==
  ASSUME RoomAssumption, RoomInv, NEW bot, RemoveAI(bot)
  PROVE  RoomInv'
<1>1. /\ RoomTypeOK /\ SeatsOK /\ HandOK /\ PlayersKnown /\ VoteOK /\ StacksKept /\ WholeInPlay
  BY DEF RoomInv
<1>2. /\ Up /\ status = "waiting" /\ bot \in Bot
      /\ UNCHANGED <<spectators, owner, bots, entries, status, nextDealer, game, vote, hands>>
      /\ players' = Among(players, User \ {bot}) /\ stack' = [stack EXCEPT ![bot] = 0]
  BY DEF RemoveAI
<1>3. players' \in Seq(User) /\ Members' = Members \ {bot} /\ IsInjective(players')
  <2>1. players \in Seq(User) /\ IsInjective(players)
    BY <1>1 DEF RoomTypeOK, SeatsOK
  <2>2. Range(players) \subseteq User
    BY <2>1 DEF Range
  <2>3. /\ Among(players, User \ {bot}) \in Seq(User) /\ IsInjective(Among(players, User \ {bot}))
        /\ Range(Among(players, User \ {bot})) = Range(players) \cap (User \ {bot})
    BY <2>1, AmongFacts
  <2> QED BY <1>2, <2>2, <2>3 DEF Members
<1>4. RoomTypeOK'
  BY <1>1, <1>2, <1>3 DEF RoomTypeOK
<1>5. SeatsOK'
  BY <1>1, <1>2, <1>3 DEF SeatsOK, RoomTypeOK, RoomAssumption, Up
<1>6. HandOK'
  BY <1>1, <1>2, WaitingFacts DEF HandOK
<1>7. PlayersKnown'
  BY <1>1, <1>2, <1>3 DEF PlayersKnown, RoomAssumption
<1>8. VoteOK'
  <2>1. Humans(players)' = Humans(players)
    BY <1>2, <1>3 DEF Humans, Members, RoomAssumption
  <2> QED BY <1>1, <1>2, <2>1 DEF VoteOK, VoteIsCurrent, BetweenHands, Up
<1>9. StacksKept'
  <2>1. \A p \in Members' \cap InHand(game) : p \in Members \cap InHand(game) /\ stack'[p] = stack[p]
    BY <1>1, <1>2, <1>3 DEF RoomTypeOK
  <2> QED BY <1>1, <1>2, <2>1 DEF StacksKept
<1>10. WholeInPlay'
  BY <1>1, <1>2 DEF WholeInPlay
<1> QED BY <1>4, <1>5, <1>6, <1>7, <1>8, <1>9, <1>10 DEF RoomInv

\* StartChipRefreshVote, VoteAgree and VoteReject, but for the chips.
LEMMA VoteInv ==
  ASSUME RoomAssumption, RoomInv,
         StartChipRefreshVote \/ \E u \in Human : VoteAgree(u) \/ VoteReject(u)
  PROVE  /\ Up /\ BetweenHands /\ UNCHANGED <<seats, status, nextDealer, hands>>
         /\ SeatsOK' /\ vote' \in [result : {"none", "pending", "approved", "rejected"},
                                   eligible : SUBSET Human, agreed : SUBSET Human]
         /\ VoteOK'
<1>1. /\ RoomTypeOK /\ SeatsOK /\ HandOK /\ VoteOK
  BY DEF RoomInv
<1>2. Up /\ BetweenHands /\ UNCHANGED <<seats, status, nextDealer, hands>>
  BY DEF StartChipRefreshVote, VoteAgree, VoteReject, CanVote
<1>3. game' = game \/ (game # NoGame /\ game' = [game EXCEPT !.stack = [p \in DOMAIN @ |-> DefaultStack]])
  BY DEF StartChipRefreshVote, VoteAgree, VoteReject
<1>4. /\ game'.stage = game.stage /\ (game' = NoGame <=> game = NoGame)
  <2>1. game = NoGame \/ Done(game)
    BY <1>2, WaitingFacts
  <2>2. game # NoGame => DOMAIN game = Fields /\ game.stage = "finished"
    BY <2>1 DEF Done
  <2>3. ASSUME game # NoGame, game' = [game EXCEPT !.stack = [p \in DOMAIN @ |-> DefaultStack]]
        PROVE  game'.stage = "finished"
    BY <2>2, <2>3 DEF Fields
  <2>4. NoGame.stage = "none"
    BY DEF NoGame
  <2> QED BY <1>3, <2>2, <2>3, <2>4
<1>5. SeatsOK'
  BY <1>1, <1>2, <1>4 DEF SeatsOK, seats, Members
<1>6. /\ vote \in [result : {"none", "pending", "approved", "rejected"},
                   eligible : SUBSET Human, agreed : SUBSET Human]
      /\ VoteIsCurrent
  BY <1>1 DEF VoteOK
<1>7. Humans(players) \in SUBSET Human /\ Humans(players)' = Humans(players) /\ BetweenHands'
  BY <1>2, <1>4 DEF Humans, seats, BetweenHands
<1>8. Humans(players) # {}
  BY <1>1, <1>2 DEF RoomTypeOK, SeatsOK, Up, Humans, Members
<1>9. CASE StartChipRefreshVote
  <2>1. vote' = [result |-> "pending", eligible |-> Humans(players), agreed |-> {}]
    BY <1>9 DEF StartChipRefreshVote
  <2> QED BY <1>2, <1>5, <1>7, <1>8, <2>1 DEF VoteOK, VoteIsCurrent
<1>10. ASSUME NEW u \in Human, VoteAgree(u) PROVE VoteOK'
  <2>1. /\ vote.result = "pending" /\ u \in vote.eligible \ vote.agreed /\ vote # NoVote
        /\ vote' = [vote EXCEPT !.agreed = vote.agreed \cup {u},
                                !.result = IF vote.agreed \cup {u} = vote.eligible THEN "approved" ELSE @]
    <3>1. vote.result = "pending" /\ u \in vote.eligible \ vote.agreed
      BY <1>10 DEF VoteAgree, CanVote
    <3>2. vote # NoVote
      BY <3>1 DEF NoVote
    <3>3. vote' = [vote EXCEPT !.agreed = vote.agreed \cup {u},
                     !.result = IF vote.agreed \cup {u} = vote.eligible THEN "approved" ELSE @]
      BY <1>10, Zenon DEF VoteAgree
    <3> QED BY <3>1, <3>2, <3>3
  <2>2. vote.eligible = Humans(players) /\ vote.agreed \subseteq vote.eligible
    BY <1>2, <1>6, <2>1 DEF VoteIsCurrent
  <2>3. /\ vote'.eligible = vote.eligible /\ vote'.agreed = vote.agreed \cup {u}
        /\ vote'.result = IF vote.agreed \cup {u} = vote.eligible THEN "approved" ELSE "pending"
        /\ vote' \in [result : {"none", "pending", "approved", "rejected"},
                      eligible : SUBSET Human, agreed : SUBSET Human]
    BY <1>6, <2>1, <2>2
  <2> QED BY <1>7, <2>1, <2>2, <2>3 DEF VoteOK, VoteIsCurrent
<1>11. ASSUME NEW u \in Human, VoteReject(u) PROVE VoteOK'
  <2>1. /\ vote.result = "pending" /\ u \in vote.eligible \ vote.agreed /\ vote # NoVote
        /\ vote' = [vote EXCEPT !.result = "rejected"]
    BY <1>11 DEF VoteReject, CanVote, NoVote
  <2>2. vote.eligible = Humans(players) /\ vote.agreed \subseteq vote.eligible
    BY <1>2, <1>6, <2>1 DEF VoteIsCurrent
  <2>3. /\ vote'.eligible = vote.eligible /\ vote'.agreed = vote.agreed
        /\ vote'.result = "rejected" /\ vote'.agreed # vote'.eligible
        /\ vote' \in [result : {"none", "pending", "approved", "rejected"},
                      eligible : SUBSET Human, agreed : SUBSET Human]
    BY <1>6, <2>1, <2>2
  <2> QED BY <1>7, <2>1, <2>2, <2>3 DEF VoteOK, VoteIsCurrent
<1> QED BY <1>2, <1>5, <1>9, <1>10, <1>11 DEF VoteOK

\* The vote refreshes the chips of the room and of the finished hand together.
LEMMA VotingInv ==
  ASSUME RoomAssumption, RoomInv,
         StartChipRefreshVote \/ \E u \in Human : VoteAgree(u) \/ VoteReject(u)
  PROVE  RoomInv'
<1>1. /\ RoomTypeOK /\ SeatsOK /\ HandOK /\ PlayersKnown /\ VoteOK /\ StacksKept /\ WholeInPlay
  BY DEF RoomInv
<1>2. /\ Up /\ BetweenHands /\ UNCHANGED <<seats, status, nextDealer, hands>>
      /\ SeatsOK' /\ VoteOK'
      /\ vote' \in [result : {"none", "pending", "approved", "rejected"},
                    eligible : SUBSET Human, agreed : SUBSET Human]
  BY VoteInv
<1>3. (game = NoGame \/ Done(game)) /\ ~Betting(game) /\ DefaultStack \in Nat
  BY <1>2, WaitingFacts DEF RoomAssumption
<1>4. \/ stack' = stack /\ game' = game
      \/ /\ stack' = [p \in User |-> IF p \in Members THEN DefaultStack ELSE stack[p]]
         /\ game' = IF game # NoGame THEN [game EXCEPT !.stack = [p \in DOMAIN @ |-> DefaultStack]]
                    ELSE game
  BY DEF StartChipRefreshVote, VoteAgree, VoteReject
<1>5. CASE stack' = stack /\ game' = game
  <2>1. RoomTypeOK'
    BY <1>1, <1>2, <1>5 DEF RoomTypeOK, seats
  <2>2. HandOK' /\ PlayersKnown' /\ StacksKept' /\ WholeInPlay'
    BY <1>1, <1>2, <1>5 DEF HandOK, PlayersKnown, StacksKept, WholeInPlay, seats, Members
  <2> QED BY <1>2, <2>1, <2>2 DEF RoomInv
<1>6. CASE /\ stack' = [p \in User |-> IF p \in Members THEN DefaultStack ELSE stack[p]]
           /\ game' = IF game # NoGame
                      THEN [game EXCEPT !.stack = [p \in DOMAIN @ |-> DefaultStack]] ELSE game
  <2>1. stack' \in [User -> Nat] /\ \A p \in User \cap Members : stack'[p] = DefaultStack
    BY <1>1, <1>3, <1>6 DEF RoomTypeOK
  <2>2. Members' = Members /\ Members \subseteq User
    BY <1>1, <1>2 DEF seats, Members, RoomTypeOK, Range
  <2>3. CASE game = NoGame
    <3>1. game' = NoGame /\ game.stage = "none"
      BY <1>6, <2>3 DEF NoGame
    <3>2. RoomTypeOK'
      BY <1>1, <1>2, <2>1, <2>3, <3>1 DEF RoomTypeOK, seats
    <3>3. HandOK' /\ PlayersKnown' /\ StacksKept' /\ WholeInPlay'
      BY <2>3, <3>1 DEF HandOK, PlayersKnown, StacksKept, WholeInPlay, Whole, Betting, Streets
    <3> QED BY <1>2, <3>2, <3>3 DEF RoomInv
  <2>4. CASE game # NoGame
    <3>1. Done(game) /\ game' = [game EXCEPT !.stack = [p \in DOMAIN @ |-> DefaultStack]]
      BY <1>3, <1>6, <2>4
    <3>2. DOMAIN game' = Fields
      BY <3>1, Zenon DEF Done
    <3>3. /\ game'.stage = "finished" /\ game'.players = game.players /\ game'.pot = game.pot
          /\ game'.contributed = game.contributed /\ game'.folded = game.folded
          /\ game'.stack = [p \in DOMAIN game.stack |-> DefaultStack]
      BY <3>1 DEF Done, Fields
    <3>4. /\ DOMAIN game.stack = InHand(game) /\ InHand(game') = InHand(game)
          /\ game'.stack = [p \in InHand(game) |-> DefaultStack]
      BY <3>1, <3>3 DEF Done, InHand
    <3>5. Done(game')
      BY <1>3, <3>1, <3>2, <3>3, <3>4 DEF Done, InHand
    <3>6. RoomTypeOK'
      BY <1>1, <1>2, <2>1, <3>3 DEF RoomTypeOK, seats
    <3>7. HandOK' /\ WholeInPlay'
      BY <3>3, <3>5 DEF HandOK, WholeInPlay, Whole, Betting, Streets
    <3>8. PlayersKnown'
      BY <1>1, <1>2, <2>2, <3>1, <3>4 DEF PlayersKnown, Done, seats
    <3>9. StacksKept'
      <4>1. \A p \in Members \cap InHand(game) : stack'[p] = DefaultStack /\ game'.stack[p] = DefaultStack
        BY <2>1, <2>2, <3>4
      <4>2. \A p \in Members' \cap InHand(game') : stack'[p] <= game'.stack[p]
        BY <1>3, <2>2, <3>4, <4>1
      <4> QED BY <4>2 DEF StacksKept
    <3> QED BY <1>2, <3>6, <3>7, <3>8, <3>9 DEF RoomInv
  <2> QED BY <2>3, <2>4
<1> QED BY <1>4, <1>5, <1>6

\* A call that never returns leaves the table as it was.
LEMMA PanicInv ==
  ASSUME RoomInv, Up, game'.stage = "panic", status' \in {"waiting", "playing"},
         stack' \in [User -> Nat], UNCHANGED <<seats, nextDealer, vote, hands>>
  PROVE  RoomInv'
<1>1. /\ RoomTypeOK /\ SeatsOK /\ VoteOK
  BY DEF RoomInv
<1>2. RoomTypeOK'
  BY <1>1 DEF RoomTypeOK, seats
<1>3. SeatsOK'
  BY <1>1 DEF SeatsOK, seats, Members, Up
<1>4. VoteOK'
  BY <1>1 DEF VoteOK, VoteIsCurrent, Up
<1>5. HandOK' /\ PlayersKnown' /\ StacksKept' /\ WholeInPlay'
  BY DEF HandOK, PlayersKnown, StacksKept, WholeInPlay, Whole, Betting, Streets
<1> QED BY <1>2, <1>3, <1>4, <1>5 DEF RoomInv

\* StartGame and NextHand deal with the stacks they leave in the room.
LEMMA DealInv ==
  ASSUME RoomAssumption, RoomInv, Up, status # "deleted",
         NEW stacks \in [User -> Nat], EnoughChips(stacks), Deal(stacks),
         stack' = stacks, game'.stage # "panic"
  PROVE  /\ RoomInv'
         /\ \E Q : /\ Q = Among(players, Funds(stacks)) /\ Seated(Q) /\ Range(Q) = Funds(stacks)
                   /\ Deals(Q, stacks, game')
<1>1. /\ RoomTypeOK /\ SeatsOK /\ HandOK /\ PlayersKnown /\ VoteOK /\ StacksKept /\ WholeInPlay
  BY DEF RoomInv
<1>2. /\ players \in Seq(User) /\ IsInjective(players) /\ nextDealer \in Nat
      /\ Members \subseteq User
  BY <1>1 DEF RoomTypeOK, SeatsOK, Members, Range
<1>3. PICK s \in Orders : game' = Dealt(stacks, s)
  BY DEF Deal
<1>4. /\ hands < MaxHands /\ status' = "playing" /\ vote' = NoVote /\ hands' = hands + 1
      /\ nextDealer' = DealerAfter(game') /\ UNCHANGED seats
  BY DEF Deal
<1>5. PICK Q : Q = Among(players, Funds(stacks))
  OBVIOUS
<1>6. Seated(Q) /\ Range(Q) = Funds(stacks) /\ Deals(Q, stacks, game')
  BY <1>2, <1>3, <1>5, DealtDeals DEF Stuck
<1>7. /\ game'.players = Q /\ InHand(game') = Range(Q) /\ game'.folded = {}
      /\ At(game', game'.dealer) \in Range(Q)
      /\ \A p \in Range(Q) : game'.stack[p] + game'.contributed[p] >= stacks[p]
      /\ \/ Done(game')
         \/ Going(Q, game') /\ Whole(game') /\ InPlay(Q, game', Brought(game'))
  BY <1>6 DEF Deals
<1>8. game'.stage \in Streets \cup {"finished"} /\ (Done(game') => game'.stage \notin Streets)
  BY <1>7 DEF Done, Going, Backed, Shape, Streets
<1>9. nextDealer' \in Nat
  <2>1. At(game', game'.dealer) \in Members
    BY <1>6, <1>7 DEF Funds
  <2>2. Len(players) \in Nat /\ DOMAIN players = 1 .. Len(players)
    BY <1>2
  <2>3. \E i \in 1 .. Len(players) : players[i] = At(game', game'.dealer)
    BY <2>1, <2>2 DEF Members, Range
  <2>4. (CHOOSE i \in 1 .. Len(players) : players[i] = At(game', game'.dealer)) \in 1 .. Len(players)
    BY <2>3
  <2>5. \A i \in 1 .. Len(players) : i % Len(players) \in Nat
    BY <2>2
  <2> QED BY <1>4, <2>4, <2>5 DEF DealerAfter
<1>10. RoomTypeOK'
  BY <1>1, <1>4, <1>8, <1>9 DEF RoomTypeOK, RoomAssumption, seats, NoVote
<1>11. SeatsOK'
  BY <1>1, <1>4 DEF SeatsOK, seats, Members
<1>12. HandOK'
  <2>1. game'.players = Among(players', InHand(game'))
    BY <1>4, <1>5, <1>6, <1>7 DEF seats
  <2> QED BY <1>4, <1>7, <2>1 DEF HandOK
<1>13. PlayersKnown'
  <2>1. InHand(game') \subseteq Members' /\ bots' = bots /\ Members' = Members
    BY <1>4, <1>6, <1>7 DEF Funds, seats, Members
  <2> QED BY <1>1, <2>1 DEF PlayersKnown, SeatsOK
<1>14. VoteOK'
  BY <1>4 DEF VoteOK, VoteIsCurrent, NoVote
<1>15. StacksKept'
  BY <1>4, <1>7 DEF StacksKept
<1>16. WholeInPlay'
  BY <1>7, <1>8 DEF WholeInPlay, Whole, Betting
<1>17. RoomInv'
  BY <1>10, <1>11, <1>12, <1>13, <1>14, <1>15, <1>16 DEF RoomInv
<1> QED BY <1>5, <1>6, <1>17

\* StartGame.
LEMMA StartGameInv ==
  ASSUME RoomAssumption, RoomInv, StartGame
  PROVE  RoomInv'
<1>1. /\ Up /\ status = "waiting" /\ EnoughChips(stack) /\ Deal(stack) /\ stack' = stack
      /\ stack \in [User -> Nat]
  BY DEF StartGame, RoomInv, RoomTypeOK
<1>2. CASE game'.stage = "panic"
  BY <1>1, <1>2, PanicInv DEF Deal
<1>3. CASE game'.stage # "panic"
  BY <1>1, <1>3, DealInv
<1> QED BY <1>2, <1>3

\* The stacks the next hand is dealt with.
LEMMA StacksAfterHandFacts ==
  ASSUME RoomInv, game.stage = "finished"
  PROVE  /\ Done(game) /\ StacksAfterHand \in [User -> Nat]
         /\ \A p \in User : StacksAfterHand[p]
              = IF p \in Members \cap InHand(game) THEN game.stack[p] ELSE stack[p]
<1>1. HandOK /\ stack \in [User -> Nat]
  BY DEF RoomInv, RoomTypeOK
<1>2. Done(game)
  BY <1>1 DEF HandOK, NoGame, Going, Backed, Shape, Streets
<1>3. \A p \in InHand(game) : game.stack[p] \in Nat
  BY <1>2 DEF Done, InHand
<1> QED BY <1>1, <1>2, <1>3 DEF StacksAfterHand

\* NextHand.
LEMMA NextHandInv ==
  ASSUME RoomAssumption, RoomInv, NextHand
  PROVE  RoomInv'
<1>1. /\ RoomTypeOK /\ SeatsOK /\ HandOK /\ PlayersKnown /\ VoteOK /\ StacksKept /\ WholeInPlay
  BY DEF RoomInv
<1>2. Up /\ game.stage = "finished" /\ stack' = StacksAfterHand
  BY DEF NextHand
<1>3. /\ Done(game) /\ StacksAfterHand \in [User -> Nat]
      /\ \A p \in User : StacksAfterHand[p]
           = IF p \in Members \cap InHand(game) THEN game.stack[p] ELSE stack[p]
  BY <1>2, StacksAfterHandFacts
<1>4. CASE EnoughChips(StacksAfterHand)
  <2>1. Deal(StacksAfterHand)
    BY <1>4 DEF NextHand
  <2>2. CASE game'.stage = "panic"
    BY <1>1, <1>2, <1>3, <2>1, <2>2, PanicInv DEF Deal, RoomTypeOK, Up
  <2>3. CASE game'.stage # "panic"
    BY <1>2, <1>3, <1>4, <2>1, <2>3, DealInv DEF Up
  <2> QED BY <2>2, <2>3
<1>5. CASE ~EnoughChips(StacksAfterHand)
  <2>1. UNCHANGED <<seats, status, nextDealer, game, vote, hands>>
    BY <1>5 DEF NextHand
  <2>2. RoomTypeOK'
    BY <1>1, <1>2, <1>3, <2>1 DEF RoomTypeOK, seats
  <2>3. SeatsOK' /\ HandOK' /\ PlayersKnown' /\ VoteOK' /\ WholeInPlay'
    BY <1>1, <2>1 DEF SeatsOK, HandOK, PlayersKnown, VoteOK, VoteIsCurrent, WholeInPlay, Up,
       BetweenHands, seats, Members
  <2>4. StacksKept'
    <3>1. Members \subseteq User
      BY <1>1 DEF RoomTypeOK, Members, Range
    <3>2. \A p \in InHand(game) : game.stack[p] \in Nat
      BY <1>3 DEF Done, InHand
    <3>3. \A p \in Members \cap InHand(game) : stack'[p] <= game.stack[p]
      BY <1>2, <1>3, <3>1, <3>2
    <3> QED BY <2>1, <3>3 DEF StacksKept, seats, Members
  <2> QED BY <2>2, <2>3, <2>4 DEF RoomInv
<1> QED BY <1>4, <1>5

\* ApplyReveal.
LEMMA RevealInv ==
  ASSUME RoomAssumption, RoomInv, NEW u, ApplyReveal(u)
  PROVE  /\ RoomInv'
         /\ UNCHANGED <<seats, status, stack, nextDealer, vote, hands>>
         /\ game.stage = "finished" /\ game'.stage = "finished"
         /\ InHand(game') = InHand(game) /\ game'.stack = game.stack
<1>1. /\ RoomTypeOK /\ SeatsOK /\ HandOK /\ PlayersKnown /\ VoteOK /\ StacksKept /\ WholeInPlay
  BY DEF RoomInv
<1>2. /\ game.stage = "finished" /\ UNCHANGED <<seats, status, stack, nextDealer, vote, hands>>
      /\ \E mask : game' = [game EXCEPT !.reveal[u] = mask]
  BY DEF ApplyReveal, SetReveal
<1>3. Done(game)
  BY <1>2, StacksAfterHandFacts
<1>4. DOMAIN game' = Fields
  BY <1>2, <1>3, Zenon DEF Done
<1>5. /\ game'.stage = "finished" /\ game'.players = game.players /\ game'.pot = game.pot
      /\ game'.stack = game.stack /\ game'.contributed = game.contributed
      /\ game'.folded = game.folded /\ InHand(game') = InHand(game)
  BY <1>2, <1>3 DEF Done, Fields, InHand
<1>6. Done(game')
  BY <1>3, <1>4, <1>5 DEF Done
<1>7. RoomTypeOK'
  BY <1>1, <1>2, <1>5 DEF RoomTypeOK, seats
<1>8. SeatsOK'
  <2>1. status # "deleted"
    BY <1>1, <1>3 DEF SeatsOK, NoGame, Done
  <2> QED BY <1>1, <1>2, <2>1 DEF SeatsOK, seats, Members
<1>9. HandOK' /\ WholeInPlay'
  BY <1>5, <1>6 DEF HandOK, WholeInPlay, Whole, Betting, Streets
<1>10. PlayersKnown' /\ StacksKept'
  BY <1>1, <1>2, <1>5 DEF PlayersKnown, StacksKept, seats, Members
<1>11. VoteOK'
  BY <1>1, <1>2, <1>5 DEF VoteOK, VoteIsCurrent, Up, BetweenHands, seats
<1> QED BY <1>2, <1>5, <1>7, <1>8, <1>9, <1>10, <1>11 DEF RoomInv

-----------------------------------------------------------------------------
(* Answers. *)

\* A hand that is being played: its table, and the room around it.
LEMMA BettingFacts ==
  ASSUME RoomAssumption, RoomInv, Betting(game), NEW Q, Q = game.players
  PROVE  /\ Seated(Q) /\ Going(Q, game) /\ status = "playing"
         /\ Q = Among(players, InHand(game)) /\ InHand(game) = Range(Q)
         /\ Range(Q) \subseteq Members /\ Members \subseteq User
         /\ \A s \in Orders, p \in Range(Q) : s[p] \in Nat
         /\ vote = NoVote \/ ~Up
<1>1. /\ players \in Seq(User) /\ IsInjective(players) /\ HandOK /\ VoteIsCurrent
  BY DEF RoomInv, RoomTypeOK, SeatsOK, VoteOK
<1>2. /\ Going(Q, game) /\ status = "playing" /\ Q = Among(players, InHand(game))
  BY <1>1 DEF HandOK, NoGame, Done, Betting, Streets
<1>3. InHand(game) = Range(Q)
  BY DEF InHand
<1>4. Q \in Seq(User) /\ IsInjective(Q) /\ Range(Q) = Range(players) \cap InHand(game)
  BY <1>1, <1>2, AmongFacts
<1>5. Q # <<>>
  <2>1. PICK p : p \in InHand(game)
    BY <1>2 DEF Going, Contested, Active
  <2> QED BY <1>3, <2>1 DEF Range
<1>6. Seated(Q)
  BY <1>4, <1>5, SeatedIfDistinct
<1>7. Members \subseteq User /\ Range(Q) \subseteq Members
  <2>1. Members \subseteq User
    BY <1>1 DEF Members, Range
  <2> QED BY <1>4, <2>1 DEF Members
<1>8. \A s \in Orders, p \in Range(Q) : s[p] \in Nat
  BY <1>7 DEF RoomAssumption
<1>9. vote = NoVote \/ ~Up
  BY <1>1 DEF VoteIsCurrent, BetweenHands, Betting, Streets
<1> QED BY <1>2, <1>3, <1>6, <1>7, <1>8, <1>9

\* What an accepted answer makes of the hand: u may have put in chips, the
\* hand ran on from there, and if nobody has left it, it is still in play as
\* Hand describes it, or ended so, or ran into a deck too small for the table.
LEMMA AnswerFacts ==
  ASSUME RoomAssumption, RoomInv, NEW u, ApplyAction(u), NEW Q, Q = game.players
  PROVE  /\ AfterAction(game') /\ Betting(game) /\ u \in Range(Q) /\ u = At(game, game.turn)
         /\ \E c : Pays(Q, game, u, c) /\ Runs(Q, c, game')
         /\ Whole(game) => \/ Stuck(Q, game') \/ Ended(Q, game', Brought(game))
                           \/ InPlay(Q, game', Brought(game'))
<1>1. /\ Up /\ status = "playing" /\ MayAct(game, u) /\ Betting(game)
  BY DEF ApplyAction, MayAct
<1>2. PICK s \in Orders :
       \/ CanCheck(game, u) /\ AfterAction(Check(game, u, s))
       \/ CanCall(game, u)  /\ AfterAction(Call(game, u, s))
       \/ CanAllIn(game, u) /\ AfterAction(AllIn(game, u, s))
       \/ CanFold(game, u)  /\ AfterAction(Fold(game, u, s))
       \/ \E n \in 1 .. game.stack[u] :
            CanBet(game, u, n) /\ AfterAction(Bet(game, u, n, s))
  BY DEF ApplyAction
<1>3. /\ Seated(Q) /\ Going(Q, game) /\ \A p \in Range(Q) : s[p] \in Nat
  BY <1>1, BettingFacts
<1>4. \A g : AfterAction(g) => game' = g
  BY DEF AfterAction
<1>5. PICK k : k = game'
  OBVIOUS
<1>6. AfterAction(k) /\
       \/ CanCheck(game, u) /\ k = Check(game, u, s)
       \/ CanCall(game, u)  /\ k = Call(game, u, s)
       \/ CanAllIn(game, u) /\ k = AllIn(game, u, s)
       \/ CanFold(game, u)  /\ k = Fold(game, u, s)
       \/ \E n \in Nat : CanBet(game, u, n) /\ k = Bet(game, u, n, s)
  BY <1>2, <1>4, <1>5
<1>7. /\ u \in Range(Q) /\ u = At(game, game.turn)
      /\ \E c : Pays(Q, game, u, c) /\ Runs(Q, c, k)
  BY <1>1, <1>3, <1>6, MovesRun
<1>8. ASSUME Whole(game)
      PROVE  Stuck(Q, k) \/ Ended(Q, k, Brought(game)) \/ InPlay(Q, k, Brought(k))
  <2>1. PICK d : InPlay(Q, game, d)
    BY <1>8 DEF RoomInv, WholeInPlay
  <2>2. PICK c : Goes(Q, c, u, k, d)
    BY <1>1, <1>3, <1>6, <2>1, MovesInPlay
  <2>3. Brought(game) = d
    BY <1>3, <2>1, InPlayGoing
  <2>4. CASE InPlay(Q, k, d)
    BY <1>3, <2>4, InPlayGoing
  <2> QED BY <2>2, <2>3, <2>4 DEF Goes
<1> QED BY <1>1, <1>5, <1>6, <1>7, <1>8

\* ApplyAction.
LEMMA ApplyActionInv ==
  ASSUME RoomAssumption, RoomInv, NEW u, ApplyAction(u)
  PROVE  RoomInv'
<1>1. /\ RoomTypeOK /\ SeatsOK /\ HandOK /\ PlayersKnown /\ VoteOK /\ StacksKept /\ WholeInPlay
  BY DEF RoomInv
<1>2. PICK Q : Q = game.players
  OBVIOUS
<1>3. /\ AfterAction(game') /\ Betting(game) /\ u \in Range(Q)
      /\ \E c : Pays(Q, game, u, c) /\ Runs(Q, c, game')
      /\ Whole(game) => \/ game'.stage \notin Streets
                        \/ InPlay(Q, game', Brought(game'))
  BY <1>2, AnswerFacts DEF Stuck, Ended, Over, Streets
<1>4. PICK c : Pays(Q, game, u, c) /\ Runs(Q, c, game')
  BY <1>3
<1>5. /\ Seated(Q) /\ Going(Q, game) /\ status = "playing" /\ Up
      /\ Q = Among(players, InHand(game)) /\ InHand(game) = Range(Q)
      /\ Range(Q) \subseteq Members /\ Members \subseteq User /\ vote = NoVote
  BY <1>2, <1>3, BettingFacts DEF ApplyAction
<1>6. /\ UNCHANGED <<seats, nextDealer, vote, hands>>
      /\ stack'  = [p \in User |-> IF p \in Members \cap InHand(game') /\ game'.stage # "panic"
                               THEN game'.stack[p] ELSE stack[p]]
      /\ status' = IF game'.stage = "finished" THEN "waiting" ELSE status
  BY <1>3 DEF AfterAction
<1>7. CASE game'.stage = "panic"
  <2>1. stack' \in [User -> Nat]
    BY <1>1, <1>6, <1>7 DEF RoomTypeOK
  <2> QED BY <1>5, <1>6, <1>7, <2>1, PanicInv
<1>8. CASE game'.stage # "panic"
  <2>1. \/ Over(Q, game') /\ Settled(Q, c, game')
        \/ Going(Q, game') /\ GoesOn(Q, c, game')
    BY <1>4, <1>8 DEF Runs, Settled, GoesOn
  <2>2. /\ game'.players = Q /\ InHand(game') = Range(Q)
        /\ game'.stack \in [Range(Q) -> Nat] /\ game'.stage \in Streets \cup {"finished"}
        /\ (Over(Q, game') <=> game'.stage = "finished")
    BY <2>1 DEF Over, Going, Backed, Shape, Table, InHand, Streets
  <2>3. Over(Q, game') => Done(game')
    BY <1>5, <2>1, SettledDone DEF Settled, Going, Backed, Shape, Over, Streets
  <2>4. /\ stack' \in [User -> Nat]
        /\ \A p \in Members \cap InHand(game') : stack'[p] = game'.stack[p]
    BY <1>1, <1>5, <1>6, <1>8, <2>2 DEF RoomTypeOK
  <2>5. RoomTypeOK'
    BY <1>1, <1>5, <1>6, <2>2, <2>4 DEF RoomTypeOK, seats
  <2>6. SeatsOK'
    BY <1>1, <1>5, <1>6 DEF SeatsOK, seats, Members
  <2>7. HandOK'
    <3>1. CASE Over(Q, game')
      BY <2>3, <3>1 DEF HandOK
    <3>2. CASE Going(Q, game') /\ ~Over(Q, game')
      <4>1. status' = "playing"
        BY <1>5, <1>6, <2>2, <3>2
      <4>2. game'.players = Among(players', InHand(game'))
        BY <1>5, <1>6, <2>2 DEF seats
      <4> QED BY <2>2, <3>2, <4>1, <4>2 DEF HandOK
    <3> QED BY <2>1, <3>1, <3>2
  <2>8. PlayersKnown'
    BY <1>1, <1>5, <1>6, <2>2 DEF PlayersKnown, SeatsOK, seats, Members
  <2>9. VoteOK'
    BY <1>1, <1>5, <1>6 DEF VoteOK, VoteIsCurrent
  <2>10. StacksKept'
    <3>1. \A p \in Members \cap InHand(game') : stack'[p] <= game'.stack[p]
      BY <2>2, <2>4
    <3> QED BY <1>6, <3>1 DEF StacksKept, seats, Members
  <2>11. WholeInPlay'
    <3>1. SUFFICES ASSUME Whole(game') PROVE InPlay(Q, game', Brought(game'))
      BY <2>2 DEF WholeInPlay
    <3>2. GoesOn(Q, c, game') /\ game'.stage \in Streets
      BY <2>1, <2>2, <3>1 DEF Whole, Betting, Streets
    <3>3. /\ c.drawn - c.board = game.drawn - game.board
          /\ game'.drawn - game'.board = c.drawn - c.board
      BY <1>4, <3>2 DEF Pays, GoesOn
    <3>4. /\ c.drawn \in Nat /\ c.board \in {0, 3, 4, 5} /\ game.drawn \in Nat /\ game.board \in {0, 3, 4, 5}
          /\ game'.drawn \in Nat /\ game'.board \in {0, 3, 4, 5} /\ N(Q) \in Nat
      BY <1>4, <1>5, <3>2, SeatingFacts DEF Pays, GoesOn, Going, Backed, Shape, Table
    <3>5. game'.drawn = 2 * N(Q) + game'.board
      BY <2>2, <3>1 DEF Whole, N
    <3>6. game.drawn = 2 * N(Q) + game.board
      BY <3>3, <3>4, <3>5
    <3>7. Whole(game)
      BY <1>2, <1>3, <3>6 DEF Whole, N
    <3> QED BY <1>3, <3>2, <3>7
  <2> QED BY <2>5, <2>6, <2>7, <2>8, <2>9, <2>10, <2>11 DEF RoomInv
<1> QED BY <1>7, <1>8

-----------------------------------------------------------------------------
(* Leaving. *)

\* In a hand that nobody has left, the leaving of somebody who was not dealt
\* in changes nothing: the turn is still owed.
LEMMA ForceLeaveOthers ==
  ASSUME NEW Q, Seated(Q), NEW h, NEW d, InPlay(Q, h, d), NEW u, u \notin InHand(h), NEW s
  PROVE  ForceLeave(h, u, s) = h
<1>1. /\ Shape(Q, h) /\ Contested(h) /\ Q[h.turn + 1] \in Playable(h) \ h.hasActed
  BY DEF InPlay, Stakes, Owed
<1>2. At(h, h.turn) \in Playable(h) \ h.hasActed /\ Active(h) = Range(Q) \ h.folded
  BY <1>1, PlayableOfShape
<1>3. ~(Cardinality(Active(h)) <= 1)
  <2>1. IsFiniteSet(Active(h))
    BY <1>2, SeatingFacts, FS_Subset
  <2> QED BY <1>1, <2>1, ContestedByTwo
<1>4. ~RoundComplete(h) /\ Playable(h) # {}
  BY <1>2 DEF RoundComplete
<1> QED BY <1>2, <1>3, <1>4 DEF ForceLeave

\* A hand in play whose players are copied as they are is the same.
LEMMA ReseatedInPlay ==
  ASSUME NEW Q, Seated(Q), NEW h, NEW d, InPlay(Q, h, d), NEW k, Reseated(h, Q, k)
  PROVE  InPlay(Q, k, d)
<1>1. Shape(Q, h)
  BY DEF InPlay, Stakes
<1>2. /\ DOMAIN k = Fields /\ k.players = Q /\ h.players = Q
      /\ k.stage = h.stage /\ k.bb = h.bb /\ k.pot = h.pot /\ k.roundBet = h.roundBet
      /\ k.board = h.board /\ k.drawn = h.drawn /\ k.reason = h.reason /\ k.winners = h.winners
  BY <1>1 DEF Reseated, Shape, Table
<1>3. k.turn = h.turn /\ k.dealer = h.dealer
  <2>1. N(Q) \in Nat \ {0} /\ h.turn \in Places(Q) /\ h.dealer \in Places(Q)
    BY <1>1, SeatingFacts DEF Shape, Table
  <2> QED BY <2>1 DEF Reseated, Places, N
<1>4. /\ k.stack = h.stack /\ k.contributed = h.contributed /\ k.roundContrib = h.roundContrib
      /\ k.won = h.won /\ k.reveal = h.reveal /\ k.strength = h.strength
  BY <1>1 DEF Reseated, Shape, Table
<1>5. k.folded = h.folded /\ k.allIn = h.allIn /\ k.hasActed = h.hasActed
  BY <1>1 DEF Reseated, Shape, Table
<1>6. Shape(Q, k)
  BY <1>1, <1>2, <1>3, <1>4, <1>5, Zenon DEF Shape, Table
<1>7. Alike(Q, h, k)
  BY <1>2, <1>4, <1>5, <1>6 DEF Alike
<1>8. Stakes(Q, k, d) /\ Active(k) = Active(h) /\ Playable(k) = Playable(h)
  <2>1. Stakes(Q, h, d)
    BY DEF InPlay
  <2> QED BY <1>7, <2>1, StakesAlike
<1>9. Contested(k) /\ Matched(k) /\ Asked(k) /\ InOrder(Q, k) /\ Owed(Q, k)
  BY <1>2, <1>3, <1>4, <1>5, <1>8
     DEF InPlay, Contested, Matched, Asked, OpeningBet, InOrder, Owed
<1> QED BY <1>8, <1>9 DEF InPlay

\* Those who stay when u leaves.
LEMMA StayersFacts ==
  ASSUME RoomInv, NEW u, NEW ps, ps = Among(players, User \ {u})
  PROVE  ps \in Seq(User) /\ IsInjective(ps) /\ Range(ps) = Members \ {u}
<1>1. players \in Seq(User) /\ IsInjective(players) /\ Members \subseteq User
  BY DEF RoomInv, RoomTypeOK, SeatsOK, Members, Range
<1>2. ps \in Seq(User) /\ IsInjective(ps) /\ Range(ps) = Range(players) \cap (User \ {u})
  BY <1>1, AmongFacts
<1> QED BY <1>1, <1>2 DEF Members

\* What LeaveRoom makes of the hand before it settles it: the players who stay
\* have lost nothing, and if the hand goes on they have what they had, and it
\* is in play as Hand describes it if nobody has left it.
Leaves(ps, g) ==
  /\ InHand(g) = InHand(game) \cap Range(ps)
  /\ g.folded = game.folded \cap InHand(g)
  /\ \A p \in InHand(g) : /\ g.stack[p] >= game.stack[p]
                          /\ g.stack[p] + g.contributed[p] >= game.stack[p] + game.contributed[p]
  /\ \/ Done(g)
     \/ /\ Going(g.players, g) /\ status = "playing" /\ Betting(game)
        /\ g.players = Among(ps, InHand(g)) /\ ~(Cardinality(Active(g)) <= 1)
        /\ \A p \in InHand(g) : g.stack[p] = game.stack[p] /\ g.contributed[p] = game.contributed[p]
        /\ Whole(g) => InPlay(g.players, g, Brought(g))

\* Leaving a hand that is over.
LEMMA LeavesDone ==
  ASSUME RoomAssumption, RoomInv, Done(game), NEW u \in User, NEW s \in Orders, NEW ps, ps = Among(players, User \ {u}),
         NEW g, g = Without(game, ps)
  PROVE  Leaves(ps, g) /\ ForceLeave(game, u, s) = game
<1>1. ForceLeave(game, u, s) = game
  BY DEF ForceLeave, Done, Betting, Streets
<1>2. ps \in Seq(User)
  BY StayersFacts
<1>3. /\ Done(g) /\ InHand(g) = Range(ps) \cap InHand(game) /\ g.folded = game.folded \cap InHand(g)
      /\ \A p \in InHand(g) : g.stack[p] = game.stack[p] /\ g.contributed[p] = game.contributed[p]
  BY ONLY Done(game), <1>2, g = Without(game, ps), WithoutDone
<1>4. \A p \in InHand(g) : game.stack[p] \in Nat /\ game.contributed[p] \in Nat
  BY <1>3 DEF Done, InHand
<1>5. \A p \in InHand(g) : /\ g.stack[p] >= game.stack[p]
          /\ g.stack[p] + g.contributed[p] >= game.stack[p] + game.contributed[p]
  BY ONLY <1>3, <1>4
<1> QED BY ONLY <1>1, <1>3, <1>5 DEF Leaves

\* Leaving a hand that is being played.
LEMMA LeavesGoing ==
  ASSUME RoomAssumption, RoomInv, Betting(game), NEW u \in User, NEW s \in Orders,
         NEW ps, ps = Among(players, User \ {u}),
         NEW left, left = ForceLeave(game, u, s), left.stage # "panic",
         NEW g, g = Without(left, ps)
  PROVE  Leaves(ps, g)
<1>1. PICK Q : Q = game.players
  OBVIOUS
<1>2. /\ Seated(Q) /\ Going(Q, game) /\ status = "playing"
      /\ Q = Among(players, InHand(game)) /\ InHand(game) = Range(Q)
      /\ Range(Q) \subseteq Members /\ Members \subseteq User
      /\ \A p \in Range(Q) : s[p] \in Nat
  BY <1>1, BettingFacts
<1>3. ps \in Seq(User) /\ IsInjective(ps) /\ Range(ps) = Members \ {u}
  BY StayersFacts
<1>4. PICK c : /\ Runs(Q, c, left) /\ c.folded = game.folded \cup (Range(Q) \cap {u})
               /\ c.stack = game.stack /\ c.contributed = game.contributed /\ c.pot = game.pot
               /\ c.drawn = game.drawn /\ c.board = game.board
  <2>1. LeftBy(Q, game, u, left)
    BY <1>2, ForceLeaveRuns
  <2> QED BY <2>1 DEF LeftBy
<1>5. \A p \in Range(Q) : game.stack[p] \in Nat /\ game.contributed[p] \in Nat
  BY <1>2 DEF Going, Backed, Shape, Table
<1>6. CASE Settled(Q, c, left)
  <2>1. /\ Over(Q, left) /\ left.folded = c.folded
        /\ \A p \in Range(Q) : /\ left.stack[p] >= game.stack[p] /\ left.contributed[p] <= left.pot
              /\ left.stack[p] + left.contributed[p] >= game.stack[p] + game.contributed[p]
    BY <1>4, <1>6 DEF Settled
  <2>2. Done(left) /\ InHand(left) = Range(Q)
    BY <1>2, <2>1, SettledDone
  <2>3. /\ Done(g) /\ InHand(g) = Range(ps) \cap Range(Q) /\ g.folded = left.folded \cap InHand(g)
        /\ \A p \in InHand(g) : g.stack[p] = left.stack[p] /\ g.contributed[p] = left.contributed[p]
    BY ONLY <1>3, <2>2, g = Without(left, ps), WithoutDone
  <2>4. g.folded = game.folded \cap InHand(g)
    BY <1>3, <1>4, <2>1, <2>3
  <2> QED BY ZenonT(40), <1>2, <2>1, <2>3, <2>4 DEF Leaves
<1>7. CASE GoesOn(Q, c, left)
  <2>1. /\ Going(Q, left) /\ left.folded = c.folded
        /\ left.stack = game.stack /\ left.contributed = game.contributed
        /\ left.drawn - left.board = game.drawn - game.board
    BY <1>4, <1>7 DEF GoesOn
  <2>2. PICK P : P = Among(ps, Range(Q))
    OBVIOUS
  <2>3. Range(Q) \ Range(ps) \subseteq left.folded
    BY <1>2, <1>3, <1>4, <2>1
  <2>4. /\ Seated(P) /\ Range(P) = Range(ps) \cap Range(Q)
        /\ Going(P, g) /\ Reseated(left, P, g) /\ Active(g) = Active(left)
        /\ N(P) <= N(Q) /\ (Range(Q) \subseteq Range(ps) \/ N(P) < N(Q))
    BY ONLY <1>2, <1>3, <2>1, <2>2, <2>3, g = Without(left, ps), WithoutGoing
  <2>5. /\ g.players = P /\ InHand(g) = Range(P)
        /\ g.folded = left.folded \cap Range(P) /\ g.drawn = left.drawn /\ g.board = left.board
        /\ \A p \in Range(P) : g.stack[p] = game.stack[p] /\ g.contributed[p] = game.contributed[p]
    <3>1. /\ g.players = P /\ g.folded = left.folded \cap Range(P)
          /\ g.drawn = left.drawn /\ g.board = left.board
          /\ g.stack = [p \in Range(P) |-> left.stack[p]]
          /\ g.contributed = [p \in Range(P) |-> left.contributed[p]]
      BY <2>4 DEF Reseated
    <3> QED BY ONLY <2>1, <3>1 DEF InHand
  <2>6. g.folded = game.folded \cap InHand(g)
    BY ZenonT(40), <1>3, <1>4, <2>1, <2>4, <2>5
  <2>7. g.players = Among(ps, InHand(g))
    <3>1. Range(ps) \cap Range(Q) = Range(ps) \cap InHand(g)
      BY ONLY <2>4, <2>5
    <3>2. Among(ps, Range(Q)) = Among(ps, InHand(g))
      BY ONLY <1>3, <3>1, AmongSame
    <3> QED BY ONLY <2>2, <2>5, <3>2
  <2>8. ~(Cardinality(Active(g)) <= 1)
    <3>1. Active(g) = Range(P) \ g.folded /\ Contested(g)
      BY <2>4, PlayableOfShape DEF Going, Backed
    <3>2. IsFiniteSet(Active(g))
      BY <2>4, <3>1, SeatingFacts, FS_Subset
    <3> QED BY <3>1, <3>2, ContestedByTwo
  <2>9. ASSUME Whole(g) PROVE InPlay(P, g, Brought(g))
    <3>1. /\ N(P) \in Nat /\ N(Q) \in Nat
          /\ left.drawn \in Nat /\ left.board \in {0, 3, 4, 5}
          /\ game.drawn \in Nat /\ game.board \in {0, 3, 4, 5}
      BY <1>2, <2>1, <2>4, SeatingFacts DEF Going, Backed, Shape, Table
    <3>2. left.drawn = 2 * N(P) + left.board
      BY <2>5, <2>9 DEF Whole, N
    <3>3. game.drawn >= 2 * N(Q) + game.board
      BY <1>2 DEF Going, Backed
    <3>4. N(P) = N(Q) /\ game.drawn = 2 * N(Q) + game.board
      BY <2>1, <2>4, <3>1, <3>2, <3>3
    <3>5. Range(Q) \subseteq Range(ps) /\ u \notin InHand(game)
      <4>1. Range(Q) \subseteq Range(ps)
        BY ONLY <2>4, <3>1, <3>4
      <4> QED BY ONLY <1>2, <1>3, <4>1
    <3>6. PICK d : InPlay(Q, game, d)
      <4>1. Whole(game)
        BY <1>1, <3>4 DEF Whole, N
      <4> QED BY <1>1, <4>1 DEF RoomInv, WholeInPlay
    <3>7. left = game
      BY <1>2, <3>5, <3>6, ForceLeaveOthers
    <3>8. P = Q
      <4>1. players \in Seq(User)
        BY DEF RoomInv, RoomTypeOK
      <4>2. P = Among(players, (User \ {u}) \cap Range(Q))
        BY <2>2, <4>1, AmongAmong
      <4>3. Range(players) \cap ((User \ {u}) \cap Range(Q)) = Range(players) \cap Range(Q)
        BY <1>2, <3>5
      <4> QED BY <1>2, <4>1, <4>2, <4>3, AmongSame
    <3>9. InPlay(Q, g, d)
      BY <1>2, <2>4, <3>6, <3>7, <3>8, ReseatedInPlay
    <3>10. Brought(g) = d
      BY ONLY <1>2, <3>9, InPlayGoing
    <3> QED BY ONLY <3>8, <3>9, <3>10
  <2>10. \A p \in InHand(g) : /\ g.stack[p] >= game.stack[p]
            /\ g.stack[p] + g.contributed[p] >= game.stack[p] + game.contributed[p]
    BY ONLY <1>5, <2>4, <2>5
  <2>11. InHand(g) = InHand(game) \cap Range(ps)
    BY ONLY <1>2, <2>4, <2>5
  <2> QED BY ONLY Betting(game), <1>2, <2>4, <2>5, <2>6, <2>7, <2>8, <2>9, <2>10, <2>11, Zenon DEF Leaves
<1> QED BY <1>4, <1>6, <1>7 DEF Runs

\* LeaveRoom settles the hand when one player is left of it, or nobody.
LastLeft(g) == status = "playing" /\ Cardinality(Active(g)) <= 1

\* What LeaveRoom makes of the hand, settled: nobody who stays is given less
\* than the room's stack says.
LEMMA LeaveSettled ==
  ASSUME RoomAssumption, RoomInv, NEW u \in User, NEW ps, ps = Among(players, User \ {u}),
         NEW g, Leaves(ps, g), game.stage \in Streets \cup {"finished"},
         NEW k, k = IF LastLeft(g) THEN LastStanding(g) ELSE g
  PROVE  /\ InHand(k) = InHand(g)
         /\ Done(k) \/ (k = g /\ ~LastLeft(g) /\ ~Done(g))
         /\ \/ \A p \in Members \cap InHand(k) : stack[p] <= k.stack[p]
            \/ /\ status = "playing" /\ ~LastLeft(g) /\ k.folded = {}
               /\ \A p \in Members \cap InHand(k) : stack[p] <= k.stack[p] + k.contributed[p]
<1>1. /\ StacksKept /\ stack \in [User -> Nat] /\ Members \subseteq User
  <2>1. players \in Seq(User) /\ StacksKept /\ stack \in [User -> Nat]
    BY DEF RoomInv, RoomTypeOK
  <2> QED BY <2>1 DEF Members, Range
<1>2. /\ InHand(g) = InHand(game) \cap Range(ps) /\ g.folded = game.folded \cap InHand(g)
      /\ \A p \in InHand(g) :
           /\ g.stack[p] >= game.stack[p]
           /\ g.stack[p] + g.contributed[p] >= game.stack[p] + game.contributed[p]
      /\ Done(g) \/ (Going(g.players, g) /\ ~LastLeft(g))
  BY DEF Leaves, LastLeft
<1>3. \A p \in InHand(g) : /\ g.stack[p] \in Nat /\ g.contributed[p] \in Nat
                           /\ game.stack[p] \in Nat /\ game.contributed[p] \in Nat
  <2>1. \A p \in InHand(g) : g.stack[p] \in Nat /\ g.contributed[p] \in Nat
    BY <1>2 DEF Done, Going, Backed, Shape, Table, InHand
  <2>2. Done(game) \/ Going(game.players, game)
    BY DEF RoomInv, HandOK, NoGame, Streets
  <2>3. \A p \in InHand(game) : game.stack[p] \in Nat /\ game.contributed[p] \in Nat
    BY <2>2 DEF Done, Going, Backed, Shape, Table, InHand
  <2> QED BY ONLY <1>2, <2>1, <2>3
<1>4. \A p \in InHand(g) :
         \A n \in Nat : /\ n <= game.stack[p] => n <= g.stack[p]
                        /\ n <= game.stack[p] + game.contributed[p] => n <= g.stack[p] + g.contributed[p]
  <2>1. \A p \in InHand(g) :
          /\ g.stack[p] >= game.stack[p]
          /\ g.stack[p] + g.contributed[p] >= game.stack[p] + game.contributed[p]
    BY <1>2
  <2> QED BY ONLY <1>3, <2>1
<1>5. CASE ~LastLeft(g)
  <2>1. k = g
    BY <1>5
  <2>2. CASE \A p \in Members \cap InHand(game) : stack[p] <= game.stack[p]
    <3>1. \A p \in Members \cap InHand(g) : stack[p] <= g.stack[p]
      <4>1. TAKE p \in Members \cap InHand(g)
      <4>2. stack[p] <= game.stack[p] /\ stack[p] \in Nat
        BY <1>1, <1>2, <2>2
      <4> QED BY <1>4, <4>2
    <3> QED BY <1>2, <1>5, <2>1, <3>1
  <2>3. CASE /\ status = "playing" /\ game.folded = {}
             /\ \A p \in Members \cap InHand(game) : stack[p] <= game.stack[p] + game.contributed[p]
    <3>1. \A p \in Members \cap InHand(g) : stack[p] <= g.stack[p] + g.contributed[p]
      <4>1. TAKE p \in Members \cap InHand(g)
      <4>2. stack[p] <= game.stack[p] + game.contributed[p] /\ stack[p] \in Nat
        BY <1>1, <1>2, <2>3
      <4> QED BY <1>4, <4>2
    <3> QED BY <1>2, <1>5, <2>1, <2>3, <3>1
  <2> QED BY <1>1, <2>2, <2>3 DEF StacksKept
<1>6. CASE LastLeft(g)
  <2>1. k = LastStanding(g) /\ Done(g)
    BY <1>2, <1>6
  <2>2. /\ Done(k) /\ InHand(k) = InHand(g) /\ k.folded = g.folded
        /\ \A p \in InHand(g) : k.stack[p] >= g.stack[p]
        /\ \A w : Active(g) = {w} => k.stack[w] = g.stack[w] + g.pot
    BY ONLY <2>1, LastStandingDone
  <2>3. \A p \in InHand(g) : k.stack[p] \in Nat
    BY <2>2 DEF Done, InHand
  <2>4. CASE \A p \in Members \cap InHand(game) : stack[p] <= game.stack[p]
    <3>1. \A p \in Members \cap InHand(g) : stack[p] <= k.stack[p]
      <4>1. TAKE p \in Members \cap InHand(g)
      <4>2. stack[p] <= game.stack[p] /\ stack[p] \in Nat
        BY <1>1, <1>2, <2>4
      <4>3. stack[p] <= g.stack[p] /\ g.stack[p] \in Nat
        BY <1>3, <1>4, <4>2
      <4>4. k.stack[p] >= g.stack[p] /\ k.stack[p] \in Nat
        BY <2>2, <2>3
      <4> QED BY ONLY <4>2, <4>3, <4>4
    <3> QED BY <2>2, <3>1
  <2>5. CASE /\ status = "playing" /\ game.folded = {}
             /\ \A p \in Members \cap InHand(game) : stack[p] <= game.stack[p] + game.contributed[p]
    <3>1. Active(g) = InHand(g)
      BY <1>2, <2>5 DEF Active
    <3>2. \A p \in InHand(g) : Active(g) = {p}
      <4>1. TAKE p \in InHand(g)
      <4>2. {p} \in SUBSET Active(g) /\ IsFiniteSet(Active(g)) /\ Cardinality(Active(g)) <= 1
        <5>1. IsFiniteSet(InHand(g))
          <6>1. g.players \in Seq(Range(g.players))
            BY <2>1 DEF Done
          <6>2. Len(g.players) \in Nat /\ g.players \in [1 .. Len(g.players) -> Range(g.players)]
            BY <6>1
          <6>3. \A x \in Range(g.players) : \E i \in 1 .. Len(g.players) : g.players[i] = x
            BY <6>2 DEF Range
          <6>4. g.players \in Surjection(1 .. Len(g.players), Range(g.players))
            BY <6>2, <6>3 DEF Surjection
          <6>5. IsFiniteSet(1 .. Len(g.players))
            BY <6>2, FS_Interval
          <6> QED BY <6>4, <6>5, FS_Surjection DEF InHand
        <5> QED BY <1>6, <3>1, <4>1, <5>1 DEF LastLeft
      <4>3. Cardinality({p}) = 1 /\ Cardinality(Active(g)) \in Nat
        BY <4>2, FS_Singleton, FS_CardinalityType
      <4>4. Cardinality({p}) <= Cardinality(Active(g))
            /\ (Cardinality(Active(g)) = Cardinality({p}) => Active(g) = {p})
        BY <4>2, FS_Subset
      <4> QED BY <4>2, <4>3, <4>4
    <3>3. \A p \in Members \cap InHand(g) : stack[p] <= k.stack[p]
      <4>1. TAKE p \in Members \cap InHand(g)
      <4>2. stack[p] <= game.stack[p] + game.contributed[p] /\ stack[p] \in Nat
        BY <1>1, <1>2, <2>5
      <4>3. k.stack[p] = g.stack[p] + g.pot /\ g.contributed[p] <= g.pot /\ g.pot \in Nat
        BY <2>1, <2>2, <3>2 DEF Done, InHand
      <4>4. stack[p] <= g.stack[p] + g.contributed[p]
        BY <1>4, <4>2
      <4>5. g.stack[p] \in Nat /\ g.contributed[p] \in Nat
        BY <1>3
      <4> QED BY ONLY <4>2, <4>3, <4>4, <4>5
    <3> QED BY <2>2, <3>3
  <2> QED BY <1>1, <2>4, <2>5 DEF StacksKept
<1> QED BY <1>5, <1>6

\* The three ways LeaveRoom ends: the hand never returns, the room is removed,
\* or it goes on without u.
LeavesStuck(u) ==
  /\ game'.stage = "panic" /\ Betting(game) /\ \E s \in Orders : game' = ForceLeave(game, u, s)
  /\ UNCHANGED <<seats, status, stack, nextDealer, vote, hands>>

\* Nobody but AI players is left: the room goes with its hand.
LeavesNobody ==
  /\ status' = "deleted" /\ players' = <<>> /\ spectators' = {} /\ stack' = [p \in User |-> 0]
  /\ game' = NoGame /\ vote' = NoVote
  /\ UNCHANGED <<owner, bots, entries, nextDealer, hands>>

\* The others stay, and the hand with them: over, or going on.
LeavesOthers(u, ps) ==
  /\ Humans(ps) # {} /\ players' = ps /\ stack' = [stack EXCEPT ![u] = 0] /\ vote' = NoVote
  /\ owner' = IF owner = u THEN FirstHuman(ps) ELSE owner
  /\ UNCHANGED <<spectators, bots, entries, nextDealer, hands>>
  /\ \/ game = NoGame /\ game' = NoGame /\ status' = status
     \/ \E g : /\ Leaves(ps, g) /\ game.stage \in Streets \cup {"finished"}
               /\ game' = (IF LastLeft(g) THEN LastStanding(g) ELSE g)
               /\ status' = (IF LastLeft(g) THEN "waiting" ELSE status)

\* LeaveRoom does one of these.
LEMMA LeaveRoomCases ==
  ASSUME RoomAssumption, RoomInv, NEW u, LeaveRoom(u)
  PROVE  /\ Up /\ u \in Members \cap Human
         /\ LeavesStuck(u) \/ LeavesNobody \/ LeavesOthers(u, Among(players, User \ {u}))
<1>1. Up /\ u \in Members \cap Human
  BY DEF LeaveRoom
<1>2. PICK ps : ps = Among(players, User \ {u})
  OBVIOUS
<1> DEFINE inPlay  == status = "playing" /\ game # NoGame
           after(s) == IF inPlay THEN ForceLeave(game, u, s) ELSE game
           copy(s) == IF game = NoGame THEN NoGame ELSE Without(after(s), ps)
           over(s) == inPlay /\ Cardinality(Active(copy(s))) <= 1
<1>3. PICK s \in Orders :
         \/ /\ after(s).stage = "panic"
            /\ game' = after(s)
            /\ UNCHANGED <<seats, status, stack, nextDealer, vote, hands>>
         \/ /\ after(s).stage # "panic" /\ Humans(ps) = {}
            /\ status' = "deleted"
            /\ players' = <<>> /\ spectators' = {} /\ stack' = [p \in User |-> 0]
            /\ game' = NoGame /\ vote' = NoVote
            /\ UNCHANGED <<owner, bots, entries, nextDealer, hands>>
         \/ /\ after(s).stage # "panic" /\ Humans(ps) # {}
            /\ players' = ps
            /\ stack'   = [stack EXCEPT ![u] = 0]
            /\ vote'    = NoVote
            /\ owner'   = IF owner = u THEN FirstHuman(ps) ELSE owner
            /\ game'    = IF over(s) THEN LastStanding(copy(s)) ELSE copy(s)
            /\ status'  = IF over(s) THEN "waiting" ELSE status
            /\ UNCHANGED <<spectators, bots, entries, nextDealer, hands>>
  BY <1>2, Zenon DEF LeaveRoom
<1>4. PICK left, g : left = after(s) /\ g = copy(s)
  OBVIOUS
<1>5. CASE left.stage = "panic"
  <2>1. game' = left /\ UNCHANGED <<seats, status, stack, nextDealer, vote, hands>>
    BY <1>3, <1>4, <1>5
  <2>2. left = IF inPlay THEN ForceLeave(game, u, s) ELSE game
    BY ONLY <1>4
  <2>3. inPlay /\ Betting(game)
    BY <1>1, <1>5, <2>2 DEF Up, ForceLeave
  <2>4. LeavesStuck(u)
    BY ONLY <1>5, <2>1, <2>2, <2>3, s \in Orders DEF LeavesStuck
  <2> QED BY <1>1, <2>4
<1>6. CASE left.stage # "panic" /\ Humans(ps) = {}
  <2>1. LeavesNobody
    BY <1>3, <1>4, <1>6 DEF LeavesNobody
  <2> QED BY <1>1, <2>1
<1>7. CASE left.stage # "panic" /\ Humans(ps) # {}
  <2>1. /\ players' = ps /\ stack' = [stack EXCEPT ![u] = 0] /\ vote' = NoVote
        /\ owner' = (IF owner = u THEN FirstHuman(ps) ELSE owner)
        /\ game' = (IF over(s) THEN LastStanding(g) ELSE g)
        /\ status' = (IF over(s) THEN "waiting" ELSE status)
        /\ UNCHANGED <<spectators, bots, entries, nextDealer, hands>>
    BY <1>3, <1>4, <1>7
  <2>2. /\ left = (IF inPlay THEN ForceLeave(game, u, s) ELSE game)
        /\ g = (IF game = NoGame THEN NoGame ELSE Without(left, ps))
        /\ over(s) <=> inPlay /\ Cardinality(Active(g)) <= 1
    BY ONLY <1>4
  <2> HIDE DEF after, copy, over
  <2>3. CASE game = NoGame
    <3>1. game' = NoGame /\ status' = status
      BY <2>1, <2>2, <2>3
    <3>2. LeavesOthers(u, ps)
      BY ONLY <1>7, <2>1, <2>3, <3>1 DEF LeavesOthers
    <3> QED BY <1>1, <1>2, <3>2
  <2>4. CASE game # NoGame
    <3>1. u \in User
      BY <1>1 DEF User
    <3>2. Done(game) \/ (Betting(game) /\ status = "playing")
      BY <1>1, <2>4 DEF RoomInv, HandOK, Up, Going, Backed, Shape, Betting
    <3>3. g = Without(left, ps)
      BY <2>2, <2>4
    <3>4. over(s) <=> LastLeft(g)
      BY ONLY <2>2, <2>4 DEF LastLeft
    <3>5. Leaves(ps, g) /\ game.stage \in Streets \cup {"finished"}
      <4>1. CASE Done(game)
        <5>1. ForceLeave(game, u, s) = game
          BY <4>1 DEF ForceLeave, Done, Betting, Streets
        <5>2. left = game
          BY <2>2, <5>1
        <5>3. Leaves(ps, g)
          BY <1>2, <3>1, <3>3, <4>1, <5>2, LeavesDone
        <5> QED BY <4>1, <5>3 DEF Done
      <4>2. CASE Betting(game) /\ status = "playing"
        <5>1. left = ForceLeave(game, u, s)
          BY <2>2, <2>4, <4>2
        <5>2. Leaves(ps, g)
          BY <1>2, <1>7, <3>1, <3>3, <4>2, <5>1, LeavesGoing
        <5> QED BY <4>2, <5>2 DEF Betting
      <4> QED BY <3>2, <4>1, <4>2
    <3>6. LeavesOthers(u, ps)
      BY ONLY <1>7, <2>1, <3>4, <3>5, Zenon DEF LeavesOthers
    <3> QED BY <1>1, <1>2, <3>6
  <2> QED BY <2>3, <2>4
<1> QED BY <1>5, <1>6, <1>7

\* LeaveRoom.
LEMMA LeaveRoomInv ==
  ASSUME RoomAssumption, RoomInv, NEW u, LeaveRoom(u)
  PROVE  RoomInv'
<1>1. /\ RoomTypeOK /\ SeatsOK /\ HandOK /\ PlayersKnown /\ VoteOK
  BY DEF RoomInv
<1>2. PICK ps : ps = Among(players, User \ {u})
  OBVIOUS
<1>3. /\ Up /\ u \in Members \cap Human /\ u \in User
      /\ LeavesStuck(u) \/ LeavesNobody \/ LeavesOthers(u, ps)
  BY <1>2, LeaveRoomCases DEF User
<1>4. CASE LeavesStuck(u)
  <2>1. status' \in {"waiting", "playing"} /\ stack' \in [User -> Nat]
    BY <1>1, <1>3, <1>4 DEF LeavesStuck, RoomTypeOK, Up
  <2> QED BY <1>3, <1>4, <2>1, PanicInv DEF LeavesStuck
<1>5. CASE LeavesNobody
  <2>1. RoomTypeOK'
    BY <1>1, <1>5 DEF LeavesNobody, RoomTypeOK, NoGame, NoVote
  <2>2. SeatsOK'
    <3>1. Members' = {} /\ IsInjective(players')
      BY <1>5 DEF LeavesNobody, Members, Range, IsInjective
    <3> QED BY <1>5, <3>1 DEF LeavesNobody, SeatsOK
  <2>3. HandOK' /\ PlayersKnown' /\ VoteOK' /\ StacksKept' /\ WholeInPlay'
    BY <1>5 DEF LeavesNobody, HandOK, PlayersKnown, VoteOK, VoteIsCurrent, StacksKept,
       WholeInPlay, Whole, Betting, Streets, NoGame, NoVote
  <2> QED BY <2>1, <2>2, <2>3 DEF RoomInv
<1>6. CASE LeavesOthers(u, ps)
  <2>1. /\ Humans(ps) # {} /\ players' = ps /\ stack' = [stack EXCEPT ![u] = 0] /\ vote' = NoVote
        /\ owner' = (IF owner = u THEN FirstHuman(ps) ELSE owner)
        /\ UNCHANGED <<spectators, bots, entries, nextDealer, hands>>
    BY <1>6 DEF LeavesOthers
  <2>2. ps \in Seq(User) /\ IsInjective(ps) /\ Range(ps) = Members \ {u} /\ Members' = Members \ {u}
    BY <1>2, <2>1, StayersFacts DEF Members
  <2>3. owner' \in Human \cap Range(ps)
    <3>1. owner \in Members /\ owner \in Human
      BY <1>1, <1>3 DEF RoomTypeOK, SeatsOK, Up
    <3>2. FirstHuman(ps) \in Human \cap Range(ps)
      <4> DEFINE Found == {i \in DOMAIN ps : ps[i] \in Human}
      <4>1. DOMAIN ps = 1 .. Len(ps) /\ Len(ps) \in Nat
        BY <2>2
      <4>2. PICK p : p \in Range(ps) /\ p \in Human
        BY <2>1 DEF Humans
      <4>3. PICK i \in DOMAIN ps : ps[i] = p
        BY <4>2 DEF Range
      <4>4. i \in Found /\ Found \in SUBSET Nat
        BY <4>1, <4>2, <4>3
      <4>5. Min(Found) \in Found
        <5> HIDE DEF Found
        <5> QED BY <4>4, MinOfNaturals
      <4> QED BY <4>5 DEF FirstHuman, Range
    <3> QED BY <2>1, <2>2, <3>1, <3>2
  <2>4. \A p \in Members' : stack'[p] = stack[p]
    BY <1>1, <2>1, <2>2 DEF RoomTypeOK
  <2>5. SeatsOK' /\ VoteOK'
    <3>1. status' # "deleted"
      BY <1>1, <1>3, <1>6 DEF LeavesOthers, Up
    <3> QED BY <1>1, <2>1, <2>2, <2>3, <3>1 DEF SeatsOK, VoteOK, VoteIsCurrent, NoVote
  <2>6. ASSUME game'.stage \in Streets \cup {"none", "finished"}, status' \in {"waiting", "playing"}
        PROVE  RoomTypeOK'
    BY <1>1, <2>1, <2>2, <2>3, <2>6 DEF RoomTypeOK, NoVote
  <2>7. CASE game = NoGame /\ game' = NoGame /\ status' = status
    <3>1. RoomTypeOK'
      BY <1>1, <1>3, <2>6, <2>7 DEF RoomTypeOK, NoGame, Up
    <3>2. HandOK' /\ PlayersKnown' /\ StacksKept' /\ WholeInPlay'
      BY <2>7 DEF HandOK, PlayersKnown, StacksKept, WholeInPlay, Whole, Betting, Streets, NoGame
    <3> QED BY <2>5, <3>1, <3>2 DEF RoomInv
  <2>8. ASSUME NEW g, Leaves(ps, g), game.stage \in Streets \cup {"finished"},
               game' = (IF LastLeft(g) THEN LastStanding(g) ELSE g),
               status' = (IF LastLeft(g) THEN "waiting" ELSE status)
        PROVE  RoomInv'
    <3>1. PICK k : k = game'
      OBVIOUS
    <3>2. k = IF LastLeft(g) THEN LastStanding(g) ELSE g
      BY ONLY <2>8, <3>1
    <3>3. /\ InHand(k) = InHand(g)
          /\ Done(k) \/ (k = g /\ ~LastLeft(g) /\ ~Done(g))
          /\ \/ \A p \in Members \cap InHand(k) : stack[p] <= k.stack[p]
             \/ /\ status = "playing" /\ ~LastLeft(g) /\ k.folded = {}
                /\ \A p \in Members \cap InHand(k) : stack[p] <= k.stack[p] + k.contributed[p]
      BY ONLY RoomAssumption, RoomInv, <1>2, <1>3, <2>8, <3>2, LeaveSettled
    <3>4. /\ InHand(g) = InHand(game) \cap Range(ps)
          /\ \/ Done(g)
             \/ /\ Going(g.players, g) /\ status = "playing"
                /\ g.players = Among(ps, InHand(g))
                /\ Whole(g) => InPlay(g.players, g, Brought(g))
      BY ONLY <2>8 DEF Leaves
    <3>5. status' \in {"waiting", "playing"}
      BY <1>1, <1>3, <2>8 DEF RoomTypeOK, Up
    <3>6. ASSUME Done(k) PROVE RoomTypeOK' /\ HandOK' /\ WholeInPlay'
      <4>1. k.stage = "finished"
        BY <3>6 DEF Done
      <4>2. RoomTypeOK'
        BY <2>6, <3>1, <3>5, <4>1
      <4>3. HandOK' /\ WholeInPlay'
        BY <3>1, <3>6, <4>1 DEF HandOK, WholeInPlay, Whole, Betting, Streets
      <4> QED BY <4>2, <4>3
    <3>7. ASSUME k = g, ~LastLeft(g), ~Done(g) PROVE RoomTypeOK' /\ HandOK' /\ WholeInPlay'
      <4>1. /\ Going(k.players, k) /\ status' = "playing" /\ k.players = Among(ps, InHand(k))
            /\ Whole(k) => InPlay(k.players, k, Brought(k))
        BY <2>8, <3>3, <3>4, <3>7
      <4>2. k.stage \in Streets
        BY <4>1 DEF Going, Backed, Shape
      <4>3. RoomTypeOK'
        BY <2>6, <3>1, <3>5, <4>2
      <4>4. HandOK' /\ WholeInPlay'
        BY <2>1, <3>1, <4>1 DEF HandOK, WholeInPlay
      <4> QED BY <4>3, <4>4
    <3>8. RoomTypeOK' /\ HandOK' /\ WholeInPlay'
      BY <3>3, <3>6, <3>7
    <3>9. PlayersKnown'
      <4>1. InHand(game') = InHand(game) \cap Range(ps)
        BY <3>1, <3>3, <3>4
      <4> QED BY <1>1, <2>1, <2>2, <2>8, <4>1 DEF PlayersKnown
    <3>10. StacksKept'
      <4>1. \A p \in Members' \cap InHand(k) : p \in Members \cap InHand(k) /\ stack'[p] = stack[p]
        BY <2>2, <2>4
      <4>2. CASE \A p \in Members \cap InHand(k) : stack[p] <= k.stack[p]
        BY ONLY <3>1, <4>1, <4>2 DEF StacksKept
      <4>3. CASE /\ status = "playing" /\ ~LastLeft(g) /\ k.folded = {}
                 /\ \A p \in Members \cap InHand(k) : stack[p] <= k.stack[p] + k.contributed[p]
        <5>1. status' = "playing"
          BY <2>8, <4>3
        <5> QED BY ONLY <3>1, <4>1, <4>3, <5>1 DEF StacksKept
      <4> QED BY <3>3, <4>2, <4>3
    <3> QED BY <2>5, <3>8, <3>9, <3>10 DEF RoomInv
  <2> QED BY <1>6, <2>7, <2>8 DEF LeavesOthers
<1> QED BY <1>3, <1>4, <1>5, <1>6

-----------------------------------------------------------------------------
(* The invariant holds. *)

\* The room as it is created.
LEMMA InitInv ==
  ASSUME RoomAssumption, Init
  PROVE  RoomInv
<1>1. /\ players = <<Creator>> /\ spectators = {} /\ owner = Creator
      /\ status = "waiting" /\ game = NoGame /\ vote = NoVote /\ bots = {}
      /\ nextDealer = 0 /\ hands = 0 /\ entries = 0
      /\ stack = [u \in User |-> IF u = Creator THEN DefaultStack ELSE 0]
  BY DEF Init
<1>2. /\ Creator \in Human /\ Creator \in User /\ Creator \notin Bot /\ DefaultStack \in Nat
      /\ MaxHands \in Nat /\ MaxEntries \in Nat
  BY DEF RoomAssumption, User
<1>3. players \in Seq(User) /\ Members = {Creator} /\ IsInjective(players)
  BY <1>1, <1>2 DEF Members, Range, IsInjective
<1>4. RoomTypeOK
  BY <1>1, <1>2, <1>3 DEF RoomTypeOK, NoGame, NoVote
<1>5. SeatsOK
  BY <1>1, <1>2, <1>3 DEF SeatsOK
<1>6. HandOK /\ PlayersKnown /\ VoteOK /\ StacksKept /\ WholeInPlay
  BY <1>1 DEF HandOK, PlayersKnown, VoteOK, VoteIsCurrent, StacksKept, WholeInPlay, Whole, Betting,
     Streets, NoGame, NoVote
<1> QED BY <1>4, <1>5, <1>6 DEF RoomInv

\* Every call to the store keeps it.
LEMMA NextInv ==
  ASSUME RoomAssumption, RoomInv, [Next]_vars
  PROVE  RoomInv'
<1>1. CASE UNCHANGED vars
  <2>1. /\ UNCHANGED <<players, spectators, owner, bots, entries, status, stack, nextDealer, game,
                       vote, hands>>
    BY <1>1 DEF vars, seats
  <2>2. RoomTypeOK' /\ SeatsOK' /\ HandOK' /\ PlayersKnown'
    BY <2>1 DEF RoomInv, RoomTypeOK, SeatsOK, HandOK, PlayersKnown, Members
  <2>3. VoteOK' /\ StacksKept' /\ WholeInPlay'
    BY <2>1 DEF RoomInv, VoteOK, VoteIsCurrent, BetweenHands, Up, StacksKept, WholeInPlay, Members
  <2> QED BY <2>2, <2>3 DEF RoomInv
<1>2. ASSUME NEW u \in Human, JoinRoom(u) PROVE RoomInv'
  <2>1. /\ Up /\ status = "waiting" /\ u \in Human \ Members /\ SitDown(u)
        /\ spectators' = spectators \ {u} /\ vote' = NoVote /\ bots' = bots
        /\ UNCHANGED <<owner, status, nextDealer, game, hands>>
    BY <1>2 DEF JoinRoom
  <2> QED BY <2>1, SitDownInv
<1>3. ASSUME NEW u \in Human, SpectateRoom(u) \/ LeaveAsSpectator(u) PROVE RoomInv'
  BY <1>3, WatchInv
<1>4. ASSUME NEW u \in Human, LeaveRoom(u) PROVE RoomInv'
  BY <1>4, LeaveRoomInv
<1>5. ASSUME NEW bot \in Bot, AddAI(bot) PROVE RoomInv'
  <2>1. /\ Up /\ status = "waiting" /\ bot \in Bot \ bots /\ SitDown(bot)
        /\ spectators' = spectators /\ vote' = vote /\ bots' = bots \cup {bot}
        /\ UNCHANGED <<owner, status, nextDealer, game, hands>>
    BY <1>5 DEF AddAI
  <2> QED BY <2>1, SitDownInv
<1>6. ASSUME NEW bot \in Bot, RemoveAI(bot) PROVE RoomInv'
  BY <1>6, RemoveAIInv
<1>7. CASE StartGame
  BY <1>7, StartGameInv
<1>8. CASE NextHand
  BY <1>8, NextHandInv
<1>9. ASSUME NEW u \in User, ApplyAction(u) PROVE RoomInv'
  BY <1>9, ApplyActionInv
<1>10. ASSUME NEW u \in Human, ApplyReveal(u) PROVE RoomInv'
  BY <1>10, RevealInv
<1>11. CASE StartChipRefreshVote \/ \E u \in Human : VoteAgree(u) \/ VoteReject(u)
  BY <1>11, VotingInv
<1> QED
  BY <1>1, <1>2, <1>3, <1>4, <1>5, <1>6, <1>7, <1>8, <1>9, <1>10, <1>11 DEF Next

\* The invariant of a room.
THEOREM RoomInvariant == Spec => []RoomInv
<1>1. Init => RoomInv
  BY RoomAssumption, InitInv
<1>2. RoomInv /\ [Next]_vars => RoomInv'
  BY RoomAssumption, NextInv
<1> QED BY <1>1, <1>2, PTL DEF Spec

\* Every variable of a room keeps its shape, whoever joins, plays, votes and
\* leaves.
THEOREM TypeCorrect == Spec => []RoomTypeOK
<1>1. RoomInv => RoomTypeOK
  BY DEF RoomInv
<1> QED BY <1>1, RoomInvariant, PTL

\* A room that exists is owned by a human player at its table, nobody has two
\* seats, and nobody both plays and watches.
THEOREM OwnerStaysAtTable == Spec => []OwnerAtTable
<1>1. RoomInv => OwnerAtTable
  <2>1. SUFFICES ASSUME RoomInv, status # "deleted" PROVE OwnerAtTable
    BY DEF OwnerAtTable
  <2>2. /\ players \in Seq(User) /\ IsInjective(players) /\ Members \cap spectators = {}
        /\ owner \in Members \cap Human
    BY <2>1 DEF RoomInv, RoomTypeOK, SeatsOK
  <2>3. Cardinality(Members) = Len(players)
    BY <2>2, SeatsOfDistinct DEF Members
  <2> QED BY <2>2, <2>3 DEF OwnerAtTable, Humans, Members
<1> QED BY <1>1, RoomInvariant, PTL

\* While bets are taken the hand's players are the room's, in the room's order,
\* and its dealer and its turn are seats of the hand, whoever leaves.
THEOREM HandAgreesWithRoom == Spec => []HandMatchesRoom
<1>1. RoomInv => HandMatchesRoom
  <2>1. SUFFICES ASSUME RoomInv, Betting(game) PROVE HandMatchesRoom
    BY DEF HandMatchesRoom
  <2>2. /\ Going(game.players, game) /\ status = "playing"
        /\ game.players = Among(players, InHand(game))
    BY <2>1 DEF RoomInv, HandOK, NoGame, Done, Betting, Streets
  <2>3. game.dealer \in Places(game.players) /\ game.turn \in Places(game.players)
    BY <2>2 DEF Going, Backed, Shape, Table
  <2>4. Seats(game) = Places(game.players)
    BY DEF Seats, Places, N
  <2> QED BY <2>2, <2>3, <2>4 DEF HandMatchesRoom
<1> QED BY <1>1, RoomInvariant, PTL

\* A vote is only ever about the present table between two hands, and it is
\* approved when, and only when, everybody who sits there agreed.
THEOREM VoteStaysCurrent == Spec => []VoteIsCurrent
<1>1. RoomInv => VoteIsCurrent
  BY DEF RoomInv, VoteOK
<1> QED BY <1>1, RoomInvariant, PTL

\* Until somebody leaves in the middle of a hand, the hand waits for a player
\* who can act and still owes an answer.
THEOREM TurnOwedUnlessLeft == Spec => []TurnIsOwedUnlessLeft
<1>1. RoomInv => TurnIsOwedUnlessLeft
  <2>1. SUFFICES ASSUME RoomInv, Whole(game)
                 PROVE  LET u == At(game, game.turn) IN u \in Playable(game) /\ u \notin game.hasActed
    BY DEF TurnIsOwedUnlessLeft, Whole
  <2>2. Owed(game.players, game)
    BY <2>1 DEF RoomInv, WholeInPlay, InPlay
  <2> QED BY <2>2 DEF Owed, At
<1> QED BY <1>1, RoomInvariant, PTL

-----------------------------------------------------------------------------
(* What a step may never do. *)

\* A step of a room: the calls that seat or unseat somebody, those that leave
\* table and hand alone, the deals, the answers, the leaving, the vote.
Seating(u) == JoinRoom(u) \/ AddAI(u) \/ RemoveAI(u)
Watching   == UNCHANGED <<players, stack, game, status, hands>>

\* Every step is one of these.
LEMMA StepCases ==
  ASSUME RoomAssumption, RoomInv, [Next]_vars
  PROVE  \/ Watching
         \/ \E u \in User : Seating(u)
         \/ StartGame \/ NextHand
         \/ \E u \in User : ApplyAction(u)
         \/ \E u \in Human : ApplyReveal(u) \/ LeaveRoom(u) \/ VoteAgree(u)
<1>1. ASSUME UNCHANGED vars PROVE Watching
  BY <1>1 DEF vars, seats, Watching
<1>2. ASSUME NEW u \in Human, SpectateRoom(u) \/ LeaveAsSpectator(u) \/ VoteReject(u) PROVE Watching
  BY <1>2 DEF SpectateRoom, LeaveAsSpectator, VoteReject, seats, Watching
<1>3. ASSUME StartChipRefreshVote PROVE Watching
  BY <1>3 DEF StartChipRefreshVote, seats, Watching
<1>4. Human \subseteq User /\ Bot \subseteq User
  BY DEF User
<1> QED BY <1>1, <1>2, <1>3, <1>4 DEF Next, Seating

\* Whoever sits down was not there, and whoever is removed no longer is: the
\* stacks of the others stay.
LEMMA SeatingMoves ==
  ASSUME RoomAssumption, RoomInv, NEW u, Seating(u)
  PROVE  /\ Up /\ status = "waiting" /\ UNCHANGED <<status, game, hands>>
         /\ Members # Range(players')
         /\ \A p \in Members \cap Range(players') : stack'[p] = stack[p]
<1>1. players \in Seq(User) /\ stack \in [User -> Nat] /\ Members \cap Bot \subseteq bots
  BY DEF RoomInv, RoomTypeOK, SeatsOK
<1>2. Up /\ status = "waiting" /\ UNCHANGED <<status, game, hands>>
  BY DEF Seating, JoinRoom, AddAI, RemoveAI
<1>3. ASSUME SitDown(u), u \notin Members
      PROVE  /\ Members # Range(players')
             /\ \A p \in Members \cap Range(players') : stack'[p] = stack[p]
  <2>1. players' = Append(players, u) /\ stack' = [stack EXCEPT ![u] = DefaultStack]
    BY <1>3 DEF SitDown
  <2>2. Range(players') = Members \cup {u}
    BY <1>1, <2>1, AppendFacts DEF Members
  <2>3. Members \subseteq User
    BY <1>1 DEF Members, Range
  <2> QED BY <1>1, <1>3, <2>1, <2>2, <2>3
<1>4. JoinRoom(u) \/ AddAI(u) => SitDown(u) /\ u \notin Members
  BY <1>1 DEF JoinRoom, AddAI
<1>5. ASSUME RemoveAI(u)
      PROVE  /\ Members # Range(players')
             /\ \A p \in Members \cap Range(players') : stack'[p] = stack[p]
  <2>1. /\ u \in Members /\ players' = Among(players, User \ {u})
        /\ stack' = [stack EXCEPT ![u] = 0]
    BY <1>5 DEF RemoveAI
  <2>2. Range(players') = Members \ {u}
    BY <2>1, StayersFacts
  <2>3. Members \subseteq User
    BY <1>1 DEF Members, Range
  <2> QED BY <1>1, <2>1, <2>2, <2>3
<1> QED BY <1>2, <1>3, <1>4, <1>5 DEF Seating

\* Who leaves changes nobody else's stack in the room.
LEMMA LeavingMoves ==
  ASSUME RoomAssumption, RoomInv, NEW u, LeaveRoom(u)
  PROVE  /\ Up /\ u \in Members /\ u \in User
         /\ game'.stage = "panic" \/ Members # Range(players')
         /\ \A p \in Members \cap Range(players') : stack'[p] = stack[p]
<1>1. PICK ps : ps = Among(players, User \ {u})
  OBVIOUS
<1>2. /\ Up /\ u \in Members \cap Human /\ u \in User
      /\ LeavesStuck(u) \/ LeavesNobody \/ LeavesOthers(u, ps)
  BY <1>1, LeaveRoomCases DEF User
<1>3. players \in Seq(User) /\ stack \in [User -> Nat] /\ Members \subseteq User
  BY DEF RoomInv, RoomTypeOK, Members, Range
<1>4. ASSUME LeavesStuck(u)
      PROVE  game'.stage = "panic" /\ \A p \in Members \cap Range(players') : stack'[p] = stack[p]
  BY <1>4 DEF LeavesStuck
<1>5. ASSUME LeavesNobody PROVE Range(players') = {}
  BY <1>5 DEF LeavesNobody, Range
<1>6. ASSUME LeavesOthers(u, ps)
      PROVE  /\ Members # Range(players')
             /\ \A p \in Members \cap Range(players') : stack'[p] = stack[p]
  <2>1. players' = ps /\ stack' = [stack EXCEPT ![u] = 0]
    BY <1>6 DEF LeavesOthers
  <2>2. Range(players') = Members \ {u}
    BY <1>1, <2>1, StayersFacts
  <2> QED BY <1>2, <1>3, <2>1, <2>2
<1> QED BY <1>2, <1>4, <1>5, <1>6

\* A vote in favour either leaves everything as it is or refreshes everybody's
\* chips.
LEMMA AgreeMoves ==
  ASSUME RoomAssumption, RoomInv, NEW u, VoteAgree(u)
  PROVE  /\ players' = players /\ ~Betting(game)
         /\ \/ stack' = stack /\ game' = game
            \/ /\ vote'.result = "approved" /\ vote.result = "pending"
               /\ \A p \in Members : stack'[p] = DefaultStack
<1>1. /\ CanVote(u) /\ players' = players
      /\ vote' = [vote EXCEPT !.agreed = vote.agreed \cup {u},
                              !.result = IF vote.agreed \cup {u} = vote.eligible THEN "approved" ELSE @]
      /\ stack' = (IF vote.agreed \cup {u} = vote.eligible
                   THEN [p \in User |-> IF p \in Members THEN DefaultStack ELSE stack[p]] ELSE stack)
      /\ game'  = (IF vote.agreed \cup {u} = vote.eligible /\ game # NoGame
                   THEN [game EXCEPT !.stack = [p \in DOMAIN @ |-> DefaultStack]] ELSE game)
  BY DEF VoteAgree, seats
<1>2. vote.result = "pending" /\ ~Betting(game)
  BY <1>1 DEF CanVote, BetweenHands, Betting, Streets
<1>3. vote \in [result : {"none", "pending", "approved", "rejected"},
                eligible : SUBSET Human, agreed : SUBSET Human] /\ Members \subseteq User
  BY DEF RoomInv, VoteOK, RoomTypeOK, Members, Range
<1>4. CASE vote.agreed \cup {u} # vote.eligible
  BY <1>1, <1>2, <1>4
<1>5. CASE vote.agreed \cup {u} = vote.eligible
  <2>1. vote'.result = "approved"
    BY <1>1, <1>3, <1>5
  <2>2. stack' = [p \in User |-> IF p \in Members THEN DefaultStack ELSE stack[p]]
    BY <1>1, <1>5
  <2>3. \A p \in Members : stack'[p] = DefaultStack
    BY <1>3, <2>2
  <2> QED BY <1>1, <1>2, <2>1, <2>3
<1> QED BY <1>4, <1>5

\* What an answer makes of the table.
LEMMA AnswerMoves ==
  ASSUME RoomAssumption, RoomInv, NEW u, ApplyAction(u), NEW Q, Q = game.players
  PROVE  /\ Betting(game) /\ players' = players /\ Range(Q) = InHand(game) /\ Range(Q) \subseteq Members
         /\ Seated(Q) /\ u = At(game, game.turn) /\ Going(Q, game)
         /\ \/ game'.stage = "panic" /\ stack' = stack
            \/ /\ game'.stage # "panic" /\ InHand(game') = Range(Q)
               /\ \E c : Pays(Q, game, u, c) /\ (Settled(Q, c, game') \/ GoesOn(Q, c, game'))
               /\ \A p \in Members : stack'[p] = IF p \in Range(Q) THEN game'.stack[p] ELSE stack[p]
<1>1. /\ AfterAction(game') /\ Betting(game) /\ u = At(game, game.turn)
      /\ \E c : Pays(Q, game, u, c) /\ Runs(Q, c, game')
  BY AnswerFacts
<1>2. /\ Seated(Q) /\ Going(Q, game) /\ InHand(game) = Range(Q)
      /\ Range(Q) \subseteq Members /\ Members \subseteq User
  BY <1>1, BettingFacts
<1>3. /\ players' = players
      /\ stack' = [p \in User |-> IF p \in Members \cap InHand(game') /\ game'.stage # "panic"
                                  THEN game'.stack[p] ELSE stack[p]]
  BY <1>1 DEF AfterAction, seats
<1>4. CASE game'.stage = "panic"
  <2>1. stack \in [User -> Nat]
    BY DEF RoomInv, RoomTypeOK
  <2>2. stack' = stack
    BY ONLY <1>3, <1>4, <2>1
  <2> QED BY <1>1, <1>2, <1>3, <1>4, <2>2
<1>5. CASE game'.stage # "panic"
  <2>1. \E c : Pays(Q, game, u, c) /\ (Settled(Q, c, game') \/ GoesOn(Q, c, game'))
    BY <1>1, <1>5 DEF Runs
  <2>2. InHand(game') = Range(Q)
    BY <2>1 DEF Settled, GoesOn, Over, Going, Backed, Shape, Table, InHand
  <2>3. \A p \in Members : stack'[p] = IF p \in Range(Q) THEN game'.stack[p] ELSE stack[p]
    BY ONLY <1>2, <1>3, <1>5, <2>2
  <2> QED BY <1>1, <1>2, <1>3, <1>5, <2>1, <2>2, <2>3
<1> QED BY <1>4, <1>5

\* No hand is dealt to more than sit at the table.
LEMMA DealtWithin ==
  ASSUME RoomInv, NEW Q, Seated(Q), Range(Q) \subseteq Members, ~DeckHolds(Q)
  PROVE  2 * Len(players) + 5 > DeckSize
<1>1. players \in Seq(User) /\ IsInjective(players)
  BY DEF RoomInv, RoomTypeOK, SeatsOK
<1>2. IsFiniteSet(Members) /\ Cardinality(Members) = Len(players) /\ Len(players) \in Nat
  BY <1>1, SeatsOfDistinct DEF Members
<1>3. Q \in Seq(Range(Q)) /\ IsInjective(Q) /\ N(Q) \in Nat
  BY SeatingFacts DEF Seated, IsInjective
<1>4. Cardinality(Range(Q)) = N(Q)
  BY <1>3, SeatsOfDistinct DEF N
<1>5. Cardinality(Range(Q)) <= Cardinality(Members)
  BY <1>2, FS_Subset
<1> QED BY <1>2, <1>3, <1>4, <1>5, DeckAssumption DEF DeckHolds

\* A deal that does not return has too few cards for the table.
LEMMA DealReturns ==
  ASSUME RoomAssumption, RoomInv, NEW stacks \in [User -> Nat], EnoughChips(stacks),
         Deal(stacks), game'.stage = "panic"
  PROVE  2 * Len(players) + 5 > DeckSize
<1>1. players \in Seq(User) /\ IsInjective(players) /\ nextDealer \in Nat
  BY DEF RoomInv, RoomTypeOK, SeatsOK
<1>2. PICK s \in Orders : game' = Dealt(stacks, s)
  BY DEF Deal
<1>3. PICK k, Q : k = game' /\ Q = Among(players, Funds(stacks))
  OBVIOUS
<1>4. Seated(Q) /\ Range(Q) = Funds(stacks) /\ (Stuck(Q, k) \/ Deals(Q, stacks, k))
  BY <1>1, <1>2, <1>3, DealtDeals
<1>5. ~Deals(Q, stacks, k)
  BY <1>3 DEF Deals, Done, Going, Backed, Shape, Streets
<1>6. ~DeckHolds(Q) /\ Range(Q) \subseteq Members
  BY <1>4, <1>5 DEF Stuck, Funds
<1> QED BY <1>4, <1>6, DealtWithin

\* A leave from a hand that nobody has left does not return only for want of
\* cards, or when it is the last who could act who leaves several all-in.
LEMMA LeaveReturns ==
  ASSUME RoomAssumption, RoomInv, Whole(game), NEW u, NEW s \in Orders,
         NEW k, k = ForceLeave(game, u, s), k.stage = "panic"
  PROVE  \/ 2 * Len(players) + 5 > DeckSize
         \/ Playable(game) = {u} /\ Cardinality(Active(game) \ {u}) > 1
<1>1. PICK Q : Q = game.players
  OBVIOUS
<1>2. /\ Seated(Q) /\ Going(Q, game) /\ Range(Q) \subseteq Members
      /\ \A p \in Range(Q) : s[p] \in Nat
  BY <1>1, BettingFacts DEF Whole
<1>3. PICK d : InPlay(Q, game, d)
  BY <1>1 DEF RoomInv, WholeInPlay
<1>4. LeaveHalts(game, u)
  BY <1>2, ForceLeaveRuns
<1>5. Halts(game) => ~DeckHolds(Q)
  BY <1>2, <1>3, StreetFacts DEF InPlay, Halts
<1>6. Playable(game) # {}
  BY <1>3 DEF InPlay, Owed
<1>7. CASE Halts(game)
  BY <1>2, <1>5, <1>7, DealtWithin
<1>8. CASE Playable(game) \subseteq {u} /\ Cardinality(Active(game) \ {u}) > 1
  BY <1>6, <1>8
<1> QED BY <1>4, <1>7, <1>8 DEF LeaveHalts

\* A call that does not return had too few cards for the table, or moved on a
\* hand that somebody had left, or was the leave of the last who could act with
\* several all-in.
THEOREM CallsAlwaysReturnUnlessLeft == Spec => CallsReturnUnlessLeft
<1> DEFINE Excused ==
             \/ 2 * Len(players) + 5 > DeckSize
             \/ Betting(game) /\ game.drawn # 2 * Len(game.players) + game.board
             \/ \E u \in Human : /\ LeaveRoom(u) /\ Betting(game)
                                 /\ Playable(game) = {u} /\ Cardinality(Active(game) \ {u}) > 1
<1>1. ASSUME RoomInv, [Next]_vars, game.stage # "panic", game'.stage = "panic" PROVE Excused
  <2>1. stack \in [User -> Nat] /\ game' # game
    BY <1>1 DEF RoomInv, RoomTypeOK
  <2>2. ~Watching
    BY <2>1 DEF Watching
  <2>3. ASSUME NEW u \in User, Seating(u) PROVE FALSE
    BY RoomAssumption, <1>1, <2>1, <2>3, SeatingMoves
  <2>4. ASSUME StartGame PROVE 2 * Len(players) + 5 > DeckSize
    BY RoomAssumption, <1>1, <2>1, <2>4, DealReturns DEF StartGame
  <2>5. ASSUME NextHand PROVE 2 * Len(players) + 5 > DeckSize
    <3>1. game.stage = "finished"
      BY <2>5 DEF NextHand
    <3>2. PICK stacks : stacks = StacksAfterHand
      OBVIOUS
    <3>3. stacks \in [User -> Nat]
      BY <1>1, <3>1, <3>2, StacksAfterHandFacts
    <3>4. EnoughChips(stacks) /\ Deal(stacks)
      BY <2>1, <2>5, <3>2 DEF NextHand
    <3> QED BY RoomAssumption, <1>1, <3>3, <3>4, DealReturns
  <2>6. ASSUME NEW u \in User, ApplyAction(u), Whole(game)
        PROVE  2 * Len(players) + 5 > DeckSize
    <3>1. PICK Q, k, d : Q = game.players /\ k = game' /\ d = Brought(game)
      OBVIOUS
    <3>2. Stuck(Q, k) \/ Ended(Q, k, d) \/ InPlay(Q, k, Brought(k))
      BY RoomAssumption, <1>1, <2>6, <3>1, AnswerFacts
    <3>3. k.stage = "panic"
      BY <1>1, <3>1
    <3>4. ~Ended(Q, k, d)
      BY <3>3 DEF Ended, Over
    <3>5. ~InPlay(Q, k, Brought(k))
      BY <3>3 DEF InPlay, Stakes, Shape, Streets
    <3>6. Seated(Q) /\ Range(Q) \subseteq Members
      BY RoomAssumption, <1>1, <2>6, <3>1, BettingFacts DEF Whole
    <3>7. ~DeckHolds(Q)
      BY <3>2, <3>4, <3>5 DEF Stuck
    <3> QED BY <1>1, <3>6, <3>7, DealtWithin
  <2>7. ASSUME NEW u \in User, ApplyAction(u) PROVE Betting(game)
    BY <2>7 DEF ApplyAction, MayAct
  <2>8. ASSUME NEW u \in Human, ApplyReveal(u) PROVE FALSE
    BY RoomAssumption, <1>1, <2>8, RevealInv
  <2>9. ASSUME NEW u \in Human, LeaveRoom(u) PROVE Excused
    <3>1. PICK ps : ps = Among(players, User \ {u})
      OBVIOUS
    <3>2. LeavesStuck(u) \/ LeavesNobody \/ LeavesOthers(u, ps)
      BY RoomAssumption, <1>1, <2>9, <3>1, LeaveRoomCases
    <3>3. ~LeavesNobody
      BY <1>1 DEF LeavesNobody, NoGame
    <3>4. ~LeavesOthers(u, ps)
      <4>1. SUFFICES ASSUME LeavesOthers(u, ps) PROVE FALSE
        OBVIOUS
      <4>2. PICK g : /\ Leaves(ps, g) /\ game.stage \in Streets \cup {"finished"}
                     /\ game' = (IF LastLeft(g) THEN LastStanding(g) ELSE g)
        BY <1>1, <4>1 DEF LeavesOthers, NoGame
      <4>3. PICK k : k = game'
        OBVIOUS
      <4>4. k = IF LastLeft(g) THEN LastStanding(g) ELSE g
        BY ONLY <4>2, <4>3
      <4>5. u \in User
        BY DEF User
      <4>6. Done(k) \/ (k = g /\ ~Done(g))
        BY ONLY RoomAssumption, <1>1, <3>1, <4>2, <4>4, <4>5, LeaveSettled
      <4>7. Done(k) \/ Going(g.players, k)
        BY ONLY <4>2, <4>6 DEF Leaves
      <4> QED BY <1>1, <4>3, <4>7 DEF Done, Going, Backed, Shape, Streets
    <3>5. PICK s \in Orders : Betting(game) /\ game' = ForceLeave(game, u, s)
      BY <3>2, <3>3, <3>4 DEF LeavesStuck
    <3>6. PICK k : k = game'
      OBVIOUS
    <3>7. CASE Whole(game)
      <4>1. \/ 2 * Len(players) + 5 > DeckSize
            \/ Playable(game) = {u} /\ Cardinality(Active(game) \ {u}) > 1
        BY RoomAssumption, <1>1, <3>5, <3>6, <3>7, LeaveReturns
      <4> QED BY <2>9, <3>5, <4>1
    <3>8. CASE ~Whole(game)
      BY <3>5, <3>8 DEF Whole
    <3> QED BY <3>7, <3>8
  <2>10. ASSUME NEW u \in Human, VoteAgree(u) PROVE FALSE
    <3>1. /\ Up /\ BetweenHands
          /\ \/ game' = game
             \/ game # NoGame /\ game' = [game EXCEPT !.stack = [p \in DOMAIN @ |-> DefaultStack]]
      BY <2>10 DEF VoteAgree, CanVote
    <3>2. game = NoGame \/ Done(game)
      BY <1>1, <3>1, WaitingFacts
    <3>3. game'.stage = game.stage
      BY <3>1, <3>2 DEF Done, Fields
    <3> QED BY <1>1, <3>3
  <2>11. CASE \E u \in User : ApplyAction(u)
    BY <2>6, <2>7, <2>11 DEF Whole
  <2> QED BY RoomAssumption, <1>1, <2>2, <2>3, <2>4, <2>5, <2>8, <2>9, <2>10, <2>11, StepCases
<1>2. ASSUME RoomInv, [Next]_vars
      PROVE  [game.stage # "panic" /\ game'.stage = "panic" => Excused]_vars
  BY <1>1, <1>2
<1> QED BY <1>2, RoomInvariant, PTL DEF Spec, CallsReturnUnlessLeft

\* A sum over S of f on T and e elsewhere.
Purse(S, T, f, e) == SumFunctionOnSet([p \in S |-> IF p \in T THEN f[p] ELSE e[p]], S)

\* It is the sum of its parts.
LEMMA PurseParts ==
  ASSUME NEW S, IsFiniteSet(S), NEW T \in SUBSET S, NEW f, NEW e,
         \A p \in T : f[p] \in Nat, \A p \in S \ T : e[p] \in Nat
  PROVE  /\ SumFunctionOnSet(f, T) \in Nat /\ SumFunctionOnSet(e, S \ T) \in Nat
         /\ Purse(S, T, f, e) = SumFunctionOnSet(f, T) + SumFunctionOnSet(e, S \ T)
<1> DEFINE one   == [p \in S |-> IF p \in T THEN f[p] ELSE 0]
           other == [p \in S |-> IF p \in S \ T THEN e[p] ELSE 0]
           both  == [p \in S |-> IF p \in T THEN f[p] ELSE e[p]]
<1>1. IsFiniteSet(T) /\ IsFiniteSet(S \ T)
  BY FS_Subset
<1>2. SumFunctionOnSet(f, T) \in Nat /\ SumFunctionOnSet(e, S \ T) \in Nat
  BY <1>1, SumType
<1>3. SumFunctionOnSet(one, S) = SumFunctionOnSet(f, T)
  BY SumExtend
<1>4. SumFunctionOnSet(other, S) = SumFunctionOnSet(e, S \ T)
  <2>1. S \ T \in SUBSET S /\ \A p \in S \ T : e[p] \in Int
    OBVIOUS
  <2> QED BY <2>1, SumExtend
<1>5. \A p \in S : one[p] \in Int /\ other[p] \in Int /\ both[p] = one[p] + other[p]
  OBVIOUS
<1> HIDE DEF one, other
<1>6. SumFunctionOnSet(both, S) = SumFunctionOnSet(one, S) + SumFunctionOnSet(other, S)
  <2> HIDE DEF both
  <2> QED BY <1>5, SumAdd
<1> QED BY <1>2, <1>3, <1>4, <1>6 DEF Purse

\* What a member would be dealt the next hand with.
Held == [p \in Members |-> IF game.stage # "none" /\ p \in InHand(game) THEN game.stack[p] ELSE stack[p]]

\* Those who sit at the table are finitely many, and each holds some chips.
LEMMA HeldFacts ==
  ASSUME RoomInv, Up
  PROVE  /\ IsFiniteSet(Members) /\ Members \subseteq User /\ stack \in [User -> Nat]
         /\ \A p \in Members : Held[p] \in Nat
         /\ SumFunctionOnSet(Held, Members) \in Nat /\ Chips \in Nat
         /\ Chips = SumFunctionOnSet(Held, Members) + (IF Betting(game) THEN game.pot ELSE 0)
<1>1. /\ players \in Seq(User) /\ IsInjective(players) /\ stack \in [User -> Nat]
  BY DEF RoomInv, RoomTypeOK, SeatsOK
<1>2. IsFiniteSet(Members) /\ Members \subseteq User
  BY <1>1, SeatsOfDistinct DEF Members, Range
<1>3. game = NoGame \/ Done(game) \/ Going(game.players, game)
  BY DEF RoomInv, HandOK, Up
<1>4. game.stage # "none" => game.stack \in [InHand(game) -> Nat] /\ game.pot \in Nat
  <2>1. CASE game = NoGame
    BY <2>1 DEF NoGame
  <2>2. CASE Done(game)
    BY <2>2 DEF Done, InHand
  <2>3. CASE Going(game.players, game)
    BY <2>3 DEF Going, Backed, Shape, Table, InHand
  <2> QED BY <1>3, <2>1, <2>2, <2>3
<1>5. \A p \in Members : Held[p] \in Nat
  BY <1>1, <1>2, <1>4 DEF Held
<1>6. Chips = SumFunctionOnSet(Held, Members) + (IF Betting(game) THEN game.pot ELSE 0)
  BY DEF Chips, Sum, Held
<1>7. SumFunctionOnSet(Held, Members) \in Nat
  BY <1>2, <1>5, SumType
<1>8. Betting(game) => game.pot \in Nat
  BY <1>4 DEF Betting, Streets
<1> QED BY <1>1, <1>2, <1>5, <1>6, <1>7, <1>8

\* A step between hands that changes nobody's holdings keeps the chips.
LEMMA SameHoldings ==
  ASSUME RoomInv, Up, players' = players, ~Betting(game), ~Betting(game'),
         \A p \in Members : Held'[p] = Held[p]
  PROVE  Chips' = Chips
<1>1. /\ IsFiniteSet(Members) /\ \A p \in Members : Held[p] \in Nat
      /\ Chips = SumFunctionOnSet(Held, Members) /\ Chips \in Nat
  BY HeldFacts
<1>2. Members' = Members
  BY DEF Members
<1>3. SumFunctionOnSet(Held', Members) = SumFunctionOnSet(Held, Members)
  <2>1. PICK e : e = Held'
    OBVIOUS
  <2>2. PICK f : f = Held
    OBVIOUS
  <2>3. \A p \in Members : f[p] \in Int /\ e[p] = f[p]
    BY <1>1, <2>1, <2>2
  <2> QED BY <1>1, <2>1, <2>2, <2>3, SumSame
<1>4. Chips' = SumFunctionOnSet(Held', Members) + (IF Betting(game') THEN game'.pot ELSE 0)
  BY <1>2 DEF Chips, Sum, Held, Betting
<1> QED BY <1>1, <1>3, <1>4

\* A deal takes the blinds out of the stacks it is given, and nothing else.
LEMMA DealtChips ==
  ASSUME RoomAssumption, RoomInv, Up, status # "deleted",
         NEW stacks \in [User -> Nat], EnoughChips(stacks), Deal(stacks),
         stack' = stacks, game'.stage # "panic"
  PROVE  Chips' \in Nat /\ Chips' = SumFunctionOnSet(stacks, Members)
<1>1. PICK Q : Seated(Q) /\ Range(Q) = Funds(stacks) /\ Deals(Q, stacks, game')
  BY DealInv
<1>2. /\ IsFiniteSet(Members) /\ Members \subseteq User /\ Range(Q) \in SUBSET Members
      /\ IsFiniteSet(Range(Q))
  BY <1>1, HeldFacts, FS_Subset DEF Funds
<1>3. players' = players /\ Members' = Members
  BY DEF Deal, seats, Members
<1>4. PICK k : k = game'
  OBVIOUS
<1>5. Deals(Q, stacks, k)
  BY <1>1, <1>4
<1>6. /\ InHand(k) = Range(Q) /\ k.stage # "none"
      /\ k.stack \in [Range(Q) -> Nat] /\ k.pot \in Nat
      /\ SumFunctionOnSet(k.stack, Range(Q)) + (IF Betting(k) THEN k.pot ELSE 0)
           = SumFunctionOnSet(stacks, Range(Q))
  <2>1. InHand(k) = Range(Q)
    BY <1>5 DEF Deals
  <2>2. CASE Done(k) /\ SumFunctionOnSet(k.stack, Range(Q)) = SumFunctionOnSet(stacks, Range(Q))
    <3>1. k.stage = "finished" /\ k.stack \in [Range(Q) -> Nat] /\ k.pot \in Nat /\ ~Betting(k)
      BY <2>1, <2>2 DEF Done, InHand, Betting, Streets
    <3>2. SumFunctionOnSet(k.stack, Range(Q)) \in Nat
      BY <1>2, <3>1, SumType
    <3> QED BY <2>1, <2>2, <3>1, <3>2
  <2>3. CASE /\ Going(Q, k)
             /\ SumFunctionOnSet(k.stack, Range(Q)) + k.pot = SumFunctionOnSet(stacks, Range(Q))
    <3>1. k.stage \in Streets /\ k.stack \in [Range(Q) -> Nat] /\ k.pot \in Nat
      BY <2>3 DEF Going, Backed, Shape, Table
    <3>2. SumFunctionOnSet(k.stack, Range(Q)) \in Nat
      BY <1>2, <3>1, SumType
    <3> QED BY <2>1, <2>3, <3>1, <3>2 DEF Betting, Streets
  <2> QED BY <1>5, <2>2, <2>3 DEF Deals
<1>7. Chips' = Purse(Members, Range(Q), k.stack, stacks) + (IF Betting(k) THEN k.pot ELSE 0)
  BY <1>3, <1>4, <1>6 DEF Chips, Sum, Purse
<1>8. /\ SumFunctionOnSet(k.stack, Range(Q)) \in Nat
      /\ SumFunctionOnSet(stacks, Members \ Range(Q)) \in Nat
      /\ Purse(Members, Range(Q), k.stack, stacks)
           = SumFunctionOnSet(k.stack, Range(Q)) + SumFunctionOnSet(stacks, Members \ Range(Q))
  BY <1>2, <1>6, PurseParts
<1>9. /\ SumFunctionOnSet(stacks, Range(Q)) \in Nat
      /\ Purse(Members, Range(Q), stacks, stacks)
           = SumFunctionOnSet(stacks, Range(Q)) + SumFunctionOnSet(stacks, Members \ Range(Q))
  BY <1>2, PurseParts
<1>10. Purse(Members, Range(Q), stacks, stacks) = SumFunctionOnSet(stacks, Members)
  <2> DEFINE e == [p \in Members |-> IF p \in Range(Q) THEN stacks[p] ELSE stacks[p]]
  <2>1. \A p \in Members : stacks[p] \in Int /\ e[p] = stacks[p]
    BY <1>2
  <2> HIDE DEF e
  <2>2. SumFunctionOnSet(e, Members) = SumFunctionOnSet(stacks, Members)
    BY <1>2, <2>1, SumSame
  <2> QED BY <2>2 DEF e, Purse
<1>11. (IF Betting(k) THEN k.pot ELSE 0) \in Nat
  BY <1>6
<1> QED BY ONLY <1>6, <1>7, <1>8, <1>9, <1>10, <1>11

\* An answer moves chips between its player and the pot, and from the pot to
\* its winners, but for the stakes a showdown loses.
LEMMA AnswerChips ==
  ASSUME RoomAssumption, RoomInv, NEW u, ApplyAction(u), game'.stage # "panic"
  PROVE  Chips' = Chips \/ (Chips' < Chips /\ LosesStakes)
<1>1. PICK Q : Q = game.players
  OBVIOUS
<1>2. /\ Betting(game) /\ players' = players /\ Range(Q) = InHand(game) /\ Range(Q) \subseteq Members
      /\ Seated(Q) /\ Going(Q, game) /\ InHand(game') = Range(Q)
      /\ \E c : Pays(Q, game, u, c) /\ (Settled(Q, c, game') \/ GoesOn(Q, c, game'))
      /\ \A p \in Members : stack'[p] = IF p \in Range(Q) THEN game'.stack[p] ELSE stack[p]
  BY <1>1, AnswerMoves
<1>3. PICK c : Pays(Q, game, u, c) /\ (Settled(Q, c, game') \/ GoesOn(Q, c, game'))
  BY <1>2
<1>4. /\ IsFiniteSet(Members) /\ Members \subseteq User /\ stack \in [User -> Nat]
      /\ Range(Q) \in SUBSET Members /\ IsFiniteSet(Range(Q)) /\ Members' = Members
  <2>1. Up
    BY DEF ApplyAction
  <2> QED BY <1>2, <2>1, HeldFacts, FS_Subset DEF Members
<1>5. PICK k : k = game'
  OBVIOUS
<1>6. /\ game.stack \in [Range(Q) -> Nat] /\ game.pot \in Nat /\ game.stage # "none"
      /\ c.stack \in [Range(Q) -> Nat] /\ c.pot \in Nat
      /\ k.stack \in [Range(Q) -> Nat] /\ k.pot \in Nat /\ k.stage # "none"
      /\ InHand(k) = Range(Q)
  <2>1. Table(Q, game) /\ Table(Q, c) /\ Table(Q, k)
    BY <1>2, <1>3, <1>5 DEF Going, Pays, Backed, Settled, GoesOn, Over, Shape
  <2>2. game.stage # "none" /\ k.stage # "none"
    BY <1>2, <1>3, <1>5 DEF Going, Backed, Settled, GoesOn, Over, Shape, Streets
  <2> QED BY <1>2, <1>5, <2>1, <2>2 DEF Table
<1> DEFINE held == SumFunctionOnSet(k.stack, Range(Q)) + (IF Betting(k) THEN k.pot ELSE 0)
<1>7. /\ SumFunctionOnSet(game.stack, Range(Q)) \in Nat
      /\ SumFunctionOnSet(c.stack, Range(Q)) \in Nat
      /\ SumFunctionOnSet(k.stack, Range(Q)) \in Nat
  BY <1>4, <1>6, SumType
<1>8. \/ held = SumFunctionOnSet(game.stack, Range(Q)) + game.pot
      \/ held < SumFunctionOnSet(game.stack, Range(Q)) + game.pot /\ LosesStakes
  <2>1. SumFunctionOnSet(c.stack, Range(Q)) + c.pot = SumFunctionOnSet(game.stack, Range(Q)) + game.pot
    BY <1>3 DEF Pays
  <2>2. CASE Settled(Q, c, k)
    <3>1. /\ SumFunctionOnSet(k.stack, Range(Q)) <= SumFunctionOnSet(c.stack, Range(Q)) + c.pot
          /\ k.reason # "showdown" =>
               SumFunctionOnSet(k.stack, Range(Q)) = SumFunctionOnSet(c.stack, Range(Q)) + c.pot
      BY <2>2 DEF Settled
    <3>2. ~Betting(k) /\ k.stage = "finished"
      BY <2>2 DEF Settled, Over, Betting, Streets
    <3>3. held = SumFunctionOnSet(k.stack, Range(Q))
      BY <1>7, <3>2
    <3>4. CASE k.reason # "showdown"
      BY <2>1, <3>1, <3>3, <3>4
    <3>5. CASE k.reason = "showdown" /\ ~Whole(game)
      <4>1. LosesStakes
        BY <1>2, <1>5, <3>5 DEF LosesStakes, Whole
      <4> HIDE DEF held
      <4> QED BY <1>6, <1>7, <2>1, <3>1, <3>3, <4>1
    <3>6. CASE k.reason = "showdown" /\ Whole(game)
      <4>1. PICK d : d = Brought(game)
        OBVIOUS
      <4>2. Stuck(Q, k) \/ Ended(Q, k, d) \/ InPlay(Q, k, Brought(k))
        BY <1>1, <1>5, <3>6, <4>1, AnswerFacts
      <4>3. Ended(Q, k, d)
        BY <3>2, <4>2 DEF Stuck, InPlay, Stakes, Shape, Streets
      <4>4. \/ SumFunctionOnSet(k.stack, Range(Q)) = SumFunctionOnSet(d, Range(Q))
            \/ Overpaid(k)
        BY <1>2, <4>3, EndedKeeps
      <4>5. InPlay(Q, game, d)
        BY <1>1, <3>6, <4>1 DEF RoomInv, WholeInPlay
      <4>6. SumFunctionOnSet(d, Range(Q)) = SumFunctionOnSet(game.stack, Range(Q)) + game.pot
        <5>1. /\ game.pot = SumFunctionOnSet(game.contributed, Range(Q))
              /\ \A p \in Range(Q) : game.stack[p] + game.contributed[p] = d[p]
          BY <1>2, <4>5, InPlayGoing
        <5>2. \A p \in Range(Q) : game.stack[p] \in Int /\ game.contributed[p] \in Int
                                 /\ d[p] = game.stack[p] + game.contributed[p]
          BY <1>2, <5>1 DEF Going, Backed, Shape, Table
        <5> QED BY <1>4, <5>1, <5>2, SumAdd
      <4>7. CASE SumFunctionOnSet(k.stack, Range(Q)) = SumFunctionOnSet(d, Range(Q))
        BY <3>3, <4>6, <4>7
      <4>8. CASE Overpaid(k)
        <5>1. LosesStakes
          BY <1>2, <1>5, <3>6, <4>8 DEF LosesStakes, Overpaid
        <5> HIDE DEF held
        <5> QED BY <1>6, <1>7, <2>1, <3>1, <3>3, <5>1
      <4> QED BY <4>4, <4>7, <4>8
    <3> QED BY <3>4, <3>5, <3>6
  <2>3. CASE GoesOn(Q, c, k)
    <3>1. k.stack = c.stack /\ k.pot = c.pot /\ Betting(k)
      BY <2>3 DEF GoesOn, Going, Backed, Shape, Betting
    <3> QED BY <1>6, <1>7, <2>1, <3>1
  <2> QED BY <1>3, <1>5, <2>2, <2>3
<1>9. Chips' = Purse(Members, Range(Q), k.stack, stack') + (IF Betting(k) THEN k.pot ELSE 0)
  BY <1>4, <1>5, <1>6 DEF Chips, Sum, Purse
<1>10. Chips = Purse(Members, Range(Q), game.stack, stack) + game.pot
  BY <1>2, <1>6 DEF Chips, Sum, Purse
<1>11. PICK e : e = stack'
  OBVIOUS
<1>12. \A p \in Members \ Range(Q) : e[p] \in Nat /\ e[p] = stack[p]
  BY <1>2, <1>4, <1>11
<1>13. /\ Purse(Members, Range(Q), k.stack, e)
            = SumFunctionOnSet(k.stack, Range(Q)) + SumFunctionOnSet(e, Members \ Range(Q))
       /\ Purse(Members, Range(Q), game.stack, stack)
            = SumFunctionOnSet(game.stack, Range(Q)) + SumFunctionOnSet(stack, Members \ Range(Q))
       /\ SumFunctionOnSet(stack, Members \ Range(Q)) \in Nat
  BY SMTT(30), <1>4, <1>6, <1>12, PurseParts
<1>14. SumFunctionOnSet(e, Members \ Range(Q)) = SumFunctionOnSet(stack, Members \ Range(Q))
  <2>1. IsFiniteSet(Members \ Range(Q)) /\ \A p \in Members \ Range(Q) : stack[p] \in Int /\ e[p] = stack[p]
    BY <1>4, <1>12, FS_Subset
  <2> QED BY <2>1, SumSame
<1>15. (IF Betting(k) THEN k.pot ELSE 0) \in Nat
  BY <1>6
<1>16. Chips' = Purse(Members, Range(Q), k.stack, e) + (IF Betting(k) THEN k.pot ELSE 0)
  BY ONLY <1>9, <1>11
<1> QED BY ONLY <1>6, <1>7, <1>8, <1>10, <1>13, <1>14, <1>15, <1>16

\* While the table stays the same no step makes a chip, and none loses one but a
\* showdown that loses stakes and a start after a hand that a leaving ended.
THEOREM ChipsAlwaysKept == Spec => ChipsKept
<1> DEFINE Kept == \/ Chips' = Chips
                   \/ Chips' < Chips /\ LosesStakes
                   \/ Chips' < Chips /\ StartGame /\ stack # StacksAfterHand
<1>1. ASSUME RoomInv, [Next]_vars, Members = Range(players'),
             ~(vote'.result = "approved" /\ vote.result = "pending"), Up'
      PROVE  Kept
  <2>1. /\ stack \in [User -> Nat] /\ Members \subseteq User /\ game'.stage # "panic"
    BY <1>1 DEF RoomInv, RoomTypeOK, Members, Range, Up
  <2>2. ASSUME Watching PROVE Chips' = Chips
    BY <2>2 DEF Watching, Chips, Members
  <2>3. ASSUME NEW u \in User, Seating(u) PROVE FALSE
    BY RoomAssumption, <1>1, <2>3, SeatingMoves
  <2>4. ASSUME StartGame PROVE Kept
    <3>1. /\ Up /\ status = "waiting" /\ EnoughChips(stack) /\ Deal(stack) /\ stack' = stack
      BY <2>4 DEF StartGame
    <3>2. Chips' \in Nat /\ Chips' = SumFunctionOnSet(stack, Members)
      BY RoomAssumption, <1>1, <2>1, <3>1, DealtChips
    <3>3. /\ game = NoGame \/ Done(game)
          /\ ~Betting(game)
      BY <1>1, <3>1, WaitingFacts
    <3>4. /\ IsFiniteSet(Members) /\ \A p \in Members : Held[p] \in Nat
          /\ SumFunctionOnSet(Held, Members) \in Nat /\ Chips = SumFunctionOnSet(Held, Members)
      BY <1>1, <3>1, <3>3, HeldFacts
    <3>5. \A p \in Members : stack[p] <= Held[p]
      <4>1. CASE game = NoGame
        BY <2>1, <4>1 DEF NoGame, Held
      <4>2. CASE Done(game)
        <5>1. game.stage = "finished"
          BY <4>2 DEF Done
        <5>2. \A p \in Members \cap InHand(game) : stack[p] <= game.stack[p]
          BY <1>1, <3>1, <5>1 DEF RoomInv, StacksKept
        <5> QED BY <2>1, <5>1, <5>2 DEF Held
      <4> QED BY <3>3, <4>1, <4>2
    <3>6. SumFunctionOnSet(stack, Members) <= SumFunctionOnSet(Held, Members)
      <4>1. \A p \in Members : stack[p] \in Int /\ Held[p] \in Int /\ stack[p] <= Held[p]
        BY <2>1, <3>4, <3>5
      <4> QED BY <3>4, <4>1, SumMonotone
    <3>7. SumFunctionOnSet(stack, Members) \in Nat
      BY <2>1, <3>4, SumType
    <3>8. CASE stack = StacksAfterHand
      <4>1. \A p \in Members : Held[p] = stack[p]
        <5>1. CASE game = NoGame
          BY <5>1 DEF NoGame, Held
        <5>2. CASE Done(game)
          <6>1. game.stage = "finished"
            BY <5>2 DEF Done
          <6>2. \A p \in Members \cap InHand(game) : StacksAfterHand[p] = game.stack[p]
            BY <1>1, <2>1, <6>1, StacksAfterHandFacts
          <6> QED BY <3>8, <6>1, <6>2 DEF Held
        <5> QED BY <3>3, <5>1, <5>2
      <4>2. SumFunctionOnSet(Held, Members) = SumFunctionOnSet(stack, Members)
        <5>1. PICK e : e = Held
          OBVIOUS
        <5>2. \A p \in Members : stack[p] \in Int /\ e[p] = stack[p]
          BY <2>1, <4>1, <5>1
        <5> QED BY <3>4, <5>1, <5>2, SumSame
      <4> QED BY <3>2, <3>4, <4>2
    <3>9. CASE stack # StacksAfterHand
      BY <2>4, <3>2, <3>4, <3>6, <3>7, <3>9
    <3> QED BY <3>8, <3>9
  <2>5. ASSUME NextHand PROVE Chips' = Chips
    <3>1. Up /\ game.stage = "finished" /\ stack' = StacksAfterHand
      BY <2>5 DEF NextHand
    <3>2. PICK stacks : stacks = StacksAfterHand
      OBVIOUS
    <3>3. /\ stacks \in [User -> Nat]
          /\ \A p \in User : stacks[p] = IF p \in Members \cap InHand(game) THEN game.stack[p] ELSE stack[p]
      BY <1>1, <3>1, <3>2, StacksAfterHandFacts
    <3>4. /\ IsFiniteSet(Members) /\ \A p \in Members : Held[p] \in Nat
          /\ SumFunctionOnSet(Held, Members) \in Nat /\ ~Betting(game)
          /\ Chips = SumFunctionOnSet(Held, Members)
      BY <1>1, <3>1, HeldFacts DEF Betting, Streets
    <3>5. \A p \in Members : stacks[p] = Held[p]
      BY <2>1, <3>1, <3>3 DEF Held
    <3>6. CASE EnoughChips(StacksAfterHand)
      <4>1. Deal(stacks) /\ EnoughChips(stacks) /\ stack' = stacks
        BY <2>5, <3>1, <3>2, <3>6 DEF NextHand
      <4>2. Chips' = SumFunctionOnSet(stacks, Members)
        BY RoomAssumption, <1>1, <2>1, <3>1, <3>3, <4>1, DealtChips DEF Up
      <4>3. SumFunctionOnSet(stacks, Members) = SumFunctionOnSet(Held, Members)
        BY <3>4, <3>5, SumSame
      <4> QED BY <3>4, <4>2, <4>3
    <3>7. CASE ~EnoughChips(StacksAfterHand)
      <4>1. players' = players /\ game' = game /\ stack' = stacks
        BY <2>5, <3>1, <3>2, <3>7 DEF NextHand, seats
      <4>2. \A p \in Members : Held'[p] = Held[p]
        <5>1. Members' = Members
          BY <4>1 DEF Members
        <5>2. \A p \in Members :
                Held'[p] = IF game.stage # "none" /\ p \in InHand(game) THEN game.stack[p] ELSE stacks[p]
          BY <4>1, <5>1 DEF Held
        <5> QED BY <3>1, <3>5, <5>2 DEF Held
      <4> QED BY <1>1, <3>1, <3>4, <4>1, <4>2, SameHoldings
    <3> QED BY <3>6, <3>7
  <2>6. ASSUME NEW u \in User, ApplyAction(u) PROVE Kept
    BY RoomAssumption, <1>1, <2>1, <2>6, AnswerChips
  <2>7. ASSUME NEW u \in Human, ApplyReveal(u) PROVE Chips' = Chips
    <3>1. /\ Up /\ UNCHANGED <<seats, stack>>
          /\ game.stage = "finished" /\ game'.stage = "finished"
          /\ InHand(game') = InHand(game) /\ game'.stack = game.stack
      BY RoomAssumption, <1>1, <2>7, RevealInv DEF ApplyReveal
    <3>2. players' = players /\ Members' = Members /\ stack' = stack
      BY <3>1 DEF seats, Members
    <3>3. \A p \in Members : Held'[p] = Held[p]
      <4>1. Held' = Held
        BY <3>1, <3>2 DEF Held
      <4> QED BY <4>1
    <3> QED BY <1>1, <3>1, <3>2, <3>3, SameHoldings DEF Betting, Streets
  <2>8. ASSUME NEW u \in Human, LeaveRoom(u) PROVE FALSE
    BY RoomAssumption, <1>1, <2>1, <2>8, LeavingMoves
  <2>9. ASSUME NEW u \in Human, VoteAgree(u) PROVE Chips' = Chips
    <3>1. players' = players /\ stack' = stack /\ game' = game /\ ~Betting(game) /\ Up
      BY RoomAssumption, <1>1, <2>9, AgreeMoves DEF VoteAgree, CanVote
    <3>2. Held' = Held
      BY <3>1 DEF Held, Members
    <3> QED BY <1>1, <3>1, <3>2, SameHoldings
  <2> HIDE DEF Kept
  <2>10. Chips' = Chips => Kept
    BY DEF Kept
  <2> QED BY RoomAssumption, <1>1, <2>2, <2>3, <2>4, <2>5, <2>6, <2>7, <2>8, <2>9, <2>10, StepCases
<1>2. ASSUME RoomInv, [Next]_vars
      PROVE  [Members = Range(players') /\ ~(vote'.result = "approved" /\ vote.result = "pending")
                /\ Up' => Kept]_vars
  BY <1>1, <1>2
<1> QED BY <1>2, RoomInvariant, PTL DEF Spec, ChipsKept

\* While bets are taken a step changes the chips of the player on turn and of
\* nobody else.
THEOREM OthersAlwaysKeepChips == Spec => OthersKeepChips
<1> DEFINE Others == \A p \in InHand(game') :
             game'.stack[p] # game.stack[p] \/ game'.contributed[p] # game.contributed[p]
               => p = At(game, game.turn) /\ Members = Range(players')
<1>1. ASSUME RoomInv, [Next]_vars, Betting(game), Betting(game')
      PROVE  InHand(game') \subseteq InHand(game) /\ Others
  <2>1. /\ status = "playing" /\ game.stage # "finished" /\ game'.stage # "finished"
        /\ game.stage # "none" /\ game'.stage # "none" /\ game'.stage # "panic"
    <3>1. status = "playing"
      BY RoomAssumption, <1>1, BettingFacts
    <3> QED BY <1>1, <3>1 DEF Betting, Streets
  <2>2. CASE game' = game
    BY <2>2
  <2>3. ASSUME NEW u \in User, ApplyAction(u) PROVE InHand(game') \subseteq InHand(game) /\ Others
    <3>1. PICK Q : Q = game.players
      OBVIOUS
    <3>2. /\ players' = players /\ Range(Q) = InHand(game) /\ u = At(game, game.turn)
          /\ InHand(game') = Range(Q)
          /\ \E c : Pays(Q, game, u, c) /\ (Settled(Q, c, game') \/ GoesOn(Q, c, game'))
      BY RoomAssumption, <1>1, <2>1, <2>3, <3>1, AnswerMoves
    <3>3. PICK c : Pays(Q, game, u, c) /\ GoesOn(Q, c, game')
      BY <2>1, <3>2 DEF Settled, Over
    <3>4. \A p \in Range(Q) \ {u} : game'.stack[p] = game.stack[p] /\ game'.contributed[p] = game.contributed[p]
      BY <3>3 DEF Pays, GoesOn
    <3> QED BY <3>2, <3>4 DEF Members
  <2>4. ASSUME NEW u \in Human, LeaveRoom(u) PROVE InHand(game') \subseteq InHand(game) /\ Others
    <3>1. PICK ps : ps = Among(players, User \ {u})
      OBVIOUS
    <3>2. LeavesOthers(u, ps) /\ u \in User
      <4>1. u \in User /\ (LeavesStuck(u) \/ LeavesNobody \/ LeavesOthers(u, ps))
        BY RoomAssumption, <1>1, <2>4, <3>1, LeaveRoomCases DEF User
      <4>2. ~LeavesStuck(u)
        BY <2>1 DEF LeavesStuck
      <4>3. ~LeavesNobody
        BY <2>1 DEF LeavesNobody, NoGame
      <4> QED BY <4>1, <4>2, <4>3
    <3>3. PICK g : /\ Leaves(ps, g) /\ game.stage \in Streets \cup {"finished"}
                   /\ game' = (IF LastLeft(g) THEN LastStanding(g) ELSE g)
      BY <2>1, <3>2 DEF LeavesOthers, NoGame
    <3>4. PICK k : k = game'
      OBVIOUS
    <3>5. k = IF LastLeft(g) THEN LastStanding(g) ELSE g
      BY ONLY <3>3, <3>4
    <3>6. Done(k) \/ (k = g /\ ~Done(g))
      BY ONLY RoomAssumption, <1>1, <3>1, <3>2, <3>3, <3>5, LeaveSettled
    <3>7. k = g /\ ~Done(g)
      BY <2>1, <3>4, <3>6 DEF Done
    <3>8. /\ InHand(g) = InHand(game) \cap Range(ps)
          /\ \A p \in InHand(g) : g.stack[p] = game.stack[p] /\ g.contributed[p] = game.contributed[p]
      BY <3>3, <3>7 DEF Leaves
    <3> QED BY <3>4, <3>7, <3>8
  <2>5. ASSUME NEW u \in User, Seating(u) PROVE FALSE
    BY RoomAssumption, <1>1, <2>1, <2>5, SeatingMoves
  <2>6. ASSUME NEW u \in Human, VoteAgree(u) PROVE FALSE
    BY RoomAssumption, <1>1, <2>6, AgreeMoves
  <2>7. Watching => game' = game
    BY DEF Watching
  <2>8. ~StartGame /\ ~NextHand /\ \A u : ~ApplyReveal(u)
    BY <2>1 DEF StartGame, NextHand, ApplyReveal
  <2> QED BY RoomAssumption, <1>1, <2>2, <2>3, <2>4, <2>5, <2>6, <2>7, <2>8, StepCases
<1>2. ASSUME RoomInv, [Next]_vars
      PROVE  [Betting(game) /\ Betting(game') => InHand(game') \subseteq InHand(game) /\ Others]_vars
  BY <1>1, <1>2
<1> QED BY <1>2, RoomInvariant, PTL DEF Spec, OthersKeepChips

\* What the players bring to the next hand is what the last one left them, and
\* whoever still has chips is dealt in.
THEOREM NextHandAlwaysKeepsChips == Spec => NextHandKeepsChips
<1> DEFINE Brings == \A p \in Members :
             LET had == IF p \in InHand(game) THEN game.stack[p] ELSE stack[p] IN
             IF p \in InHand(game') THEN game'.stack[p] + game'.contributed[p] = had ELSE had = 0
<1>1. ASSUME RoomInv, NextHand, Betting(game'), hands' > hands
      PROVE  Brings
  <2>1. Up /\ game.stage = "finished" /\ stack' = StacksAfterHand
    BY <1>1 DEF NextHand
  <2>2. PICK stacks : stacks = StacksAfterHand
    OBVIOUS
  <2>3. /\ stacks \in [User -> Nat]
        /\ \A p \in User : stacks[p] = IF p \in Members \cap InHand(game) THEN game.stack[p] ELSE stack[p]
    BY <1>1, <2>1, <2>2, StacksAfterHandFacts
  <2>4. Deal(stacks) /\ EnoughChips(stacks) /\ stack' = stacks
    <3>1. EnoughChips(StacksAfterHand)
      <4>1. SUFFICES ASSUME hands' = hands PROVE FALSE
        BY <1>1 DEF NextHand
      <4>2. hands \in Nat
        BY <1>1, RoomAssumption DEF RoomInv, RoomTypeOK, RoomAssumption
      <4> QED BY <1>1, <4>1, <4>2
    <3> QED BY <1>1, <2>1, <2>2, <3>1 DEF NextHand
  <2>5. game'.stage # "panic" /\ game'.stage # "finished"
    BY <1>1 DEF Betting, Streets
  <2>6. PICK Q : Range(Q) = Funds(stacks) /\ Deals(Q, stacks, game')
    BY RoomAssumption, <1>1, <2>1, <2>3, <2>4, <2>5, DealInv DEF Up
  <2>7. /\ InHand(game') = Funds(stacks)
        /\ \A p \in Funds(stacks) : game'.stack[p] + game'.contributed[p] = stacks[p]
    BY <2>5, <2>6 DEF Deals, Done
  <2>8. Members \subseteq User
    BY <1>1 DEF RoomInv, RoomTypeOK, Members, Range
  <2>9. \A p \in Members : stacks[p] = IF p \in InHand(game) THEN game.stack[p] ELSE stack[p]
    BY <2>3, <2>8
  <2>10. \A p \in Members : p \notin Funds(stacks) => stacks[p] = 0
    BY <2>3, <2>8 DEF Funds
  <2> QED BY ONLY <2>7, <2>9, <2>10
<1>2. ASSUME RoomInv, [Next]_vars
      PROVE  [NextHand /\ Betting(game') /\ hands' > hands => Brings]_vars
  BY <1>1, <1>2
<1> QED BY <1>2, RoomInvariant, PTL DEF Spec, NextHandKeepsChips
=============================================================================
