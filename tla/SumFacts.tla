------------------------------- MODULE SumFacts -------------------------------
(***************************************************************************)
(* Lemmas about the minimum and the maximum of a set of naturals and about *)
(* SumFunctionOnSet, from which every amount of chips in this project is   *)
(* built.  The sum is a fold, hence a recursive function on the subsets of *)
(* S: its existence and its laws are proved by taking a counterexample of  *)
(* the least cardinality.                                                  *)
(***************************************************************************)
EXTENDS Integers, FiniteSets, FiniteSetsExt, Functions,
        FiniteSetTheorems, WellFoundedInduction, TLAPS

\* A set of naturals that is not empty has a least element, and Min is it.
LEMMA MinOfNaturals ==
  ASSUME NEW S \in SUBSET Nat, S # {}
  PROVE  /\ Min(S) \in S
         /\ \A y \in S : Min(S) <= y
<1> DEFINE R == {ss \in Nat \X Nat : ss[1] < ss[2]}
<1>1. IsWellFoundedOn(R, Nat)
  BY NatLessThanWellFounded DEF OpToRel
<1>2. PICK x \in S : \A y \in S : ~ (<<y, x>> \in R)
  <2> HIDE DEF R
  <2> QED BY <1>1, WFMin
<1>3. \A a, b \in Nat : a < b => <<a, b>> \in R
  OBVIOUS
<1>4. \A y \in S : ~ (y < x)
  <2> HIDE DEF R
  <2> QED BY <1>2, <1>3
<1>5. \A y \in S : x <= y
  BY <1>4
<1> QED BY <1>5 DEF Min

\* Min of two numbers.
LEMMA MinOfPair ==
  ASSUME NEW a \in Int, NEW b \in Int
  PROVE  Min({a, b}) = IF a <= b THEN a ELSE b
<1> DEFINE m == IF a <= b THEN a ELSE b
<1>1. m \in {a, b} /\ \A y \in {a, b} : m <= y
  OBVIOUS
<1>2. \A x \in {a, b} : (\A y \in {a, b} : x <= y) => x = m
  OBVIOUS
<1> QED BY <1>1, <1>2 DEF Min

\* Max of two numbers.
LEMMA MaxOfPair ==
  ASSUME NEW a \in Int, NEW b \in Int
  PROVE  Max({a, b}) = IF a >= b THEN a ELSE b
<1> DEFINE m == IF a >= b THEN a ELSE b
<1>1. m \in {a, b} /\ \A y \in {a, b} : m >= y
  OBVIOUS
<1>2. \A x \in {a, b} : (\A y \in {a, b} : x >= y) => x = m
  OBVIOUS
<1> QED BY <1>1, <1>2 DEF Max

\* A bounded set of naturals that is not empty has a greatest element.
LEMMA MaxOfNaturals ==
  ASSUME NEW b \in Nat, NEW S \in SUBSET (0 .. b), S # {}
  PROVE  /\ Max(S) \in S
         /\ \A y \in S : Max(S) >= y
<1> DEFINE T == {b - x : x \in S}
<1>1. T \in SUBSET Nat /\ T # {}
  <2>1. \A x \in S : b - x \in Nat
    OBVIOUS
  <2>2. T \subseteq Nat
    BY <2>1
  <2>3. PICK x : x \in S
    OBVIOUS
  <2>4. b - x \in T
    BY <2>3
  <2> QED BY <2>2, <2>4
<1>2. Min(T) \in T /\ \A y \in T : Min(T) <= y
  <2> HIDE DEF T
  <2> QED BY <1>1, MinOfNaturals
<1>3. PICK x \in S : Min(T) = b - x
  BY <1>2
<1>4. \A y \in S : x >= y
  BY <1>2, <1>3
<1> QED BY <1>4 DEF Max

-----------------------------------------------------------------------------
(* The sum as a recursive function. *)

\* The element the fold takes out of s next.
Pick(s) == CHOOSE x \in s : TRUE

\* F maps every set of D to the sum of f over it.
Sums(F, f, D) == F = [s \in D |-> IF s = {} THEN 0 ELSE f[Pick(s)] + F[s \ {Pick(s)}]]

\* SumFunctionOnSet, with the definitions of the library expanded.
LEMMA SumDefinition ==
  ASSUME NEW f, NEW S
  PROVE  SumFunctionOnSet(f, S) = (CHOOSE F : Sums(F, f, SUBSET S))[S]
BY DEF SumFunctionOnSet, FoldFunctionOnSet, MapThenFoldSet, Sums, Pick

\* The subsets of S with at most n elements.
UpTo(S, n) == {s \in SUBSET S : Cardinality(s) <= n}

\* Taking an element out of a set leaves a smaller one.
LEMMA PickFacts ==
  ASSUME NEW S, IsFiniteSet(S), NEW s \in SUBSET S, s # {}
  PROVE  /\ Pick(s) \in s /\ s \ {Pick(s)} \in SUBSET S
         /\ Cardinality(s) \in Nat \ {0}
         /\ Cardinality(s \ {Pick(s)}) = Cardinality(s) - 1
<1>1. Pick(s) \in s
  BY DEF Pick
<1>2. IsFiniteSet(s)
  BY FS_Subset
<1>3. Cardinality(s) \in Nat /\ Cardinality(s) # 0
  BY <1>2, FS_CardinalityType, FS_EmptySet
<1>4. Cardinality(s \ {Pick(s)}) = Cardinality(s) - 1
  BY <1>1, <1>2, FS_RemoveElement
<1> QED BY <1>1, <1>3, <1>4

\* The recursion has a solution on the sets of every size.
LEMMA SumsExist ==
  ASSUME NEW S, IsFiniteSet(S), NEW f
  PROVE  \A n \in Nat : \E F : Sums(F, f, UpTo(S, n))
<1> DEFINE Bad == {n \in Nat : ~ \E F : Sums(F, f, UpTo(S, n))}
<1>1. SUFFICES ASSUME Bad # {} PROVE FALSE
  OBVIOUS
<1>2. Min(Bad) \in Bad /\ \A k \in Bad : Min(Bad) <= k
  <2>1. Bad \in SUBSET Nat
    OBVIOUS
  <2> HIDE DEF Bad
  <2> QED BY <1>1, <2>1, MinOfNaturals
<1>3. PICK n \in Nat : n \in Bad /\ \A k \in Nat : k < n => k \notin Bad
  BY <1>2
<1>4. CASE n = 0
  <2> DEFINE F == [s \in UpTo(S, n) |-> 0]
  <2>1. \A s \in UpTo(S, n) : s = {}
    BY <1>4, FS_Subset, FS_CardinalityType, FS_EmptySet DEF UpTo
  <2>2. Sums(F, f, UpTo(S, n))
    BY <2>1 DEF Sums
  <2> QED BY <1>3, <2>2
<1>5. CASE n # 0
  <2>1. PICK F : Sums(F, f, UpTo(S, n - 1))
    BY <1>3, <1>5
  <2> DEFINE G == [s \in UpTo(S, n) |->
                     IF s = {} THEN 0 ELSE f[Pick(s)] + F[s \ {Pick(s)}]]
  <2>2. ASSUME NEW s \in UpTo(S, n), s # {}
        PROVE  G[s \ {Pick(s)}] = F[s \ {Pick(s)}]
    <3> DEFINE r == s \ {Pick(s)}
    <3>1. r \in UpTo(S, n - 1) /\ r \in UpTo(S, n)
      BY <2>2, PickFacts DEF UpTo
    <3> HIDE DEF r
    <3>2. F[r] = IF r = {} THEN 0 ELSE f[Pick(r)] + F[r \ {Pick(r)}]
      BY <2>1, <3>1 DEF Sums
    <3> QED BY <3>1, <3>2 DEF r
  <2>3. Sums(G, f, UpTo(S, n))
    BY <2>2 DEF Sums
  <2> QED BY <1>3, <2>3
<1> QED BY <1>4, <1>5

\* SumFunctionOnSet(f, S) is the value at S of a function that obeys the
\* recursion on all subsets of S.
LEMMA SumIsSum ==
  ASSUME NEW S, IsFiniteSet(S), NEW f
  PROVE  \E F : Sums(F, f, SUBSET S) /\ SumFunctionOnSet(f, S) = F[S]
<1>1. Cardinality(S) \in Nat
  BY FS_CardinalityType
<1>2. UpTo(S, Cardinality(S)) = SUBSET S
  BY FS_Subset DEF UpTo
<1>3. \E F : Sums(F, f, SUBSET S)
  <2>1. \E F : Sums(F, f, UpTo(S, Cardinality(S)))
    BY <1>1, SumsExist
  <2> QED BY <1>2, <2>1
<1>4. Sums(CHOOSE F : Sums(F, f, SUBSET S), f, SUBSET S)
  BY <1>3
<1> QED BY <1>4, SumDefinition

\* Induction along the fold, for a property given as the set B it defines.
LEMMA PickInduction ==
  ASSUME NEW S, IsFiniteSet(S), NEW B, {} \in B,
         \A s \in SUBSET S : s # {} /\ s \ {Pick(s)} \in B => s \in B
  PROVE  SUBSET S \subseteq B
<1> DEFINE Bad == {n \in Nat : \E s \in SUBSET S : s \notin B /\ Cardinality(s) = n}
<1>1. SUFFICES ASSUME NEW t \in SUBSET S, t \notin B PROVE FALSE
  OBVIOUS
<1>2. Cardinality(t) \in Bad
  BY <1>1, FS_Subset, FS_CardinalityType
<1>3. Min(Bad) \in Bad /\ \A k \in Bad : Min(Bad) <= k
  <2>1. Bad \in SUBSET Nat /\ Bad # {}
    BY <1>2
  <2> HIDE DEF Bad
  <2> QED BY <2>1, MinOfNaturals
<1>4. PICK s \in SUBSET S : s \notin B /\ Cardinality(s) = Min(Bad)
  BY <1>3
<1>5. s # {}
  BY <1>4
<1>6. /\ s \ {Pick(s)} \in SUBSET S
      /\ Cardinality(s) \in Nat \ {0}
      /\ Cardinality(s \ {Pick(s)}) = Cardinality(s) - 1
  BY <1>5, PickFacts
<1>7. s \ {Pick(s)} \notin B
  BY <1>4, <1>5
<1>8. Cardinality(s) - 1 \in Bad
  BY <1>6, <1>7
<1> HIDE DEF Bad
<1> QED BY <1>3, <1>4, <1>6, <1>8

\* A sum of integers is an integer, a sum of naturals a natural.
LEMMA SumType ==
  ASSUME NEW S, IsFiniteSet(S), NEW f
  PROVE  /\ (\A x \in S : f[x] \in Int) => SumFunctionOnSet(f, S) \in Int
         /\ (\A x \in S : f[x] \in Nat) => SumFunctionOnSet(f, S) \in Nat
<1>1. PICK F : Sums(F, f, SUBSET S) /\ SumFunctionOnSet(f, S) = F[S]
  BY SumIsSum
<1>2. ASSUME NEW T, \A x \in S : f[x] \in T, T = Int \/ T = Nat
      PROVE  F[S] \in T
  <2> DEFINE B == {s \in SUBSET S : F[s] \in T}
  <2>1. {} \in B
    BY <1>1, <1>2 DEF Sums
  <2>2. ASSUME NEW s \in SUBSET S, s # {}, s \ {Pick(s)} \in B
        PROVE  s \in B
    <3>1. F[s] = f[Pick(s)] + F[s \ {Pick(s)}]
      BY <1>1, <2>2 DEF Sums
    <3>2. f[Pick(s)] \in T
      BY <1>2, <2>2, PickFacts
    <3> QED BY <1>2, <2>2, <3>1, <3>2
  <2>3. SUBSET S \subseteq B
    <3> HIDE DEF B
    <3> QED BY <2>1, <2>2, PickInduction
  <2> QED BY <2>3
<1> QED BY <1>1, <1>2

\* The sum of two functions.
LEMMA SumAdd ==
  ASSUME NEW S, IsFiniteSet(S), NEW f, NEW e, NEW h,
         \A x \in S : f[x] \in Int /\ e[x] \in Int /\ h[x] = f[x] + e[x]
  PROVE  SumFunctionOnSet(h, S) = SumFunctionOnSet(f, S) + SumFunctionOnSet(e, S)
<1>1. PICK F : Sums(F, f, SUBSET S) /\ SumFunctionOnSet(f, S) = F[S]
  BY SumIsSum
<1>2. PICK E : Sums(E, e, SUBSET S) /\ SumFunctionOnSet(e, S) = E[S]
  BY SumIsSum
<1>3. PICK H : Sums(H, h, SUBSET S) /\ SumFunctionOnSet(h, S) = H[S]
  BY SumIsSum
<1> DEFINE B == {s \in SUBSET S : F[s] \in Int /\ E[s] \in Int /\ H[s] = F[s] + E[s]}
<1>4. {} \in B
  BY <1>1, <1>2, <1>3 DEF Sums
<1>5. ASSUME NEW s \in SUBSET S, s # {}, s \ {Pick(s)} \in B
      PROVE  s \in B
  <2>1. /\ F[s] = f[Pick(s)] + F[s \ {Pick(s)}]
        /\ E[s] = e[Pick(s)] + E[s \ {Pick(s)}]
        /\ H[s] = h[Pick(s)] + H[s \ {Pick(s)}]
    BY <1>1, <1>2, <1>3, <1>5 DEF Sums
  <2>2. Pick(s) \in S
    BY <1>5, PickFacts
  <2>3. f[Pick(s)] \in Int /\ e[Pick(s)] \in Int /\ h[Pick(s)] = f[Pick(s)] + e[Pick(s)]
    BY <2>2
  <2> QED BY <1>5, <2>1, <2>3
<1>6. SUBSET S \subseteq B
  <2> HIDE DEF B
  <2> QED BY <1>4, <1>5, PickInduction
<1> QED BY <1>1, <1>2, <1>3, <1>6

\* A function that is 0 everywhere but at u.
LEMMA SumPoint ==
  ASSUME NEW S, IsFiniteSet(S), NEW f, NEW u \in S, f[u] \in Int,
         \A x \in S \ {u} : f[x] = 0
  PROVE  SumFunctionOnSet(f, S) = f[u]
<1>1. PICK F : Sums(F, f, SUBSET S) /\ SumFunctionOnSet(f, S) = F[S]
  BY SumIsSum
<1> DEFINE B == {s \in SUBSET S : F[s] = IF u \in s THEN f[u] ELSE 0}
<1>2. {} \in B
  BY <1>1 DEF Sums
<1>3. ASSUME NEW s \in SUBSET S, s # {}, s \ {Pick(s)} \in B
      PROVE  s \in B
  <2>1. F[s] = f[Pick(s)] + F[s \ {Pick(s)}]
    BY <1>1, <1>3 DEF Sums
  <2>2. Pick(s) \in s
    BY <1>3, PickFacts
  <2>3. CASE Pick(s) = u
    BY <1>3, <2>1, <2>2, <2>3
  <2>4. CASE Pick(s) # u
    BY <1>3, <2>1, <2>2, <2>4
  <2> QED BY <2>3, <2>4
<1>4. SUBSET S \subseteq B
  <2> HIDE DEF B
  <2> QED BY <1>2, <1>3, PickInduction
<1> QED BY <1>1, <1>4

\* Changing one value by n changes the sum by n.
LEMMA SumUpdate ==
  ASSUME NEW S, IsFiniteSet(S), NEW f, NEW h, NEW u \in S, NEW n \in Int,
         \A x \in S : f[x] \in Int,
         h[u] = f[u] + n, \A x \in S \ {u} : h[x] = f[x]
  PROVE  SumFunctionOnSet(h, S) = SumFunctionOnSet(f, S) + n
<1> DEFINE e == [x \in S |-> IF x = u THEN n ELSE 0]
<1>1. SumFunctionOnSet(e, S) = n
  <2>1. e[u] = n /\ \A x \in S \ {u} : e[x] = 0
    OBVIOUS
  <2> HIDE DEF e
  <2> QED BY <2>1, SumPoint
<1>2. \A x \in S : f[x] \in Int /\ e[x] \in Int /\ h[x] = f[x] + e[x]
  OBVIOUS
<1>3. SumFunctionOnSet(h, S) = SumFunctionOnSet(f, S) + SumFunctionOnSet(e, S)
  <2> HIDE DEF e
  <2> QED BY <1>2, SumAdd
<1> QED BY <1>1, <1>3

\* Greater values, greater sum.
LEMMA SumMonotone ==
  ASSUME NEW S, IsFiniteSet(S), NEW f, NEW h,
         \A x \in S : f[x] \in Int /\ h[x] \in Int /\ f[x] <= h[x]
  PROVE  SumFunctionOnSet(f, S) <= SumFunctionOnSet(h, S)
<1> DEFINE e == [x \in S |-> h[x] - f[x]]
<1>1. \A x \in S : e[x] \in Nat /\ h[x] = f[x] + e[x]
  OBVIOUS
<1> HIDE DEF e
<1>2. SumFunctionOnSet(e, S) \in Nat
  BY <1>1, SumType
<1>3. SumFunctionOnSet(f, S) \in Int
  BY SumType
<1>4. SumFunctionOnSet(h, S) = SumFunctionOnSet(f, S) + SumFunctionOnSet(e, S)
  BY <1>1, SumAdd
<1> QED BY <1>2, <1>3, <1>4

\* No value is greater than the sum of naturals it belongs to.
LEMMA SumBounds ==
  ASSUME NEW S, IsFiniteSet(S), NEW f, \A x \in S : f[x] \in Nat, NEW u \in S
  PROVE  f[u] <= SumFunctionOnSet(f, S)
<1> DEFINE e == [x \in S |-> IF x = u THEN f[u] ELSE 0]
<1>1. /\ e[u] = f[u] /\ \A x \in S \ {u} : e[x] = 0
      /\ \A x \in S : f[x] \in Int /\ e[x] \in Int /\ e[x] <= f[x]
  OBVIOUS
<1> HIDE DEF e
<1>2. SumFunctionOnSet(e, S) = f[u]
  BY <1>1, SumPoint
<1>3. SumFunctionOnSet(e, S) <= SumFunctionOnSet(f, S)
  BY <1>1, SumMonotone
<1> QED BY <1>2, <1>3

\* A sum of naturals that is not zero has a term that is not.
LEMMA SumNotZero ==
  ASSUME NEW S, IsFiniteSet(S), NEW f, \A x \in S : f[x] \in Nat, SumFunctionOnSet(f, S) > 0
  PROVE  \E x \in S : f[x] > 0
<1>1. SUFFICES ASSUME \A x \in S : f[x] = 0 PROVE FALSE
  OBVIOUS
<1>2. \A x \in S : f[x] \in Int /\ f[x] = f[x] + f[x]
  BY <1>1
<1>3. SumFunctionOnSet(f, S) = SumFunctionOnSet(f, S) + SumFunctionOnSet(f, S)
  BY <1>2, SumAdd
<1>4. SumFunctionOnSet(f, S) \in Nat
  BY SumType
<1> QED BY <1>3, <1>4

\* A sum of zeros.
LEMMA SumZero ==
  ASSUME NEW S, IsFiniteSet(S), NEW f, \A x \in S : f[x] = 0
  PROVE  SumFunctionOnSet(f, S) = 0
<1>1. \A x \in S : f[x] \in Nat /\ ~ (f[x] > 0)
  OBVIOUS
<1>2. SumFunctionOnSet(f, S) \in Nat
  BY <1>1, SumType
<1> QED BY <1>1, <1>2, SumNotZero

\* The sum depends on the values on S only.
LEMMA SumSame ==
  ASSUME NEW S, IsFiniteSet(S), NEW f, NEW h, \A x \in S : f[x] \in Int /\ h[x] = f[x]
  PROVE  SumFunctionOnSet(h, S) = SumFunctionOnSet(f, S)
<1>1. SumFunctionOnSet(h, S) <= SumFunctionOnSet(f, S)
  BY SumMonotone
<1>2. SumFunctionOnSet(f, S) <= SumFunctionOnSet(h, S)
  BY SumMonotone
<1>3. SumFunctionOnSet(f, S) \in Int /\ SumFunctionOnSet(h, S) \in Int
  BY SumType
<1> QED BY <1>1, <1>2, <1>3

\* Terms outside T count for nothing.
LEMMA SumExtend ==
  ASSUME NEW S, IsFiniteSet(S), NEW T \in SUBSET S, NEW f, \A x \in T : f[x] \in Int
  PROVE  SumFunctionOnSet([x \in S |-> IF x \in T THEN f[x] ELSE 0], S) = SumFunctionOnSet(f, T)
<1>1. IsFiniteSet(T)
  BY FS_Subset
<1>2. PICK F : Sums(F, f, SUBSET T) /\ SumFunctionOnSet(f, T) = F[T]
  BY <1>1, SumIsSum
<1> DEFINE e(s) == [x \in S |-> IF x \in s THEN f[x] ELSE 0]
           B    == {s \in SUBSET T : SumFunctionOnSet(e(s), S) = F[s]}
<1>3. {} \in B
  <2>1. \A x \in S : e({})[x] = 0
    OBVIOUS
  <2> HIDE DEF e
  <2>2. SumFunctionOnSet(e({}), S) = 0
    BY <2>1, SumZero
  <2> QED BY <1>2, <2>2 DEF Sums
<1>4. ASSUME NEW s \in SUBSET T, s # {}, s \ {Pick(s)} \in B
      PROVE  s \in B
  <2> DEFINE u == Pick(s)
             r == s \ {Pick(s)}
  <2>1. u \in s /\ u \in T /\ u \in S /\ r \in SUBSET T
    BY <1>1, <1>4, PickFacts
  <2>2. PICK a, b : a = e(r) /\ b = e(s)
    OBVIOUS
  <2>3. F[s] = f[u] + F[r]
    BY <1>2, <1>4 DEF Sums
  <2>4. SumFunctionOnSet(a, S) = F[r]
    BY <1>4, <2>2
  <2>5. /\ \A x \in S : a[x] \in Int
        /\ b[u] = a[u] + f[u] /\ \A x \in S \ {u} : b[x] = a[x]
        /\ f[u] \in Int
    BY <2>1, <2>2
  <2>6. IsFiniteSet(S)
    OBVIOUS
  <2> HIDE DEF e, u, r
  <2>7. SumFunctionOnSet(b, S) = SumFunctionOnSet(a, S) + f[u]
    BY ONLY ZenonT(40), <2>1, <2>5, <2>6, SumUpdate
  <2>8. SumFunctionOnSet(a, S) \in Int
    BY ONLY <2>5, <2>6, SumType
  <2> QED BY <2>2, <2>3, <2>4, <2>5, <2>7, <2>8
<1>5. SUBSET T \subseteq B
  <2> HIDE DEF B
  <2> QED BY <1>1, <1>3, <1>4, PickInduction
<1> QED BY <1>2, <1>5

\* A part of a sum of naturals is no more than the sum.
LEMMA SumPart ==
  ASSUME NEW S, IsFiniteSet(S), NEW T \in SUBSET S, NEW f, \A x \in S : f[x] \in Nat
  PROVE  SumFunctionOnSet(f, T) <= SumFunctionOnSet(f, S)
<1> DEFINE e == [x \in S |-> IF x \in T THEN f[x] ELSE 0]
<1>1. \A x \in S : e[x] \in Int /\ f[x] \in Int /\ e[x] <= f[x]
  OBVIOUS
<1>2. SumFunctionOnSet(e, S) = SumFunctionOnSet(f, T)
  BY SumExtend
<1> HIDE DEF e
<1>3. SumFunctionOnSet(e, S) <= SumFunctionOnSet(f, S)
  BY <1>1, SumMonotone
<1> QED BY <1>2, <1>3

\* n terms of the value v, and zeros.
LEMMA SumCount ==
  ASSUME NEW S, IsFiniteSet(S), NEW T \in SUBSET S, NEW v \in Nat
  PROVE  SumFunctionOnSet([x \in S |-> IF x \in T THEN v ELSE 0], S) = v * Cardinality(T)
<1> DEFINE f(s) == [x \in S |-> IF x \in s THEN v ELSE 0]
           B    == {s \in SUBSET S : SumFunctionOnSet(f(s), S) = v * Cardinality(s)}
<1>1. {} \in B
  <2>1. \A x \in S : f({})[x] = 0
    OBVIOUS
  <2> HIDE DEF f
  <2>2. SumFunctionOnSet(f({}), S) = 0
    BY <2>1, SumZero
  <2> QED BY <2>2, FS_EmptySet
<1>2. ASSUME NEW s \in SUBSET S, s # {}, s \ {Pick(s)} \in B
      PROVE  s \in B
  <2> DEFINE u == Pick(s)
             r == s \ {Pick(s)}
  <2>1. /\ u \in s /\ u \in S /\ r \in SUBSET S /\ Cardinality(s) \in Nat \ {0}
        /\ Cardinality(r) = Cardinality(s) - 1
    BY <1>2, PickFacts
  <2>2. PICK a, b : a = f(r) /\ b = f(s)
    OBVIOUS
  <2>3. SumFunctionOnSet(f(r), S) = v * Cardinality(r)
    BY <1>2
  <2>4. SumFunctionOnSet(f(s), S) = SumFunctionOnSet(f(r), S) + v
    <3>1. /\ \A x \in S : a[x] \in Int
          /\ b[u] = a[u] + v /\ \A x \in S \ {u} : b[x] = a[x]
      BY <2>1, <2>2
    <3>2. IsFiniteSet(S) /\ v \in Int
      OBVIOUS
    <3> HIDE DEF f, u, r
    <3>3. SumFunctionOnSet(b, S) = SumFunctionOnSet(a, S) + v
      BY ONLY <2>1, <3>1, <3>2, SumUpdate
    <3> QED BY <2>2, <3>3
  <2> HIDE DEF f, u, r
  <2>5. \A n \in Nat \ {0} : v * (n - 1) + v = v * n
    OBVIOUS
  <2>6. SumFunctionOnSet(f(s), S) = v * Cardinality(s)
    BY <2>1, <2>3, <2>4, <2>5
  <2> QED BY <2>6
<1>3. SUBSET S \subseteq B
  <2> HIDE DEF B
  <2> QED BY <1>1, <1>2, PickInduction
<1> QED BY <1>3

\* The order of two sums does not matter.
LEMMA SumSwap ==
  ASSUME NEW S, IsFiniteSet(S), NEW T, IsFiniteSet(T), NEW f,
         \A x \in S, y \in T : f[x][y] \in Int
  PROVE  SumFunctionOnSet([x \in S |-> SumFunctionOnSet(f[x], T)], S)
         = SumFunctionOnSet([y \in T |-> SumFunctionOnSet([x \in S |-> f[x][y]], S)], T)
<1> DEFINE row(s)    == [x \in S |-> IF x \in s THEN SumFunctionOnSet(f[x], T) ELSE 0]
           cell(s)   == [y \in T |-> [x \in S |-> IF x \in s THEN f[x][y] ELSE 0]]
           column(s) == [y \in T |-> SumFunctionOnSet(cell(s)[y], S)]
           B         == {s \in SUBSET S :
                           SumFunctionOnSet(row(s), S) = SumFunctionOnSet(column(s), T)}
<1>1. \A x \in S : SumFunctionOnSet(f[x], T) \in Int
  <2>1. TAKE x \in S
  <2>2. \A y \in T : f[x][y] \in Int
    OBVIOUS
  <2> QED BY <2>2, SumType
<1>2. \A s \in SUBSET S, y \in T : \A x \in S : cell(s)[y][x] \in Int
  OBVIOUS
<1>3. {} \in B
  <2>1. \A x \in S : row({})[x] = 0
    OBVIOUS
  <2>2. \A y \in T, x \in S : cell({})[y][x] = 0
    OBVIOUS
  <2>3. \A y \in T : column({})[y] = 0
    <3>1. TAKE y \in T
    <3> HIDE DEF cell
    <3>2. SumFunctionOnSet(cell({})[y], S) = 0
      BY <2>2, SumZero
    <3> QED BY <3>2
  <2> HIDE DEF row, column
  <2>4. SumFunctionOnSet(row({}), S) = 0 /\ SumFunctionOnSet(column({}), T) = 0
    BY <2>1, <2>3, SumZero
  <2> QED BY <2>4
<1>4. ASSUME NEW s \in SUBSET S, s # {}, s \ {Pick(s)} \in B
      PROVE  s \in B
  <2> DEFINE u == Pick(s)
             r == s \ {Pick(s)}
             v == SumFunctionOnSet(f[u], T)
  <2>1. u \in s /\ u \in S /\ r \in SUBSET S
    BY <1>4, PickFacts
  <2>2. v \in Int
    BY <1>1, <2>1
  <2>3. PICK a, b : a = row(r) /\ b = row(s)
    OBVIOUS
  <2>4. SumFunctionOnSet(row(s), S) = SumFunctionOnSet(row(r), S) + v
    <3>1. PICK n \in Int : n = v
      BY <2>2
    <3>2. /\ \A x \in S : a[x] \in Int
          /\ b[u] = a[u] + n /\ \A x \in S \ {u} : b[x] = a[x]
      BY <1>1, <2>1, <2>3, <3>1
    <3>3. IsFiniteSet(S) /\ u \in S /\ n \in Int
      BY <2>1
    <3> HIDE DEF row, u, r, v
    <3>4. SumFunctionOnSet(b, S) = SumFunctionOnSet(a, S) + n
      BY ONLY <3>2, <3>3, SumUpdate
    <3> QED BY <2>3, <3>1, <3>4
  <2>5. \A y \in T : /\ column(r)[y] \in Int /\ f[u][y] \in Int
                     /\ column(s)[y] = column(r)[y] + f[u][y]
    <3>1. TAKE y \in T
    <3>2. PICK c, k : c = cell(r)[y] /\ k = cell(s)[y]
      OBVIOUS
    <3>3. PICK n \in Int : n = f[u][y]
      BY <2>1
    <3>4. /\ \A x \in S : c[x] \in Int
          /\ k[u] = c[u] + n /\ \A x \in S \ {u} : k[x] = c[x]
      BY <2>1, <3>2, <3>3
    <3>5. IsFiniteSet(S) /\ u \in S /\ n \in Int
      BY <2>1
    <3> HIDE DEF cell, u, r
    <3>6. SumFunctionOnSet(k, S) = SumFunctionOnSet(c, S) + n
      BY ONLY <3>4, <3>5, SumUpdate
    <3>7. SumFunctionOnSet(c, S) \in Int
      BY <3>4, SumType
    <3> QED BY <3>2, <3>3, <3>6, <3>7
  <2>6. SumFunctionOnSet(column(s), T) = SumFunctionOnSet(column(r), T) + v
    <3> HIDE DEF column, u, r
    <3> QED BY <2>5, SumAdd
  <2>7. SumFunctionOnSet(row(r), S) = SumFunctionOnSet(column(r), T)
    BY <1>4
  <2> HIDE DEF row, column, v, r
  <2>8. SumFunctionOnSet(row(s), S) = SumFunctionOnSet(column(s), T)
    BY <2>4, <2>6, <2>7
  <2> QED BY <2>8
<1>5. S \in B
  <2> HIDE DEF B
  <2> QED BY <1>3, <1>4, PickInduction
<1>6. row(S) = [x \in S |-> SumFunctionOnSet(f[x], T)]
  OBVIOUS
<1>7. column(S) = [y \in T |-> SumFunctionOnSet([x \in S |-> f[x][y]], S)]
  <2>1. \A y \in T : cell(S)[y] = [x \in S |-> f[x][y]]
    OBVIOUS
  <2> QED BY <2>1
<1> HIDE DEF row, column
<1> QED BY <1>5, <1>6, <1>7

-----------------------------------------------------------------------------
(* Layers and ranks. *)

\* A set of naturals that holds 0 and every successor holds them all.
LEMMA SetOfNaturals ==
  ASSUME NEW B, 0 \in B, \A n \in Nat : n \in B => n + 1 \in B
  PROVE  Nat \subseteq B
<1> DEFINE Bad == Nat \ B
<1>1. SUFFICES ASSUME Bad # {} PROVE FALSE
  OBVIOUS
<1>2. Min(Bad) \in Bad /\ \A k \in Bad : Min(Bad) <= k
  <2>1. Bad \in SUBSET Nat
    OBVIOUS
  <2> HIDE DEF Bad
  <2> QED BY <1>1, <2>1, MinOfNaturals
<1>3. Min(Bad) \in Nat \ {0} /\ Min(Bad) - 1 \in Nat
  BY <1>2
<1>4. Min(Bad) - 1 \in B
  BY <1>2, <1>3
<1>5. (Min(Bad) - 1) + 1 \in B
  BY <1>3, <1>4
<1> QED BY <1>2, <1>3, <1>5

\* The greatest element of L below k and up to k, or 0.
Under(L, k) == Max({0} \cup {l \in L : l < k})
UpToLevel(L, k) == Max({0} \cup {l \in L : l <= k})

LEMMA UnderType ==
  ASSUME NEW L \in SUBSET Nat, NEW k \in Nat
  PROVE  /\ Under(L, k) \in 0 .. k /\ UpToLevel(L, k) \in 0 .. k
         /\ k \in L => UpToLevel(L, k) = k
         /\ k \notin L => UpToLevel(L, k) = Under(L, k)
         /\ UpToLevel(L, k) = Under(L, k + 1)
<1> DEFINE below == {l \in L : l < k}
           upto  == {l \in L : l <= k}
<1>1. /\ {0} \cup below \subseteq 0 .. k /\ {0} \cup upto \subseteq 0 .. k
      /\ k \in L => k \in upto
      /\ k \notin L => below = upto
      /\ {l \in L : l < k + 1} = upto
  <2>1. \A l \in L : l \in Nat
    OBVIOUS
  <2>2. ASSUME NEW l \in below PROVE l \in 0 .. k
    <3>1. l \in Nat /\ l < k
      BY <2>1
    <3> QED BY <3>1
  <2>3. ASSUME NEW l \in upto PROVE l \in 0 .. k
    <3>1. l \in Nat /\ l <= k
      BY <2>1
    <3> QED BY <3>1
  <2>4. 0 \in 0 .. k
    OBVIOUS
  <2>5. ASSUME k \notin L PROVE below = upto
    <3>1. \A l \in L : l < k <=> l <= k
      BY <2>1, <2>5
    <3> QED BY <3>1
  <2>6. {l \in L : l < k + 1} = upto
    <3>1. \A l \in L : l < k + 1 <=> l <= k
      BY <2>1
    <3> QED BY <3>1
  <2>7. k \in L => k \in upto
    OBVIOUS
  <2> HIDE DEF below, upto
  <2> QED BY <2>2, <2>3, <2>4, <2>5, <2>6, <2>7
<1>2. /\ Under(L, k) = Max({0} \cup below) /\ UpToLevel(L, k) = Max({0} \cup upto)
      /\ Under(L, k + 1) = Max({0} \cup upto)
  <2>1. Under(L, k + 1) = Max({0} \cup {l \in L : l < k + 1})
    BY Zenon DEF Under
  <2>2. Under(L, k) = Max({0} \cup below) /\ UpToLevel(L, k) = Max({0} \cup upto)
    BY Zenon DEF Under, UpToLevel
  <2> HIDE DEF upto
  <2> QED BY <1>1, <2>1, <2>2
<1> HIDE DEF below, upto
<1>3. ASSUME NEW M, M \subseteq 0 .. k, M # {}
      PROVE  Max(M) \in M /\ \A y \in M : Max(M) >= y
  BY <1>3, MaxOfNaturals
<1>4. Max({0} \cup below) \in 0 .. k
  BY <1>1, <1>3
<1>5. Max({0} \cup upto) \in 0 .. k /\ \A y \in {0} \cup upto : Max({0} \cup upto) >= y
  BY <1>1, <1>3
<1> QED BY <1>1, <1>2, <1>4, <1>5

\* The layers of a stake x that end at a level of L up to k add up to the
\* stake, as far as the greatest of those levels.
LEMMA LayersAddUp ==
  ASSUME NEW L, IsFiniteSet(L), L \subseteq Nat \ {0}, NEW x \in Nat, NEW k \in Nat
  PROVE  SumFunctionOnSet([l \in L |-> IF l <= k THEN Min({x, l}) - Min({x, Under(L, l)}) ELSE 0], L)
         = Min({x, UpToLevel(L, k)})
<1> DEFINE layer(l) == Min({x, l}) - Min({x, Under(L, l)})
           f(n)     == [l \in L |-> IF l <= n THEN layer(l) ELSE 0]
           B        == {n \in Nat : SumFunctionOnSet(f(n), L) = Min({x, UpToLevel(L, n)})}
<1>1. \A n \in Nat : Under(L, n) \in Nat /\ UpToLevel(L, n) \in Nat
  BY UnderType
<1>2. \A n \in Nat : Min({x, n}) = IF x <= n THEN x ELSE n
  BY MinOfPair
<1>3. \A l \in L : layer(l) \in Int
  BY <1>1, <1>2
<1>4. 0 \in B
  <2>1. \A l \in L : f(0)[l] = 0
    OBVIOUS
  <2>2. SumFunctionOnSet(f(0), L) = 0
    <3> HIDE DEF f
    <3> QED BY <2>1, SumZero
  <2>3. UpToLevel(L, 0) = 0
    BY UnderType
  <2> HIDE DEF f
  <2> QED BY <1>2, <2>2, <2>3
<1>5. ASSUME NEW n \in Nat, n \in B
      PROVE  n + 1 \in B
  <2>1. SumFunctionOnSet(f(n), L) = Min({x, UpToLevel(L, n)})
    BY <1>5
  <2>2. CASE n + 1 \in L
    <3>1. /\ \A l \in L : f(n)[l] \in Int
          /\ f(n + 1)[n + 1] = f(n)[n + 1] + layer(n + 1)
          /\ \A l \in L \ {n + 1} : f(n + 1)[l] = f(n)[l]
      <4> HIDE DEF layer
      <4> QED BY <1>3, <2>2
    <3>2. layer(n + 1) \in Int
      BY <1>3, <2>2
    <3>3. SumFunctionOnSet(f(n + 1), L) = SumFunctionOnSet(f(n), L) + layer(n + 1)
      <4> HIDE DEF f, layer
      <4> QED BY <2>2, <3>1, <3>2, SumUpdate
    <3>4. UpToLevel(L, n + 1) = n + 1 /\ UpToLevel(L, n) = Under(L, n + 1)
      BY <2>2, UnderType
    <3> HIDE DEF f
    <3>5. SumFunctionOnSet(f(n + 1), L) = Min({x, UpToLevel(L, n + 1)})
      BY <1>1, <1>2, <2>1, <3>3, <3>4
    <3> QED BY <3>5
  <2>3. CASE n + 1 \notin L
    <3>1. f(n + 1) = f(n)
      <4> HIDE DEF layer
      <4>1. \A l \in L : l <= n + 1 <=> l <= n
        BY <2>3
      <4> QED BY <4>1
    <3>2. UpToLevel(L, n + 1) = UpToLevel(L, n)
      BY <2>3, UnderType
    <3> HIDE DEF f
    <3> QED BY <2>1, <3>1, <3>2
  <2> QED BY <2>2, <2>3
<1>6. k \in B
  <2> HIDE DEF B
  <2> QED BY <1>4, <1>5, SetOfNaturals
<1> HIDE DEF layer
<1> QED BY <1>6 DEF layer

\* Of the elements of a finite set that pos tells apart, exactly m have fewer
\* than m others before them.
LEMMA RanksCount ==
  ASSUME NEW B, IsFiniteSet(B), NEW pos \in [B -> Nat],
         \A p, q \in B : pos[p] = pos[q] => p = q,
         NEW m \in Nat, m <= Cardinality(B)
  PROVE  Cardinality({p \in B : Cardinality({q \in B : pos[q] < pos[p]}) < m}) = m
<1> DEFINE before(p) == {q \in B : pos[q] < pos[p]}
           T(n)      == {p \in B : Cardinality(before(p)) < n}
           Good      == {n \in Nat : n <= Cardinality(B) => Cardinality(T(n)) = n}
<1>1. /\ Cardinality(B) \in Nat
      /\ \A p \in B : IsFiniteSet(before(p)) /\ Cardinality(before(p)) \in Nat
  <2>1. \A p \in B : before(p) \in SUBSET B
    OBVIOUS
  <2> HIDE DEF before
  <2> QED BY <2>1, FS_Subset, FS_CardinalityType
<1>2. 0 \in Good
  <2>1. T(0) = {}
    <3> HIDE DEF before
    <3> QED BY <1>1
  <2> QED BY <2>1, FS_EmptySet
<1>3. ASSUME NEW n \in Nat, n \in Good
      PROVE  n + 1 \in Good
  <2>1. SUFFICES ASSUME n + 1 <= Cardinality(B) PROVE Cardinality(T(n + 1)) = n + 1
    OBVIOUS
  <2>2. Cardinality(T(n)) = n
    BY <1>1, <1>3, <2>1
  <2>3. T(n) \in SUBSET B /\ IsFiniteSet(T(n))
    BY FS_Subset
  <2> DEFINE Left == {pos[p] : p \in B \ T(n)}
  <2>4. B \ T(n) # {}
    <3>1. T(n) # B
      <4>1. n # Cardinality(B)
        BY <1>1, <2>1
      <4> HIDE DEF T
      <4> QED BY <2>2, <4>1
    <3> QED BY <2>3, <3>1
  <2>5. PICK u \in B \ T(n) : \A p \in B \ T(n) : pos[u] <= pos[p]
    <3>1. Left \in SUBSET Nat /\ Left # {}
      <4> HIDE DEF T
      <4> QED BY <2>4
    <3>2. Min(Left) \in Left /\ \A y \in Left : Min(Left) <= y
      <4> HIDE DEF Left
      <4> QED BY <3>1, MinOfNaturals
    <3>3. PICK v \in B \ T(n) : Min(Left) = pos[v]
      <4> HIDE DEF T
      <4> QED BY <3>2
    <3>4. \A p \in B \ T(n) : pos[p] \in Left
      OBVIOUS
    <3> HIDE DEF T, Left
    <3> QED BY <3>2, <3>3, <3>4
  <2>6. \A p, q \in B : pos[p] <= pos[q] =>
          before(p) \subseteq before(q) /\ Cardinality(before(p)) <= Cardinality(before(q))
    <3>1. TAKE p, q \in B
    <3>2. HAVE pos[p] <= pos[q]
    <3>3. before(p) \in SUBSET before(q)
      BY <3>2
    <3> HIDE DEF before
    <3> QED BY <1>1, <3>3, FS_Subset
  <2>7. before(u) = T(n)
    <3>1. ASSUME NEW q \in before(u) PROVE q \in T(n)
      <4>1. q \in B /\ ~ (pos[u] <= pos[q])
        BY <2>5, <3>1
      <4> HIDE DEF T
      <4> QED BY <2>5, <4>1
    <3>2. ASSUME NEW q \in T(n) PROVE q \in before(u)
      <4>1. q \in B /\ u \in B /\ Cardinality(before(q)) < n /\ ~ (Cardinality(before(u)) < n)
        BY <2>5, <3>2
      <4>2. ~ (pos[u] <= pos[q])
        <5> HIDE DEF before
        <5> QED BY <1>1, <2>6, <4>1
      <4> QED BY <4>1, <4>2
    <3> HIDE DEF before, T
    <3> QED BY <3>1, <3>2
  <2>8. T(n + 1) = T(n) \cup {u}
    <3>1. Cardinality(before(u)) = n
      BY <2>2, <2>7
    <3>2. ASSUME NEW p \in T(n) \cup {u} PROVE p \in T(n + 1)
      <4> HIDE DEF before
      <4> QED BY <1>1, <2>5, <3>1
    <3>3. ASSUME NEW p \in T(n + 1), p # u, p \notin T(n) PROVE FALSE
      <4>1. p \in B /\ pos[u] <= pos[p] /\ pos[u] # pos[p]
        <5>1. p \in B
          OBVIOUS
        <5> HIDE DEF T
        <5> QED BY <2>5, <3>3, <5>1
      <4>2. before(u) \cup {u} \in SUBSET before(p)
        <5>1. u \in before(p)
          BY <2>5, <4>1
        <5>2. before(u) \subseteq before(p)
          BY <2>5, <2>6, <4>1
        <5> QED BY <5>1, <5>2
      <4>3. Cardinality(before(u) \cup {u}) = n + 1
        <5>1. u \notin before(u) /\ IsFiniteSet(before(u))
          <6>1. u \in B
            BY <2>5
          <6>2. IsFiniteSet(before(u))
            BY <1>1, <6>1
          <6> QED BY <6>1, <6>2
        <5> HIDE DEF before
        <5> QED BY <3>1, <5>1, FS_AddElement
      <4>4. Cardinality(before(p)) < n + 1
        BY <3>3
      <4> HIDE DEF before
      <4>5. Cardinality(before(u) \cup {u}) <= Cardinality(before(p))
        BY <1>1, <4>1, <4>2, FS_Subset
      <4> QED BY <1>1, <4>1, <4>3, <4>4, <4>5
    <3> HIDE DEF T
    <3> QED BY <3>2, <3>3
  <2>9. Cardinality(T(n) \cup {u}) = n + 1
    <3> HIDE DEF T
    <3> QED BY <2>2, <2>3, <2>5, FS_AddElement
  <2> HIDE DEF T
  <2> QED BY <2>8, <2>9
<1>4. m \in Good
  <2> HIDE DEF Good
  <2> QED BY <1>2, <1>3, SetOfNaturals
<1> QED BY <1>4
=============================================================================
