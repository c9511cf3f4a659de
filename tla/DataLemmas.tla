------------------------------- MODULE DataLemmas ------------------------------
(***************************************************************************)
(* What the proofs need to know of numbers, finite sets and sequences of   *)
(* any size: induction, enumerations in order, recursions along a          *)
(* sequence, and flattening.  The induction theorems of the library take   *)
(* an operator as parameter; these speak of sets and functions, and rest   *)
(* on the least number of a set.                                           *)
(***************************************************************************)
EXTENDS Integers, SequencesExt, FiniteSetTheorems, WellFoundedInduction, SequenceTheorems, TLAPS

\* A set of numbers has a least one.
LEMMA Least ==
  ASSUME NEW S, S \subseteq Nat, S # {}
  PROVE  \E m \in S : \A k \in S : m <= k
<1> DEFINE F == {0..n : n \in S}
<1>1. F # {} /\ F \subseteq FiniteSubsetsOf(Nat)
  <2>1. \A n \in Nat : IsFiniteSet(0..n) /\ 0..n \subseteq Nat
    BY FS_Interval
  <2> QED BY <2>1 DEF FiniteSubsetsOf
<1>2. PICK x \in F : \A y \in F : <<y, x>> \notin StrictSubsetOrdering(Nat)
  <2>1. IsWellFoundedOn(StrictSubsetOrdering(Nat), FiniteSubsetsOf(Nat))
    BY FS_StrictSubsetOrderingWellFounded
  <2> HIDE DEF F
  <2> QED BY <1>1, <2>1, WFMin
<1>3. PICK m \in S : x = 0..m
  OBVIOUS
<1>4. ASSUME NEW k \in S PROVE m <= k
  <2> SUFFICES ASSUME k < m PROVE FALSE
    OBVIOUS
  <2>1. m \in Nat /\ k \in Nat
    OBVIOUS
  <2>2. 0..k \subseteq 0..m /\ m \in 0..m /\ m \notin 0..k
    BY <2>1
  <2>3. 0..k \subseteq Nat /\ 0..m \subseteq Nat /\ 0..k # 0..m
    BY <2>1, <2>2
  <2>4. <<0..k, 0..m>> \in StrictSubsetOrdering(Nat)
    BY <2>2, <2>3 DEF StrictSubsetOrdering
  <2> QED BY <1>2, <1>3, <2>4
<1> QED BY <1>4

\* What holds of 0 and passes from each number to the next holds of all.
LEMMA Induction ==
  ASSUME NEW S, 0 \in S, \A n \in Nat : n \in S => n + 1 \in S
  PROVE  \A n \in Nat : n \in S
<1> SUFFICES ASSUME Nat \ S # {} PROVE FALSE
  OBVIOUS
<1>1. PICK m \in Nat \ S : \A k \in Nat \ S : m <= k
  BY Least
<1>2. m # 0 /\ m - 1 \in Nat /\ m - 1 \notin Nat \ S
  BY <1>1
<1>3. m - 1 \in S /\ (m - 1) + 1 = m
  BY <1>2
<1> QED BY <1>2, <1>3

--------------------------------------------------------------------------------
(* Places in an order. *)

\* The members of s before c in the order r.
Before(s, r, c) == {b \in s : <<b, c>> \in r}

StrictOrder(s, r) ==
  /\ \A a \in s : <<a, a>> \notin r
  /\ \A a, b, c \in s : <<a, b>> \in r /\ <<b, c>> \in r => <<a, c>> \in r
  /\ \A a, b \in s : a = b \/ <<a, b>> \in r \/ <<b, a>> \in r

\* The later has more before it.
LEMMA BeforeGrows ==
  ASSUME NEW s, NEW r, IsFiniteSet(s), StrictOrder(s, r), NEW b \in s, NEW c \in s, <<b, c>> \in r
  PROVE  Cardinality(Before(s, r, b)) < Cardinality(Before(s, r, c))
<1> DEFINE B == Before(s, r, b)  C == Before(s, r, c)
<1>1. B \subseteq C \ {b} /\ b \in C /\ C \subseteq s
  BY DEF Before, StrictOrder
<1> HIDE DEF B, C
<1>2. IsFiniteSet(C) /\ IsFiniteSet(C \ {b}) /\ Cardinality(C \ {b}) = Cardinality(C) - 1
  BY <1>1, FS_Subset, FS_RemoveElement
<1>3. Cardinality(B) <= Cardinality(C \ {b}) /\ IsFiniteSet(B)
  BY <1>1, <1>2, FS_Subset
<1>4. Cardinality(B) \in Nat /\ Cardinality(C) \in Nat
  BY <1>2, <1>3, FS_CardinalityType
<1>5. Cardinality(B) < Cardinality(C)
  BY <1>2, <1>3, <1>4
<1> QED BY <1>5 DEF B, C

\* One more than the number of those before it is a place for each member, and each
\* place is taken by exactly one.
LEMMA Ranking ==
  ASSUME NEW s, NEW r, IsFiniteSet(s), StrictOrder(s, r)
  PROVE  /\ Cardinality(s) \in Nat
         /\ \A c \in s : 1 + Cardinality(Before(s, r, c)) \in 1..Cardinality(s)
         /\ \A b, c \in s : Cardinality(Before(s, r, b)) = Cardinality(Before(s, r, c)) => b = c
         /\ \A i \in 1..Cardinality(s) : \E c \in s : 1 + Cardinality(Before(s, r, c)) = i
<1> DEFINE n == Cardinality(s)
           f == [c \in s |-> 1 + Cardinality(Before(s, r, c))]
<1>1. n \in Nat BY FS_CardinalityType
<1>2. ASSUME NEW c \in s
      PROVE  Cardinality(Before(s, r, c)) \in 0..(n - 1)
  <2>1. Before(s, r, c) \subseteq s \ {c}
    BY DEF Before, StrictOrder
  <2>2. IsFiniteSet(s \ {c}) /\ Cardinality(s \ {c}) = n - 1
    BY FS_RemoveElement
  <2>3. IsFiniteSet(Before(s, r, c)) /\ Cardinality(Before(s, r, c)) <= n - 1
    BY <2>1, <2>2, FS_Subset
  <2>4. Cardinality(Before(s, r, c)) \in Nat
    BY <2>3, FS_CardinalityType
  <2> HIDE DEF n
  <2> QED BY <1>1, <2>3, <2>4
<1>3. \A c \in s : 1 + Cardinality(Before(s, r, c)) \in 1..n
  <2> HIDE DEF n
  <2> QED BY <1>1, <1>2
<1>4. ASSUME NEW b \in s, NEW c \in s, Cardinality(Before(s, r, b)) = Cardinality(Before(s, r, c))
      PROVE  b = c
  <2>1. Cardinality(Before(s, r, b)) \in Int /\ Cardinality(Before(s, r, c)) \in Int
    BY <1>2
  <2>2. <<b, c>> \notin r /\ <<c, b>> \notin r
    BY <1>4, <2>1, BeforeGrows
  <2> QED BY <2>2 DEF StrictOrder
<1>5. f \in Injection(s, 1..n)
  <2>1. f \in [s -> 1..n] BY <1>3
  <2>2. ASSUME NEW b \in s, NEW c \in s, f[b] = f[c] PROVE b = c
    <3>1. 1 + Cardinality(Before(s, r, b)) = 1 + Cardinality(Before(s, r, c))
      BY <2>2
    <3>2. Cardinality(Before(s, r, b)) \in Int /\ Cardinality(Before(s, r, c)) \in Int
      BY <1>2
    <3>3. Cardinality(Before(s, r, b)) = Cardinality(Before(s, r, c))
      BY <3>1, <3>2
    <3> QED BY <1>4, <3>3
  <2> HIDE DEF f
  <2>3. DOMAIN f = s BY <2>1
  <2> QED BY <2>1, <2>2, <2>3 DEF Injection, IsInjective
<1>6. IsFiniteSet(1..n) /\ Cardinality(1..n) = n
  BY <1>1, FS_Interval
<1>7. f \in Surjection(s, 1..n)
  <2> HIDE DEF f
  <2> QED BY <1>5, <1>6, FS_Injection
<1>8. \A i \in 1..n : \E c \in s : f[c] = i
  <2> HIDE DEF f
  <2> QED BY <1>7 DEF Surjection
<1> QED BY <1>1, <1>3, <1>4, <1>8

\* There is a member for each place, and a list of them by place is in order.
LEMMA PlacesAreTaken ==
  ASSUME NEW s, NEW r, IsFiniteSet(s), StrictOrder(s, r)
  PROVE  /\ Cardinality(s) \in Nat
         /\ \A i \in 1..Cardinality(s) : \E c \in s : Cardinality(Before(s, r, c)) = i - 1
<1>1. ASSUME NEW c \in s PROVE Cardinality(Before(s, r, c)) \in Nat
  <2>1. Before(s, r, c) \subseteq s BY DEF Before
  <2> QED BY <2>1, FS_Subset, FS_CardinalityType
<1>2. ASSUME NEW i \in 1..Cardinality(s) PROVE \E c \in s : Cardinality(Before(s, r, c)) = i - 1
  <2>1. PICK c \in s : 1 + Cardinality(Before(s, r, c)) = i
    BY Ranking
  <2>2. Cardinality(Before(s, r, c)) = i - 1
    BY <1>1, <2>1
  <2> QED BY <2>2
<1>3. Cardinality(s) \in Nat
  BY Ranking
<1> QED BY <1>2, <1>3

LEMMA PlacesAreInOrder ==
  ASSUME NEW s, NEW r, IsFiniteSet(s), StrictOrder(s, r), NEW list,
         \A i \in 1..Cardinality(s) : list[i] \in s /\ Cardinality(Before(s, r, list[i])) = i - 1
  PROVE  /\ \A i, j \in 1..Cardinality(s) : i < j => <<list[i], list[j]>> \in r
         /\ \A c \in s : \E i \in 1..Cardinality(s) : list[i] = c
<1> DEFINE total == Cardinality(s)
<1>1. /\ total \in Nat
      /\ \A c \in s : 1 + Cardinality(Before(s, r, c)) \in 1..total
      /\ \A b, c \in s : Cardinality(Before(s, r, b)) = Cardinality(Before(s, r, c)) => b = c
  BY Ranking
<1>2. ASSUME NEW c \in s PROVE Cardinality(Before(s, r, c)) \in Nat
  <2>1. Before(s, r, c) \subseteq s BY DEF Before
  <2> QED BY <2>1, FS_Subset, FS_CardinalityType
<1>3. \A i \in 1..total : list[i] \in s /\ Cardinality(Before(s, r, list[i])) = i - 1
  OBVIOUS
<1> HIDE DEF total
<1>4. ASSUME NEW c \in s PROVE \E i \in 1..total : list[i] = c
  <2> DEFINE i == 1 + Cardinality(Before(s, r, c))
  <2>1. i \in 1..total BY <1>1
  <2>2. list[i] \in s /\ Cardinality(Before(s, r, list[i])) = i - 1 BY <1>3, <2>1
  <2>3. i - 1 = Cardinality(Before(s, r, c)) BY <1>2
  <2>4. list[i] = c BY <1>1, <2>2, <2>3
  <2> QED BY <2>1, <2>4
<1>5. ASSUME NEW i \in 1..total, NEW j \in 1..total, i < j
      PROVE  <<list[i], list[j]>> \in r
  <2>1. /\ list[i] \in s /\ Cardinality(Before(s, r, list[i])) = i - 1
        /\ list[j] \in s /\ Cardinality(Before(s, r, list[j])) = j - 1
    BY <1>3
  <2>2. <<list[j], list[i]>> \notin r
    <3> SUFFICES ASSUME <<list[j], list[i]>> \in r PROVE FALSE
      OBVIOUS
    <3>1. Cardinality(Before(s, r, list[j])) < Cardinality(Before(s, r, list[i]))
      BY <2>1, BeforeGrows
    <3> QED BY <1>1, <1>5, <2>1, <3>1
  <2>3. list[i] # list[j]
    BY <1>1, <1>5, <2>1
  <2> QED BY <2>1, <2>2, <2>3 DEF StrictOrder
<1> QED BY <1>4, <1>5 DEF total

\* f lists the members of s, n in number, in increasing order.
Enumerates(f, n, s) ==
  /\ f \in [1..n -> s]
  /\ \A i, j \in 1..n : i < j => f[i] < f[j]
  /\ \A c \in s : \E i \in 1..n : f[i] = c

\* The members of s, each at the place the number of lesser ones gives it.
Ascending(s) ==
  [i \in 1..Cardinality(s) |-> CHOOSE c \in s : Cardinality({b \in s : b < c}) = i - 1]

LEMMA AscendingEnumerates ==
  ASSUME NEW s \in SUBSET Int, IsFiniteSet(s)
  PROVE  /\ Cardinality(s) \in Nat /\ DOMAIN Ascending(s) = 1..Cardinality(s)
         /\ Enumerates(Ascending(s), Cardinality(s), s)
<1> DEFINE r == {p \in s \X s : p[1] < p[2]}
           list == Ascending(s)
<1>1. \A b, c \in s : <<b, c>> \in r <=> b < c
  OBVIOUS
<1>2. \A c \in s : {b \in s : b < c} = Before(s, r, c)
  <2> HIDE DEF r
  <2> QED BY <1>1 DEF Before
<1> HIDE DEF r
<1>3. StrictOrder(s, r)
  <2>1. \A a, b, c \in s : ~(a < a) /\ (a < b /\ b < c => a < c) /\ (a = b \/ a < b \/ b < a)
    OBVIOUS
  <2> QED BY <1>1, <2>1 DEF StrictOrder
<1>4. /\ Cardinality(s) \in Nat
      /\ \A i \in 1..Cardinality(s) : \E c \in s : Cardinality(Before(s, r, c)) = i - 1
  BY <1>3, PlacesAreTaken
<1>5. list = [i \in 1..Cardinality(s) |-> CHOOSE c \in s : Cardinality({b \in s : b < c}) = i - 1]
  BY DEF Ascending
<1> HIDE DEF list
<1>6. ASSUME NEW i \in 1..Cardinality(s)
      PROVE  list[i] \in s /\ Cardinality(Before(s, r, list[i])) = i - 1
  <2>1. \E c \in s : Cardinality({b \in s : b < c}) = i - 1
    BY <1>2, <1>4
  <2>2. list[i] = CHOOSE c \in s : Cardinality({b \in s : b < c}) = i - 1
    BY <1>5
  <2>3. list[i] \in s /\ Cardinality({b \in s : b < list[i]}) = i - 1
    BY <2>1, <2>2
  <2> QED BY <1>2, <2>3
<1>7. list \in [1..Cardinality(s) -> s] /\ DOMAIN list = 1..Cardinality(s)
  BY <1>5, <1>6
<1>8. /\ \A i, j \in 1..Cardinality(s) : i < j => <<list[i], list[j]>> \in r
      /\ \A c \in s : \E i \in 1..Cardinality(s) : list[i] = c
  BY <1>3, <1>6, PlacesAreInOrder
<1>9. \A i, j \in 1..Cardinality(s) : i < j => list[i] < list[j]
  BY <1>1, <1>6, <1>8
<1> QED BY <1>4, <1>7, <1>8, <1>9 DEF Enumerates, list

\* Two lists of the same members agree as far as the first goes.
LEMMA EnumerationsAgree ==
  ASSUME NEW s \in SUBSET Int, NEW m \in Nat, NEW n \in Nat,
         NEW f, NEW g, Enumerates(f, m, s), Enumerates(g, n, s)
  PROVE  \A k \in 1..m : k \in 1..n /\ f[k] = g[k]
<1> DEFINE Bad == {k \in 1..m : ~(k \in 1..n /\ f[k] = g[k])}
<1> SUFFICES ASSUME Bad # {} PROVE FALSE
  OBVIOUS
<1>1. PICK k \in Bad : \A j \in Bad : k <= j
  <2>1. Bad \subseteq Nat OBVIOUS
  <2> HIDE DEF Bad
  <2> QED BY <2>1, Least
<1>2. k \in 1..m /\ ~(k \in 1..n /\ f[k] = g[k])
  OBVIOUS
<1>3. ASSUME NEW j \in 1..m, j < k PROVE j \in 1..n /\ f[j] = g[j]
  <2>1. j \notin Bad
    <3> HIDE DEF Bad
    <3> QED BY <1>1, <1>2, <1>3
  <2> QED BY <2>1
<1> HIDE DEF Bad
<1>4. f[k] \in s /\ f[k] \in Int /\ \A i \in 1..m : f[i] \in s /\ f[i] \in Int
  BY <1>2 DEF Enumerates
<1>5. PICK j \in 1..n : g[j] = f[k]
  BY <1>4 DEF Enumerates
<1>6. k <= j
  <2> SUFFICES ASSUME j < k PROVE FALSE
    BY <1>2
  <2>1. j \in 1..m BY <1>2
  <2>2. f[j] = f[k] BY <1>3, <1>5, <2>1
  <2>3. f[j] < f[k] BY <1>2, <2>1 DEF Enumerates
  <2> QED BY <1>4, <2>2, <2>3
<1>7. k \in 1..n
  BY <1>2, <1>6
<1>8. g[k] \in s /\ g[k] \in Int /\ g[k] <= g[j]
  <2>1. g[k] \in s /\ g[k] \in Int /\ g[j] \in Int BY <1>7 DEF Enumerates
  <2>2. CASE j = k BY <2>1, <2>2
  <2>3. CASE j # k
    <3>1. k < j BY <1>2, <1>6, <2>3
    <3>2. g[k] < g[j] BY <1>7, <3>1 DEF Enumerates
    <3> QED BY <2>1, <3>2
  <2> QED BY <2>2, <2>3
<1>9. PICK i \in 1..m : f[i] = g[k]
  BY <1>8 DEF Enumerates
<1>10. k <= i
  <2> SUFFICES ASSUME i < k PROVE FALSE
    BY <1>2
  <2>1. g[i] = f[i] /\ i \in 1..n BY <1>3
  <2>2. g[i] < g[k] BY <1>7, <2>1 DEF Enumerates
  <2> QED BY <1>8, <1>9, <2>1, <2>2
<1>11. f[k] <= f[i]
  <2>1. CASE i = k BY <1>4, <2>1
  <2>2. CASE i # k
    <3>1. k < i BY <1>2, <1>10, <2>2
    <3>2. f[k] < f[i] BY <1>2, <3>1 DEF Enumerates
    <3> QED BY <1>4, <3>2
  <2> QED BY <2>1, <2>2
<1>12. f[k] = g[k]
  BY <1>4, <1>5, <1>8, <1>9, <1>11
<1> QED BY <1>2, <1>7, <1>12

\* There is one way of listing a set of numbers in increasing order.
LEMMA EnumerationIsUnique ==
  ASSUME NEW s \in SUBSET Int, NEW m \in Nat, NEW n \in Nat,
         NEW f, NEW g, Enumerates(f, m, s), Enumerates(g, n, s)
  PROVE  m = n /\ f = g
<1>1. \A k \in 1..m : k \in 1..n /\ f[k] = g[k]
  BY EnumerationsAgree
<1>2. \A k \in 1..n : k \in 1..m /\ g[k] = f[k]
  BY EnumerationsAgree
<1>3. m = n
  <2>1. m > 0 => m \in 1..n BY <1>1
  <2>2. n > 0 => n \in 1..m BY <1>2
  <2> QED BY <2>1, <2>2
<1> QED BY <1>1, <1>3 DEF Enumerates

--------------------------------------------------------------------------------
(* Recursion along a sequence. *)

\* f folds step over the sets of the first N numbers, the largest last, as
\* FoldLeft does; over their prefixes it is a recursion.
IsFold(f, N, V, base, step) ==
  /\ f \in [SUBSET (1..N) -> V]
  /\ f[{}] = base
  /\ \A x \in SUBSET (1..N) : x # {} => f[x] = step[Max(x)][f[x \ {Max(x)}]]

IsRecursion(f, N, V, base, step) ==
  /\ f \in [0..N -> V]
  /\ f[0] = base
  /\ \A n \in 1..N : f[n] = step[n][f[n - 1]]

\* The bound is the largest number of a set that holds it.
LEMMA MaxOfBounded ==
  ASSUME NEW k \in Nat, NEW S \in SUBSET (1..k), k \in S
  PROVE  Max(S) = k
<1>1. \A m \in S : m \in Nat /\ m <= k
  OBVIOUS
<1>2. \A m \in S : (\A j \in S : m >= j) => m = k
  BY <1>1
<1> QED BY <1>1, <1>2 DEF Max

\* A fold over one number more.
LEMMA FoldGrows ==
  ASSUME NEW k \in Nat, NEW V, NEW base \in V, NEW step,
         step[k + 1] \in [V -> V],
         NEW f, IsFold(f, k, V, base, step)
  PROVE  \E g : IsFold(g, k + 1, V, base, step)
<1> DEFINE T == SUBSET (1..(k + 1))
           g == [S \in T |-> IF k + 1 \in S THEN step[k + 1][f[S \ {k + 1}]] ELSE f[S]]
<1>1. ASSUME NEW S \in T, k + 1 \in S
      PROVE  /\ Max(S) = k + 1
             /\ S \ {k + 1} \in SUBSET (1..k) /\ S \ {k + 1} \in T /\ k + 1 \notin S \ {k + 1}
  <2>1. Max(S) = k + 1
    BY <1>1, MaxOfBounded
  <2>2. ASSUME NEW i \in S, i # k + 1 PROVE i \in 1..k
    <3>1. i \in 1..(k + 1)
      OBVIOUS
    <3> QED BY <2>2, <3>1
  <2> QED BY <2>1, <2>2
<1>2. ASSUME NEW S \in T, k + 1 \notin S PROVE S \in SUBSET (1..k)
  BY <1>2
<1>3. \A S \in SUBSET (1..k) : f[S] \in V
  BY DEF IsFold
<1>4. ASSUME NEW S \in T PROVE (IF k + 1 \in S THEN step[k + 1][f[S \ {k + 1}]] ELSE f[S]) \in V
  <2>1. CASE k + 1 \in S
    <3>1. f[S \ {k + 1}] \in V
      BY <1>1, <1>3, <2>1
    <3> QED BY <2>1, <3>1
  <2>2. CASE k + 1 \notin S
    BY <1>2, <1>3, <2>2
  <2> QED BY <2>1, <2>2
<1>5. g \in [T -> V]
  BY <1>4
<1>6. g[{}] = base
  <2>1. {} \in T /\ k + 1 \notin {} /\ f[{}] = base
    BY DEF IsFold
  <2> QED BY <2>1
<1>7. ASSUME NEW S \in T, S # {} PROVE g[S] = step[Max(S)][g[S \ {Max(S)}]]
  <2>1. CASE k + 1 \in S
    <3>1. g[S] = step[k + 1][f[S \ {k + 1}]]
      BY <2>1
    <3>2. g[S \ {k + 1}] = f[S \ {k + 1}]
      BY <1>1, <2>1
    <3>3. Max(S) = k + 1
      BY <1>1, <2>1
    <3> HIDE DEF g
    <3> QED BY <3>1, <3>2, <3>3
  <2>2. CASE k + 1 \notin S
    <3>1. S \in SUBSET (1..k)
      BY <1>2, <2>2
    <3>2. f[S] = step[Max(S)][f[S \ {Max(S)}]]
      BY <1>7, <3>1 DEF IsFold
    <3>3. S \ {Max(S)} \in T /\ k + 1 \notin S \ {Max(S)}
      BY <2>2
    <3>4. g[S] = f[S] /\ g[S \ {Max(S)}] = f[S \ {Max(S)}]
      BY <2>2, <3>3
    <3> HIDE DEF g
    <3> QED BY <3>2, <3>4
  <2> QED BY <2>1, <2>2
<1> HIDE DEF g
<1>8. IsFold(g, k + 1, V, base, step)
  BY <1>5, <1>6, <1>7 DEF IsFold
<1> QED BY <1>8

\* A step that is a function of values for each number can be folded.
LEMMA FoldExists ==
  ASSUME NEW N \in Nat, NEW V, NEW base \in V, NEW step \in [1..N -> [V -> V]]
  PROVE  \E f : IsFold(f, N, V, base, step)
<1> DEFINE P == {k \in Nat : k <= N => \E f : IsFold(f, k, V, base, step)}
<1>1. 0 \in P
  <2> DEFINE f == [S \in SUBSET (1..0) |-> base]
  <2>1. 1..0 = {}
    OBVIOUS
  <2>2. f \in [SUBSET (1..0) -> V]
    OBVIOUS
  <2>3. f[{}] = base
    OBVIOUS
  <2>4. \A x \in SUBSET (1..0) : x = {}
    BY <2>1
  <2> HIDE DEF f
  <2>5. IsFold(f, 0, V, base, step)
    BY <2>2, <2>3, <2>4 DEF IsFold
  <2> QED BY <2>5
<1>2. ASSUME NEW k \in Nat, k \in P PROVE k + 1 \in P
  <2> SUFFICES ASSUME k + 1 <= N PROVE \E f : IsFold(f, k + 1, V, base, step)
    OBVIOUS
  <2>1. k <= N /\ k + 1 \in 1..N
    OBVIOUS
  <2>2. PICK f : IsFold(f, k, V, base, step)
    BY <1>2, <2>1
  <2>3. step[k + 1] \in [V -> V]
    BY <2>1
  <2> QED BY <2>2, <2>3, FoldGrows
<1>3. N \in P
  <2> HIDE DEF P
  <2> QED BY <1>1, <1>2, Induction
<1> QED BY <1>3

\* Read on the prefixes, a fold is a recursion.
LEMMA RecursionExists ==
  ASSUME NEW N \in Nat, NEW V, NEW base \in V, NEW step \in [1..N -> [V -> V]]
  PROVE  \E f : IsRecursion(f, N, V, base, step)
<1>1. PICK g : IsFold(g, N, V, base, step)
  BY FoldExists
<1> DEFINE f == [n \in 0..N |-> g[1..n]]
<1>2. ASSUME NEW n \in 0..N PROVE 1..n \in SUBSET (1..N) /\ g[1..n] \in V
  <2>1. 1..n \in SUBSET (1..N)
    OBVIOUS
  <2> QED BY <1>1, <2>1 DEF IsFold
<1>3. f \in [0..N -> V]
  BY <1>2
<1>4. f[0] = base
  <2>1. 1..0 = {} /\ 0 \in 0..N
    OBVIOUS
  <2> QED BY <1>1, <2>1 DEF IsFold
<1>5. ASSUME NEW n \in 1..N PROVE f[n] = step[n][f[n - 1]]
  <2>1. n \in Nat /\ n \in 0..N /\ n - 1 \in 0..N /\ n \in 1..n
    OBVIOUS
  <2>2. Max(1..n) = n
    BY <2>1, MaxOfBounded
  <2>3. (1..n) \ {n} = 1..(n - 1)
    BY <2>1
  <2>4. 1..n # {} /\ 1..n \in SUBSET (1..N)
    BY <1>2, <2>1
  <2>5. g[1..n] = step[n][g[1..(n - 1)]]
    BY <1>1, <2>2, <2>3, <2>4 DEF IsFold
  <2> QED BY <2>1, <2>5
<1> HIDE DEF f
<1>6. IsRecursion(f, N, V, base, step)
  BY <1>3, <1>4, <1>5 DEF IsRecursion
<1> QED BY <1>6

--------------------------------------------------------------------------------
(* Sequences. *)

\* Functions on 1..n are the sequences of length n.
LEMMA FunctionIsSequence ==
  ASSUME NEW V, NEW n \in Nat, NEW f \in [1..n -> V]
  PROVE  f \in Seq(V) /\ Len(f) = n /\ DOMAIN f = 1..n
OBVIOUS

LEMMA SequenceInLarger ==
  ASSUME NEW W, NEW V \in SUBSET W, NEW f \in Seq(V)
  PROVE  f \in Seq(W) /\ \A n \in 1..Len(f) : f[n] \in V
OBVIOUS

\* The members of a concatenation.
LEMMA Concatenation ==
  ASSUME NEW V, NEW x \in Seq(V), NEW y \in Seq(V)
  PROVE  /\ x \o y \in Seq(V) /\ Len(x \o y) = Len(x) + Len(y)
         /\ Len(x) \in Nat /\ Len(y) \in Nat
         /\ \A k \in 1..Len(x) : (x \o y)[k] = x[k]
         /\ \A k \in 1..Len(y) : (x \o y)[Len(x) + k] = y[k]
OBVIOUS

--------------------------------------------------------------------------------
(* Flattening. *)

\* FlattenSeq is the concatenation one would write as a recursion.
LEMMA FlattenIs ==
  ASSUME NEW C, NEW seqs \in Seq(Seq(C)), NEW f \in [0..Len(seqs) -> Seq(C)],
         f[0] = <<>>, \A n \in 1..Len(seqs) : f[n] = f[n - 1] \o seqs[n]
  PROVE  FlattenSeq(seqs) = f[Len(seqs)]
<1>1. CASE Len(seqs) = 0
  <2>1. seqs = <<>>
    BY <1>1
  <2> QED BY <1>1, <2>1 DEF FlattenSeq
<1>2. CASE Len(seqs) # 0
  <2> DEFINE N == Len(seqs)
             Unfolds(flatten) == flatten = [i \in 1..N |-> IF i = 1 THEN seqs[i] ELSE flatten[i - 1] \o seqs[i]]
             chosen == CHOOSE flatten : Unfolds(flatten)
             g == [i \in 1..N |-> f[i]]
  <2>1. N \in Nat /\ 1 <= N /\ \A i \in 1..N : seqs[i] \in Seq(C)
    BY <1>2
  <2>2. ASSUME NEW i \in 1..N PROVE g[i] = IF i = 1 THEN seqs[i] ELSE g[i - 1] \o seqs[i]
    <3>1. CASE i = 1
      <4>1. f[i] = f[i - 1] \o seqs[i]
        OBVIOUS
      <4>2. i - 1 = 0
        BY <3>1
      <4>3. <<>> \o seqs[i] = seqs[i]
        BY <2>1
      <4> QED BY <3>1, <4>1, <4>2, <4>3
    <3>2. CASE i # 1
      <4>1. f[i] = f[i - 1] \o seqs[i]
        OBVIOUS
      <4>2. i - 1 \in 1..N
        BY <2>1, <3>2
      <4> QED BY <3>2, <4>1, <4>2
    <3> QED BY <3>1, <3>2
  <2>3. g = [i \in 1..N |-> g[i]]
    OBVIOUS
  <2>4. Unfolds(g)
    <3> HIDE DEF g
    <3> QED BY <2>2, <2>3
  <2>5. Unfolds(chosen)
    <3> HIDE DEF Unfolds
    <3> QED BY <2>4
  <2>6. FlattenSeq(seqs) = chosen[N]
    BY <1>2 DEF FlattenSeq
  <2> HIDE DEF chosen
  <2>7. ASSUME NEW i \in 1..N PROVE chosen[i] = IF i = 1 THEN seqs[i] ELSE chosen[i - 1] \o seqs[i]
    BY <2>5
  <2> DEFINE P == {n \in Nat : n + 1 <= N => chosen[n + 1] = g[n + 1]}
  <2>8. 0 \in P
    <3>1. 1 \in 1..N
      BY <2>1
    <3>2. chosen[1] = seqs[1] /\ g[1] = seqs[1]
      BY <2>2, <2>7, <3>1
    <3> HIDE DEF g
    <3> QED BY <3>2
  <2>9. ASSUME NEW n \in Nat, n \in P PROVE n + 1 \in P
    <3> SUFFICES ASSUME (n + 1) + 1 <= N PROVE chosen[(n + 1) + 1] = g[(n + 1) + 1]
      OBVIOUS
    <3>1. PICK m : m = (n + 1) + 1
      OBVIOUS
    <3>2. m \in 1..N /\ m # 1 /\ m - 1 = n + 1 /\ n + 1 <= N
      BY <2>1, <3>1
    <3>3. chosen[n + 1] = g[n + 1]
      BY <2>9, <3>2
    <3> HIDE DEF P, g
    <3>4. chosen[m] = chosen[m - 1] \o seqs[m] /\ g[m] = g[m - 1] \o seqs[m]
      BY <2>2, <2>7, <3>2
    <3> QED BY <3>1, <3>2, <3>3, <3>4
  <2>10. N - 1 \in P
    <3>1. N - 1 \in Nat
      BY <2>1
    <3> HIDE DEF P
    <3> QED BY <2>8, <2>9, <3>1, Induction
  <2>11. chosen[N] = g[N]
    <3>1. (N - 1) + 1 = N
      BY <2>1
    <3> HIDE DEF g
    <3> QED BY <2>1, <2>10, <3>1
  <2>12. g[N] = f[N]
    BY <2>1
  <2> QED BY <2>6, <2>11, <2>12
<1> QED BY <1>1, <1>2

\* One sequence more.
LEMMA FlattenGrows ==
  ASSUME NEW C, NEW seqs \in Seq(Seq(C)), NEW n \in 0..Len(seqs)
  PROVE  /\ FlattenSeq(SubSeq(seqs, 1, n)) \in Seq(C)
         /\ n = 0 => FlattenSeq(SubSeq(seqs, 1, n)) = <<>>
         /\ n # 0 => FlattenSeq(SubSeq(seqs, 1, n))
                       = FlattenSeq(SubSeq(seqs, 1, n - 1)) \o seqs[n]
<1> DEFINE N == Len(seqs)
           step == [i \in 1..N |-> [v \in Seq(C) |-> v \o seqs[i]]]
<1>1. N \in Nat /\ \A i \in 1..N : seqs[i] \in Seq(C)
  OBVIOUS
<1>2. step \in [1..N -> [Seq(C) -> Seq(C)]] /\ <<>> \in Seq(C)
  <2>1. ASSUME NEW i \in 1..N, NEW v \in Seq(C) PROVE v \o seqs[i] \in Seq(C)
    BY <1>1
  <2> QED BY <2>1
<1>3. PICK f : IsRecursion(f, N, Seq(C), <<>>, step)
  <2> HIDE DEF step, N
  <2> QED BY <1>1, <1>2, RecursionExists
<1>4. f \in [0..N -> Seq(C)] /\ f[0] = <<>>
  BY <1>3 DEF IsRecursion
<1>5. ASSUME NEW i \in 1..N PROVE f[i] = f[i - 1] \o seqs[i]
  <2>1. f[i] = step[i][f[i - 1]] /\ f[i - 1] \in Seq(C)
    <3>1. i - 1 \in 0..N
      OBVIOUS
    <3> QED BY <1>3, <1>4, <3>1 DEF IsRecursion
  <2> QED BY <2>1
<1> HIDE DEF step
<1>6. ASSUME NEW k \in 0..N PROVE FlattenSeq(SubSeq(seqs, 1, k)) = f[k]
  <2> DEFINE t == SubSeq(seqs, 1, k)
             g == [i \in 0..k |-> f[i]]
  <2>1. t \in Seq(Seq(C)) /\ Len(t) = k /\ \A i \in 1..k : t[i] = seqs[i]
    BY <1>1
  <2>2. g \in [0..k -> Seq(C)] /\ g[0] = <<>> /\ g[k] = f[k]
    BY <1>4
  <2>3. ASSUME NEW i \in 1..k PROVE g[i] = g[i - 1] \o t[i]
    <3>1. i \in 1..N /\ i - 1 \in 0..k /\ i \in 0..k
      BY <1>1
    <3>2. t[i] = seqs[i]
      BY <2>1
    <3>3. g[i] = f[i] /\ g[i - 1] = f[i - 1]
      BY <3>1
    <3> HIDE DEF g, t, N
    <3> QED BY <1>5, <3>1, <3>2, <3>3
  <2> HIDE DEF t, g
  <2>4. FlattenSeq(t) = g[Len(t)]
    BY <2>1, <2>2, <2>3, FlattenIs
  <2> QED BY <2>1, <2>2, <2>4 DEF t
<1>7. f[n] \in Seq(C) /\ (n = 0 => f[n] = <<>>)
  BY <1>4
<1>8. n # 0 => n - 1 \in 0..N /\ n \in 1..N
  BY <1>1
<1> QED BY <1>5, <1>6, <1>7, <1>8

\* Concatenation is associative.
LEMMA Associative ==
  \A S : \A x, y, z \in Seq(S) : (x \o y) \o z = x \o (y \o z)
  OBVIOUS

\* What is flattened in two parts.
LEMMA FlattenAdjacent ==
  ASSUME NEW C, NEW seqs \in Seq(Seq(C)), NEW m \in 0..Len(seqs), NEW n \in m..Len(seqs)
  PROVE  /\ FlattenSeq(SubSeq(seqs, m + 1, n)) \in Seq(C)
         /\ FlattenSeq(SubSeq(seqs, 1, n))
              = FlattenSeq(SubSeq(seqs, 1, m)) \o FlattenSeq(SubSeq(seqs, m + 1, n))
<1>1. PICK N, t : N = Len(seqs) /\ t = SubSeq(seqs, m + 1, Len(seqs))
  OBVIOUS
<1>2. /\ N \in Nat /\ m \in 0..N /\ n \in m..N /\ m \in Nat
      /\ t \in Seq(Seq(C)) /\ Len(t) = N - m /\ \A i \in 1..(N - m) : t[i] = seqs[m + i]
      /\ \A i \in 1..N : seqs[i] \in Seq(C)
  BY <1>1
<1> DEFINE Flat(k) == FlattenSeq(SubSeq(seqs, 1, k))
           Rest(k) == FlattenSeq(SubSeq(t, 1, k))
           P == {k \in Nat : k <= N - m => Flat(m + k) = Flat(m) \o Rest(k)}
<1>3. ASSUME NEW k \in 0..(N - m) PROVE Rest(k) \in Seq(C)
  BY <1>2, FlattenGrows
<1>4. ASSUME NEW k \in 0..N PROVE Flat(k) \in Seq(C)
  BY <1>1, FlattenGrows
<1>5. 0 \in P
  <2>1. PICK z : z = 0
    OBVIOUS
  <2>2. z \in 0..Len(t) /\ m + z = m
    BY <1>2, <2>1
  <2>3. Rest(z) = <<>>
    BY <1>2, <2>1, <2>2, FlattenGrows
  <2>4. Flat(m) \o <<>> = Flat(m)
    <3>1. Flat(m) \in Seq(C)
      BY <1>2, <1>4
    <3> HIDE DEF Flat
    <3> QED BY <3>1
  <2> HIDE DEF Flat, Rest
  <2> QED BY <2>1, <2>2, <2>3, <2>4
<1>6. ASSUME NEW k \in Nat, k \in P PROVE k + 1 \in P
  <2> SUFFICES ASSUME k + 1 <= N - m PROVE Flat(m + (k + 1)) = Flat(m) \o Rest(k + 1)
    OBVIOUS
  <2>1. PICK i, j : i = k + 1 /\ j = m + k + 1
    OBVIOUS
  <2>2. /\ i \in 0..Len(t) /\ i # 0 /\ i - 1 = k /\ i \in 1..(N - m)
        /\ j \in 0..N /\ j # 0 /\ j - 1 = m + k /\ m + i = j /\ m + (k + 1) = j /\ j \in 1..N
        /\ k <= N - m /\ k \in 0..(N - m)
    BY <1>2, <2>1
  <2>3. Flat(m + k) = Flat(m) \o Rest(k)
    BY <1>6, <2>2
  <2>4. Flat(j) = Flat(j - 1) \o seqs[j]
    BY <1>1, <2>2, FlattenGrows
  <2>5. Rest(i) = Rest(i - 1) \o t[i]
    BY <1>2, <2>2, FlattenGrows
  <2>6. t[i] = seqs[j] /\ seqs[j] \in Seq(C)
    BY <1>2, <2>2
  <2>7. Flat(m) \in Seq(C) /\ Rest(k) \in Seq(C)
    BY <1>2, <1>3, <1>4, <2>2
  <2> HIDE DEF Flat, Rest, P
  <2>8. (Flat(m) \o Rest(k)) \o seqs[j] = Flat(m) \o (Rest(k) \o seqs[j])
    <3>1. PICK x, y, z : x = Flat(m) /\ y = Rest(k) /\ z = seqs[j]
      OBVIOUS
    <3>2. x \in Seq(C) /\ y \in Seq(C) /\ z \in Seq(C)
      BY <2>6, <2>7, <3>1
    <3>3. (x \o y) \o z = x \o (y \o z)
      BY <3>2, Associative
    <3> QED BY <3>1, <3>3
  <2> QED BY <2>1, <2>2, <2>3, <2>4, <2>5, <2>6, <2>8
<1>7. ASSUME NEW k \in Nat PROVE k \in P
  <2> HIDE DEF P
  <2> QED BY <1>5, <1>6, Induction
<1>8. PICK k : k = n - m
  OBVIOUS
<1>9. k \in Nat /\ k <= N - m /\ m + k = n /\ k \in 0..(N - m)
  BY <1>2, <1>8
<1>10. Flat(n) = Flat(m) \o Rest(k)
  BY <1>7, <1>9
<1>11. SubSeq(t, 1, k) = SubSeq(seqs, m + 1, n)
  <2>1. /\ SubSeq(t, 1, k) \in Seq(Seq(C)) /\ Len(SubSeq(t, 1, k)) = k
        /\ \A i \in 1..k : SubSeq(t, 1, k)[i] = t[i]
    BY <1>2, <1>9
  <2>2. /\ SubSeq(seqs, m + 1, n) \in Seq(Seq(C)) /\ Len(SubSeq(seqs, m + 1, n)) = k
        /\ \A i \in 1..k : SubSeq(seqs, m + 1, n)[i] = seqs[m + i]
    BY <1>1, <1>2, <1>9
  <2>3. \A i \in 1..k : SubSeq(t, 1, k)[i] = SubSeq(seqs, m + 1, n)[i]
    BY <1>2, <1>9, <2>1, <2>2
  <2> QED BY <2>1, <2>2, <2>3, SeqEqual
<1>12. Rest(k) \in Seq(C)
  BY <1>3, <1>9
<1> QED BY <1>10, <1>11, <1>12

\* What is chosen has the members of seqs that f lists, n of them, and the others, those
\* outside s, are empty.
LeavesOut(chosen, seqs, f, n, s) ==
  /\ Len(chosen) = n /\ \A i \in 1..n : chosen[i] = seqs[f[i]]
  /\ \A i \in 1..Len(seqs) : i \notin s => seqs[i] = <<>>

\* Empty sequences can be left out of what is flattened.
LEMMA FlattenSkips ==
  ASSUME NEW C, NEW seqs \in Seq(Seq(C)), NEW s \in SUBSET (1..Len(seqs)),
         NEW n \in Nat, NEW f, Enumerates(f, n, s),
         NEW chosen \in Seq(Seq(C)), LeavesOut(chosen, seqs, f, n, s)
  PROVE  FlattenSeq(chosen) = FlattenSeq(seqs)
<1> DEFINE N == Len(seqs)
           All(i) == FlattenSeq(SubSeq(seqs, 1, i))
           Some(k) == FlattenSeq(SubSeq(chosen, 1, k))
           UpTo(k, i) == \A m \in 1..n : m <= k <=> f[m] <= i
           P == {i \in Nat : i <= N => \A k \in 0..n : UpTo(k, i) => Some(k) = All(i)}
<1>0. /\ Len(chosen) = n /\ \A i \in 1..n : chosen[i] = seqs[f[i]]
      /\ \A i \in 1..N : i \notin s => seqs[i] = <<>>
  BY DEF LeavesOut
<1>1. /\ N \in Nat /\ \A i \in 1..N : seqs[i] \in Seq(C)
      /\ \A m \in 1..n : f[m] \in s /\ f[m] \in 1..N
      /\ \A m, k \in 1..n : m < k => f[m] < f[k]
      /\ \A i \in s : \E m \in 1..n : f[m] = i
  <2>1. N \in Nat /\ \A i \in 1..N : seqs[i] \in Seq(C) OBVIOUS
  <2>2. \A m \in 1..n : f[m] \in s /\ f[m] \in 1..N BY DEF Enumerates
  <2>3. \A m, k \in 1..n : m < k => f[m] < f[k] BY DEF Enumerates
  <2>4. \A i \in s : \E m \in 1..n : f[m] = i BY DEF Enumerates
  <2> HIDE DEF N
  <2> QED BY <2>1, <2>2, <2>3, <2>4
<1>2. ASSUME NEW i \in 0..N
      PROVE  All(i) \in Seq(C) /\ (i = 0 => All(i) = <<>>) /\ (i # 0 => All(i) = All(i - 1) \o seqs[i])
  BY FlattenGrows
<1>3. ASSUME NEW k \in 0..n
      PROVE  Some(k) \in Seq(C) /\ (k = 0 => Some(k) = <<>>) /\ (k # 0 => Some(k) = Some(k - 1) \o chosen[k])
  <2>1. k \in 0..Len(chosen) BY <1>0
  <2> QED BY <2>1, FlattenGrows
<1> HIDE DEF All, Some
<1>4. 0 \in P
  <2> SUFFICES ASSUME NEW k \in 0..n, UpTo(k, 0) PROVE Some(k) = All(0)
    OBVIOUS
  <2>1. k = 0
    <3> SUFFICES ASSUME k # 0 PROVE FALSE
      OBVIOUS
    <3>1. k \in 1..n /\ k <= k OBVIOUS
    <3>2. f[k] <= 0 BY <3>1
    <3> QED BY <1>1, <3>1, <3>2
  <2>2. 0 \in 0..N BY <1>1
  <2> QED BY <1>2, <1>3, <2>1, <2>2
<1>5. ASSUME NEW i \in Nat, i \in P PROVE i + 1 \in P
  <2> SUFFICES ASSUME i + 1 <= N, NEW k \in 0..n, UpTo(k, i + 1) PROVE Some(k) = All(i + 1)
    <3> HIDE DEF UpTo
    <3>1. i + 1 \in Nat OBVIOUS
    <3> QED BY <3>1
  <2>1. PICK j : j = i + 1 OBVIOUS
  <2>2. j \in 0..N /\ j # 0 /\ j - 1 = i /\ j \in 1..N /\ i \in 0..N BY <1>1, <2>1
  <2>3. \A h \in 0..n : UpTo(h, i) => Some(h) = All(i) BY <1>5, <2>2
  <2>4. All(j) = All(i) \o seqs[j] /\ All(i) \in Seq(C) BY <1>2, <2>2
  <2>5. \A m \in 1..n : m <= k <=> f[m] <= j BY <2>1
  <2>6. \A m \in 1..n : f[m] \in Nat BY <1>1
  <2> HIDE DEF P
  <2>7. CASE j \in s
    <3>1. PICK m \in 1..n : f[m] = j BY <1>1, <2>7
    <3>2. m <= k BY <2>2, <2>5, <3>1
    <3>3. m = k
      <4> SUFFICES ASSUME m < k PROVE FALSE
        BY <3>2
      <4>1. k \in 1..n OBVIOUS
      <4>2. f[m] < f[k] /\ f[k] <= j BY <1>1, <2>5, <4>1
      <4> QED BY <2>2, <2>6, <3>1, <4>1, <4>2
    <3>4. UpTo(k - 1, i)
      <4> SUFFICES ASSUME NEW h \in 1..n PROVE h <= k - 1 <=> f[h] <= i
        OBVIOUS
      <4>1. CASE h <= k - 1
        <5>1. h < m BY <3>3, <4>1
        <5>2. f[h] < f[m] BY <1>1, <5>1
        <5> QED BY <2>2, <2>6, <3>1, <4>1, <5>2
      <4>2. CASE ~(h <= k - 1)
        <5>1. CASE h = m BY <2>2, <3>1, <4>2, <5>1
        <5>2. CASE h # m
          <6>1. m < h BY <3>3, <4>2, <5>2
          <6>2. f[m] < f[h] BY <1>1, <6>1
          <6> QED BY <2>2, <2>6, <3>1, <4>2, <6>2
        <5> QED BY <5>1, <5>2
      <4> QED BY <4>1, <4>2
    <3>5. k - 1 \in 0..n /\ k # 0 BY <3>3
    <3> HIDE DEF UpTo
    <3>6. Some(k - 1) = All(i) BY <2>3, <3>4, <3>5
    <3>7. Some(k) = Some(k - 1) \o chosen[k] BY <1>3, <3>5
    <3>8. chosen[k] = seqs[j] BY <1>0, <3>1, <3>3
    <3> QED BY <2>1, <2>4, <3>6, <3>7, <3>8
  <2>8. CASE j \notin s
    <3>1. seqs[j] = <<>> BY <1>0, <2>2, <2>8
    <3>2. UpTo(k, i)
      <4> SUFFICES ASSUME NEW h \in 1..n PROVE h <= k <=> f[h] <= i
        OBVIOUS
      <4>1. f[h] # j /\ f[h] \in Nat BY <1>1, <2>6, <2>8
      <4>2. h <= k <=> f[h] <= j BY <2>5
      <4> QED BY <2>2, <4>1, <4>2
    <3> HIDE DEF UpTo
    <3>3. Some(k) = All(i) BY <2>3, <3>2
    <3>4. \A x \in Seq(C) : x \o <<>> = x OBVIOUS
    <3> QED BY <2>1, <2>4, <3>1, <3>3, <3>4
  <2> QED BY <2>7, <2>8
<1>6. N \in P
  <2> HIDE DEF P, N
  <2> QED BY <1>1, <1>4, <1>5, Induction
<1>7. Some(n) = All(N)
  <2>1. \A m \in 1..n : m <= n <=> f[m] <= N
    BY <1>1
  <2>2. N <= N /\ n \in 0..n BY <1>1
  <2> QED BY <1>6, <2>1, <2>2
<1>8. SubSeq(seqs, 1, N) = seqs /\ SubSeq(chosen, 1, n) = chosen
  BY <1>0, SubSeqFull
<1> QED BY <1>7, <1>8 DEF All, Some
================================================================================
