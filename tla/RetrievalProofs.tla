-------------------------- MODULE RetrievalProofs --------------------------
(***************************************************************************)
(* What holds of HybridRetrieval for any chunks, documents, batch size and *)
(* bounds, and any changes of the database beside the request.             *)
(*                                                                         *)
(* Argument.  The key by which the records are sorted is a strict total    *)
(* order, so that the place of a record is the number of those before it   *)
(* and no place is taken twice; and a record that both sources rank at     *)
(* least as high as another comes before it, because no score of it is     *)
(* less.  The load, whatever the batches, has at its end collected exactly *)
(* the candidates that are eligible in the snapshot, which is one of the   *)
(* states since the providers answered.                                    *)
(***************************************************************************)
EXTENDS HybridRetrieval, DataLemmas

(* Fractions. *)

Positive == Nat \ {0}
Fractions == [num : Positive, den : Positive]

\* Products of positive numbers.
LEMMA Products ==
  /\ \A a, b \in Positive : a * b \in Positive
  /\ \A a, b \in Positive : a + b \in Positive
BY SMT DEF Positive

\* A positive factor keeps and reflects the order.
LEMMA Scaling ==
  ASSUME NEW a \in Positive, NEW b \in Positive, NEW k \in Positive
  PROVE  /\ a < b <=> a * k < b * k
         /\ a <= b <=> a * k <= b * k
         /\ a * k = k * a
<1>1. a \in Nat /\ b \in Nat /\ k \in Nat /\ k > 0
  BY DEF Positive
<1>2. a < b => a * k < b * k
  <2>1. ASSUME a < b PROVE a * k < b * k
    <3>1. PICK d \in Nat : b = a + d /\ d > 0
      <4>1. b - a \in Nat /\ b = a + (b - a) /\ b - a > 0 BY <1>1, <2>1
      <4> QED BY <4>1
    <3>2. b * k = a * k + d * k BY <1>1, <3>1
    <3>3. d * k > 0 BY <1>1, <3>1
    <3>4. a * k \in Nat /\ d * k \in Nat BY <1>1, <3>1
    <3> QED BY <3>2, <3>3, <3>4
  <2> QED BY <2>1
<1>3. b < a => b * k < a * k
  <2>1. ASSUME b < a PROVE b * k < a * k
    <3>1. PICK d \in Nat : a = b + d /\ d > 0
      <4>1. a - b \in Nat /\ a = b + (a - b) /\ a - b > 0 BY <1>1, <2>1
      <4> QED BY <4>1
    <3>2. a * k = b * k + d * k BY <1>1, <3>1
    <3>3. d * k > 0 BY <1>1, <3>1
    <3>4. b * k \in Nat /\ d * k \in Nat BY <1>1, <3>1
    <3> QED BY <3>2, <3>3, <3>4
  <2> QED BY <2>1
<1>4. a = b => a * k = b * k OBVIOUS
<1>5. a * k \in Nat /\ b * k \in Nat /\ a * k = k * a BY <1>1
<1> QED BY <1>1, <1>2, <1>3, <1>4, <1>5

\* Fractions are compared as their values are: the order is strict, and what is not
\* less passes on.
LEMMA ExceedsOrders ==
  ASSUME NEW x \in Fractions, NEW y \in Fractions, NEW z \in Fractions
  PROVE  /\ ~(Exceeds(x, y) /\ Exceeds(y, x))
         /\ ~Exceeds(x, x)
         /\ Exceeds(x, y) /\ ~Exceeds(z, y) => Exceeds(x, z)
         /\ ~Exceeds(y, x) /\ Exceeds(y, z) => Exceeds(x, z)
         /\ ~Exceeds(x, y) /\ ~Exceeds(y, z) => ~Exceeds(x, z)
<1> DEFINE a == x.num  b == x.den  c == y.num  d == y.den  e == z.num  f == z.den
<1>1. /\ a \in Positive /\ b \in Positive /\ c \in Positive /\ d \in Positive
      /\ e \in Positive /\ f \in Positive
  BY DEF Fractions
<1>2. /\ Exceeds(x, y) <=> c * b < a * d
      /\ Exceeds(y, x) <=> a * d < c * b
      /\ Exceeds(y, z) <=> e * d < c * f
      /\ Exceeds(z, y) <=> c * f < e * d
      /\ Exceeds(x, z) <=> e * b < a * f
      /\ Exceeds(x, x) <=> a * b < a * b
  <2>1. a * d \in Int /\ c * b \in Int /\ e * d \in Int /\ c * f \in Int /\ e * b \in Int /\ a * f \in Int
        /\ a * b \in Int
    BY <1>1, Products DEF Positive
  <2> QED BY <2>1 DEF Exceeds
<1> HIDE DEF a, b, c, d, e, f
<1>3. /\ a * d \in Positive /\ c * b \in Positive /\ e * d \in Positive /\ c * f \in Positive
      /\ e * b \in Positive /\ a * f \in Positive /\ a * b \in Positive
  BY <1>1, Products
<1>4. /\ c * b < a * d <=> (c * b) * f < (a * d) * f
      /\ a * d < c * b <=> (a * d) * f < (c * b) * f
      /\ e * d < c * f <=> (e * d) * b < (c * f) * b
      /\ c * f < e * d <=> (c * f) * b < (e * d) * b
      /\ e * b < a * f <=> (e * b) * d < (a * f) * d
  BY <1>1, <1>3, Scaling
<1>5. (c * b) * f = (c * f) * b /\ (a * d) * f = (a * f) * d /\ (e * d) * b = (e * b) * d
  BY <1>1 DEF Positive
<1>6. /\ (c * b) * f \in Positive /\ (a * d) * f \in Positive /\ (e * d) * b \in Positive
  BY <1>1, <1>3, Products
<1> DEFINE p == (a * d) * f  q == (c * b) * f  r == (e * d) * b
<1>7. p \in Int /\ q \in Int /\ r \in Int
  BY <1>6 DEF Positive
<1>8. /\ Exceeds(x, y) <=> q < p
      /\ Exceeds(y, x) <=> p < q
      /\ Exceeds(y, z) <=> r < q
      /\ Exceeds(z, y) <=> q < r
      /\ Exceeds(x, z) <=> r < p
  BY <1>2, <1>4, <1>5
<1>9. ~Exceeds(x, x)
  <2>1. a * b \in Int BY <1>3 DEF Positive
  <2> QED BY <1>2, <2>1
<1> HIDE DEF p, q, r
<1> QED BY <1>7, <1>8, <1>9

\* A sum is a fraction, no less than either part or than a sum of no greater parts.
LEMMA PlusGrows ==
  ASSUME NEW x \in Fractions, NEW y \in Fractions
  PROVE  /\ Plus(x, y) \in Fractions
         /\ ~Exceeds(x, Plus(x, y))
         /\ ~Exceeds(y, Plus(x, y))
<1> DEFINE a == x.num  b == x.den  c == y.num  d == y.den
<1>1. a \in Positive /\ b \in Positive /\ c \in Positive /\ d \in Positive
  BY DEF Fractions
<1>2. Plus(x, y) = [num |-> a * d + c * b, den |-> b * d]
  BY DEF Plus
<1> HIDE DEF a, b, c, d
<1>3. a * d + c * b \in Positive /\ b * d \in Positive
  BY <1>1, Products
<1>4. Plus(x, y) \in Fractions
  BY <1>2, <1>3 DEF Fractions
<1>5. Plus(x, y).num = a * d + c * b /\ Plus(x, y).den = b * d
  BY <1>2
<1>6. /\ (a * d + c * b) * b = a * (b * d) + (c * b) * b
      /\ (a * d + c * b) * d = c * (b * d) + (a * d) * d
  BY <1>1 DEF Positive
<1>7. /\ a * (b * d) \in Positive /\ (c * b) * b \in Positive
      /\ c * (b * d) \in Positive /\ (a * d) * d \in Positive
  BY <1>1, Products
<1>8. /\ ~((a * d + c * b) * b < a * (b * d))
      /\ ~((a * d + c * b) * d < c * (b * d))
  BY <1>6, <1>7 DEF Positive
<1>9. /\ (a * d + c * b) * b \in Int /\ (a * d + c * b) * d \in Int
      /\ a * (b * d) \in Int /\ c * (b * d) \in Int
  BY <1>6, <1>7 DEF Positive
<1> QED BY <1>4, <1>5, <1>8, <1>9 DEF Exceeds, a, b, c, d

\* Sums keep the order of their parts.
LEMMA PlusOrders ==
  ASSUME NEW x \in Fractions, NEW y \in Fractions, NEW u \in Fractions, NEW v \in Fractions,
         ~Exceeds(u, x), ~Exceeds(v, y)
  PROVE  ~Exceeds(Plus(u, v), Plus(x, y))
<1> DEFINE a == x.num  b == x.den  c == y.num  d == y.den
           e == u.num  f == u.den  g == v.num  h == v.den
<1>1. /\ a \in Positive /\ b \in Positive /\ c \in Positive /\ d \in Positive
      /\ e \in Positive /\ f \in Positive /\ g \in Positive /\ h \in Positive
  BY DEF Fractions
<1>2. /\ Plus(x, y).num = a * d + c * b /\ Plus(x, y).den = b * d
      /\ Plus(u, v).num = e * h + g * f /\ Plus(u, v).den = f * h
  BY DEF Plus
<1>3. /\ ~(e * b > a * f)
      /\ ~(g * d > c * h)
  BY DEF Exceeds
<1> HIDE DEF a, b, c, d, e, f, g, h
<1>4. /\ e * b \in Positive /\ a * f \in Positive /\ g * d \in Positive /\ c * h \in Positive
      /\ d * h \in Positive /\ b * f \in Positive
  BY <1>1, Products
<1>5. e * b <= a * f /\ g * d <= c * h
  BY <1>3, <1>4 DEF Positive
<1>6. (e * b) * (d * h) <= (a * f) * (d * h) /\ (g * d) * (b * f) <= (c * h) * (b * f)
  BY <1>4, <1>5, Scaling
<1>7. /\ (e * h) * (b * d) = (e * b) * (d * h) /\ (g * f) * (b * d) = (g * d) * (b * f)
      /\ (a * d) * (f * h) = (a * f) * (d * h) /\ (c * b) * (f * h) = (c * h) * (b * f)
  BY <1>1 DEF Positive
<1>8. /\ e * h \in Int /\ g * f \in Int /\ a * d \in Int /\ c * b \in Int /\ b * d \in Int /\ f * h \in Int
  BY <1>1 DEF Positive
<1>9. /\ (e * h + g * f) * (b * d) = (e * h) * (b * d) + (g * f) * (b * d)
      /\ (a * d + c * b) * (f * h) = (a * d) * (f * h) + (c * b) * (f * h)
  BY <1>8
<1>10. /\ (e * b) * (d * h) \in Int /\ (a * f) * (d * h) \in Int
       /\ (g * d) * (b * f) \in Int /\ (c * h) * (b * f) \in Int
  BY <1>4 DEF Positive
<1>11. (e * h + g * f) * (b * d) <= (a * d + c * b) * (f * h)
  BY <1>6, <1>7, <1>9, <1>10
<1>12. (e * h + g * f) * (b * d) \in Int /\ (a * d + c * b) * (f * h) \in Int
  BY <1>8
<1>13. ~((e * h + g * f) * (b * d) > (a * d + c * b) * (f * h))
  BY <1>11, <1>12
<1> QED BY <1>2, <1>13 DEF Exceeds

--------------------------------------------------------------------------
(* The sort key. *)

RankMaps == {f \in UNION {[s -> 1..MaxProvider] : s \in SUBSET Chunks} : Injective(f)}

\* What a rank map is, and the rank of a chunk in it.
LEMMA RankMapType ==
  ASSUME NEW f \in RankMaps
  PROVE  /\ DOMAIN f \subseteq Chunks /\ f \in [DOMAIN f -> 1..MaxProvider] /\ Injective(f)
         /\ \A c \in Chunks : RankIn(f, c) \in 1..AbsentRank
         /\ \A c \in Chunks : c \in DOMAIN f <=> RankIn(f, c) <= MaxProvider
<1>1. PICK s \in SUBSET Chunks : f \in [s -> 1..MaxProvider]
  BY DEF RankMaps
<1>2. Injective(f) BY DEF RankMaps
<1>3. MaxProvider \in Nat /\ AbsentRank = MaxProvider + 1
  BY FusionAssumption DEF AbsentRank
<1>4. ASSUME NEW c \in Chunks
      PROVE  RankIn(f, c) \in 1..AbsentRank /\ (c \in DOMAIN f <=> RankIn(f, c) <= MaxProvider)
  <2>1. CASE c \in s
    <3>1. RankIn(f, c) = f[c] /\ f[c] \in 1..MaxProvider BY <1>1, <2>1 DEF RankIn
    <3> QED BY <1>1, <1>3, <2>1, <3>1
  <2>2. CASE c \notin s
    <3>1. RankIn(f, c) = AbsentRank BY <1>1, <2>2 DEF RankIn
    <3> QED BY <1>1, <1>3, <2>2, <3>1
  <2> QED BY <2>1, <2>2
<1> QED BY <1>1, <1>2, <1>4

\* A chunk that a source found.
Found(keyword, dense) == {c \in Chunks : c \in DOMAIN keyword \/ c \in DOMAIN dense}

\* A better rank has the greater reciprocal.
LEMMA Reciprocals ==
  ASSUME NEW i \in 1..MaxProvider, NEW j \in 1..MaxProvider
  PROVE  /\ Reciprocal(i) \in Fractions
         /\ i <= j => ~Exceeds(Reciprocal(j), Reciprocal(i))
<1>1. RrfK \in Nat /\ MaxProvider \in Nat /\ i \in Nat /\ j \in Nat /\ i > 0
  BY FusionAssumption
<1>2. RrfK + i \in Positive /\ RrfK + j \in Positive /\ 1 \in Positive
  BY <1>1 DEF Positive
<1>3. Reciprocal(i).num = 1 /\ Reciprocal(i).den = RrfK + i
      /\ Reciprocal(j).num = 1 /\ Reciprocal(j).den = RrfK + j
  BY DEF Reciprocal
<1>4. Exceeds(Reciprocal(j), Reciprocal(i)) <=> 1 * (RrfK + i) > 1 * (RrfK + j)
  BY <1>3 DEF Exceeds
<1>5. i <= j => ~(1 * (RrfK + i) > 1 * (RrfK + j))
  BY <1>1
<1> QED BY <1>2, <1>4, <1>5 DEF Fractions, Reciprocal

\* Every chunk found has a score.
LEMMA ScoreIsFraction ==
  ASSUME NEW keyword \in RankMaps, NEW dense \in RankMaps, NEW c \in Found(keyword, dense)
  PROVE  Score(keyword, dense, c) \in Fractions
<1>1. /\ c \in DOMAIN keyword => Reciprocal(keyword[c]) \in Fractions
      /\ c \in DOMAIN dense => Reciprocal(dense[c]) \in Fractions
  BY RankMapType, Reciprocals
<1>2. CASE c \in DOMAIN keyword /\ c \in DOMAIN dense
  <2>1. Score(keyword, dense, c) = Plus(Reciprocal(keyword[c]), Reciprocal(dense[c]))
    BY <1>2 DEF Score
  <2> QED BY <1>1, <1>2, <2>1, PlusGrows
<1>3. CASE c \in DOMAIN keyword /\ c \notin DOMAIN dense
  BY <1>1, <1>3 DEF Score
<1>4. CASE c \notin DOMAIN keyword /\ c \in DOMAIN dense
  BY <1>1, <1>4 DEF Score
<1> QED BY <1>2, <1>3, <1>4 DEF Found

\* A chunk that both sources rank at least as high has no smaller score.
LEMMA ScoreFollowsRanks ==
  ASSUME NEW keyword \in RankMaps, NEW dense \in RankMaps,
         NEW b \in Found(keyword, dense), NEW c \in Found(keyword, dense),
         RankIn(keyword, b) <= RankIn(keyword, c), RankIn(dense, b) <= RankIn(dense, c)
  PROVE  ~Exceeds(Score(keyword, dense, c), Score(keyword, dense, b))
<1>1. b \in Chunks /\ c \in Chunks BY DEF Found
<1>2. ASSUME NEW f \in RankMaps, RankIn(f, b) <= RankIn(f, c), c \in DOMAIN f
      PROVE  /\ b \in DOMAIN f /\ Reciprocal(f[b]) \in Fractions /\ Reciprocal(f[c]) \in Fractions
             /\ ~Exceeds(Reciprocal(f[c]), Reciprocal(f[b]))
  <2>1. RankIn(f, c) \in 1..AbsentRank /\ RankIn(f, b) \in 1..AbsentRank /\ RankIn(f, c) <= MaxProvider
    BY <1>1, <1>2, RankMapType
  <2>2. AbsentRank \in Nat /\ MaxProvider \in Nat
    BY FusionAssumption DEF AbsentRank
  <2>3. RankIn(f, b) <= MaxProvider
    BY <1>2, <2>1, <2>2
  <2>4. b \in DOMAIN f
    BY <1>1, <2>3, RankMapType
  <2>5. f[b] <= f[c] /\ f[b] \in 1..MaxProvider /\ f[c] \in 1..MaxProvider
    BY <1>2, <2>4, RankMapType DEF RankIn
  <2> QED BY <2>4, <2>5, Reciprocals
<1> DEFINE kb == Reciprocal(keyword[b])  kc == Reciprocal(keyword[c])
           ds == Reciprocal(dense[b])  dc == Reciprocal(dense[c])
<1>3. c \in DOMAIN keyword => /\ b \in DOMAIN keyword /\ kb \in Fractions /\ kc \in Fractions
                              /\ ~Exceeds(kc, kb)
  BY <1>2
<1>4. c \in DOMAIN dense => /\ b \in DOMAIN dense /\ ds \in Fractions /\ dc \in Fractions
                            /\ ~Exceeds(dc, ds)
  BY <1>2
<1>5. /\ b \in DOMAIN keyword => kb \in Fractions
      /\ b \in DOMAIN dense => ds \in Fractions
  BY RankMapType, Reciprocals
<1>6. Score(keyword, dense, b) = IF b \in DOMAIN keyword /\ b \in DOMAIN dense THEN Plus(kb, ds)
                                 ELSE IF b \in DOMAIN keyword THEN kb ELSE ds
  BY DEF Score, Found
<1>7. Score(keyword, dense, c) = IF c \in DOMAIN keyword /\ c \in DOMAIN dense THEN Plus(kc, dc)
                                 ELSE IF c \in DOMAIN keyword THEN kc ELSE dc
  BY DEF Score, Found
<1>8. c \in DOMAIN keyword \/ c \in DOMAIN dense
  BY DEF Found
<1> HIDE DEF kb, kc, ds, dc
<1>9. CASE c \in DOMAIN keyword /\ c \in DOMAIN dense
  BY <1>3, <1>4, <1>6, <1>7, <1>9, PlusOrders
<1>10. CASE c \in DOMAIN keyword /\ c \notin DOMAIN dense
  <2>1. b \in DOMAIN dense => Plus(kb, ds) \in Fractions /\ ~Exceeds(kb, Plus(kb, ds))
    BY <1>3, <1>5, <1>10, PlusGrows
  <2>2. b \in DOMAIN dense => ~Exceeds(kc, Plus(kb, ds))
    BY <1>3, <1>10, <2>1, ExceedsOrders
  <2> QED BY <1>3, <1>6, <1>7, <1>10, <2>2
<1>11. CASE c \notin DOMAIN keyword /\ c \in DOMAIN dense
  <2>1. b \in DOMAIN keyword => Plus(kb, ds) \in Fractions /\ ~Exceeds(ds, Plus(kb, ds))
    BY <1>4, <1>5, <1>11, PlusGrows
  <2>2. b \in DOMAIN keyword => ~Exceeds(dc, Plus(kb, ds))
    BY <1>4, <1>11, <2>1, ExceedsOrders
  <2> QED BY <1>4, <1>6, <1>7, <1>11, <2>2
<1> QED BY <1>8, <1>9, <1>10, <1>11

\* The components are natural numbers.
LEMMA TieType ==
  ASSUME NEW keyword \in RankMaps, NEW dense \in RankMaps, NEW c \in Chunks
  PROVE  /\ BestRank(keyword, dense, c) \in Nat /\ RankIn(keyword, c) \in Nat /\ RankIn(dense, c) \in Nat
         /\ c \in Nat
<1>1. RankIn(keyword, c) \in 1..AbsentRank /\ RankIn(dense, c) \in 1..AbsentRank
  BY RankMapType
<1>2. AbsentRank \in Nat BY FusionAssumption DEF AbsentRank
<1>3. RankIn(keyword, c) \in Nat /\ RankIn(dense, c) \in Nat
  BY <1>1, <1>2
<1> QED BY <1>3, RetrievalAssumption DEF BestRank

\* The order of the last four components of the key, written out.
LEMMA LessOrders ==
  ASSUME NEW keyword \in RankMaps, NEW dense \in RankMaps, NEW u \in Chunks, NEW v \in Chunks
  PROVE  LET M(c) == BestRank(keyword, dense, c)
             K(c) == RankIn(keyword, c)
             D(c) == RankIn(dense, c)
         IN Lexicographic(Tie(keyword, dense, u), Tie(keyword, dense, v)) <=>
              \/ M(u) < M(v)
              \/ M(u) = M(v) /\ K(u) < K(v)
              \/ M(u) = M(v) /\ K(u) = K(v) /\ D(u) < D(v)
              \/ M(u) = M(v) /\ K(u) = K(v) /\ D(u) = D(v) /\ u < v
<1> DEFINE a1 == BestRank(keyword, dense, u)  a2 == RankIn(keyword, u)  a3 == RankIn(dense, u)
           b1 == BestRank(keyword, dense, v)  b2 == RankIn(keyword, v)  b3 == RankIn(dense, v)
           x == Tie(keyword, dense, u)  y == Tie(keyword, dense, v)
           At(i) == x[i] < y[i] /\ \A j \in 1..(i - 1) : x[j] = y[j]
<1>1. x = <<a1, a2, a3, u>> /\ y = <<b1, b2, b3, v>>
  BY DEF Tie
<1>2. Lexicographic(x, y) <=> \E i \in DOMAIN x : At(i)
  BY DEF Lexicographic
<1> HIDE DEF a1, a2, a3, b1, b2, b3, x, y
<1>3. DOMAIN x = {1, 2, 3, 4}
  BY <1>1
<1>4. Lexicographic(x, y) <=> At(1) \/ At(2) \/ At(3) \/ At(4)
  BY <1>2, <1>3
<1>5. 1..(1 - 1) = {} /\ 1..(2 - 1) = {1} /\ 1..(3 - 1) = {1, 2} /\ 1..(4 - 1) = {1, 2, 3}
  OBVIOUS
<1>6. At(1) <=> a1 < b1
  BY <1>1, <1>5
<1>7. At(2) <=> a1 = b1 /\ a2 < b2
  BY <1>1, <1>5
<1>8. At(3) <=> a1 = b1 /\ a2 = b2 /\ a3 < b3
  BY <1>1, <1>5
<1>9. At(4) <=> a1 = b1 /\ a2 = b2 /\ a3 = b3 /\ u < v
  BY <1>1, <1>5
<1> HIDE DEF At
<1> QED BY <1>4, <1>6, <1>7, <1>8, <1>9 DEF x, y, a1, a2, a3, b1, b2, b3

\* The tie order is strict and total, since the last component is the chunk itself.
LEMMA TiesOrder ==
  ASSUME NEW keyword \in RankMaps, NEW dense \in RankMaps,
         NEW a \in Chunks, NEW b \in Chunks, NEW c \in Chunks
  PROVE  LET Less(u, v) == Lexicographic(Tie(keyword, dense, u), Tie(keyword, dense, v)) IN
         /\ ~Less(a, a)
         /\ Less(a, b) /\ Less(b, c) => Less(a, c)
         /\ a = b \/ Less(a, b) \/ Less(b, a)
<1> DEFINE Less(u, v) == Lexicographic(Tie(keyword, dense, u), Tie(keyword, dense, v))
           M(u) == BestRank(keyword, dense, u)
           K(u) == RankIn(keyword, u)
           D(u) == RankIn(dense, u)
<1>1. \A u \in Chunks : M(u) \in Nat /\ K(u) \in Nat /\ D(u) \in Nat /\ u \in Nat
  BY TieType
<1>2. ASSUME NEW u \in Chunks, NEW v \in Chunks
      PROVE  Less(u, v) <=> \/ M(u) < M(v)
                            \/ M(u) = M(v) /\ K(u) < K(v)
                            \/ M(u) = M(v) /\ K(u) = K(v) /\ D(u) < D(v)
                            \/ M(u) = M(v) /\ K(u) = K(v) /\ D(u) = D(v) /\ u < v
  BY LessOrders
<1> HIDE DEF M, K, D, Less
<1>3. ~Less(a, a)
  BY <1>1, <1>2
<1>4. Less(a, b) /\ Less(b, c) => Less(a, c)
  BY <1>1, <1>2
<1>5. a = b \/ Less(a, b) \/ Less(b, a)
  BY <1>1, <1>2
<1> QED BY <1>3, <1>4, <1>5 DEF Less

\* The sort key is a strict total order of the chunks found.
LEMMA PrecedesOrders ==
  ASSUME NEW keyword \in RankMaps, NEW dense \in RankMaps,
         NEW a \in Found(keyword, dense), NEW b \in Found(keyword, dense), NEW c \in Found(keyword, dense)
  PROVE  /\ ~Precedes(keyword, dense, a, a)
         /\ Precedes(keyword, dense, a, b) /\ Precedes(keyword, dense, b, c)
              => Precedes(keyword, dense, a, c)
         /\ a = b \/ Precedes(keyword, dense, a, b) \/ Precedes(keyword, dense, b, a)
<1> DEFINE Less(u, v) == Lexicographic(Tie(keyword, dense, u), Tie(keyword, dense, v))
           S(u) == Score(keyword, dense, u)
<1>1. a \in Chunks /\ b \in Chunks /\ c \in Chunks
  BY DEF Found
<1>2. S(a) \in Fractions /\ S(b) \in Fractions /\ S(c) \in Fractions
  BY ScoreIsFraction
<1>3. ~Less(a, a) /\ (Less(a, b) /\ Less(b, c) => Less(a, c)) /\ (a = b \/ Less(a, b) \/ Less(b, a))
  BY <1>1, TiesOrder
<1>4. \A u, v : Precedes(keyword, dense, u, v) <=>
                  Exceeds(S(u), S(v)) \/ (~Exceeds(S(v), S(u)) /\ Less(u, v))
  BY DEF Precedes
<1> HIDE DEF Less, S
<1>5. ~Precedes(keyword, dense, a, a)
  BY <1>2, <1>3, <1>4, ExceedsOrders
<1>6. a = b \/ Precedes(keyword, dense, a, b) \/ Precedes(keyword, dense, b, a)
  BY <1>3, <1>4
<1>7. ASSUME Precedes(keyword, dense, a, b), Precedes(keyword, dense, b, c)
      PROVE  Precedes(keyword, dense, a, c)
  <2>1. ~Exceeds(S(b), S(a)) /\ ~Exceeds(S(c), S(b))
    BY <1>2, <1>4, <1>7, ExceedsOrders
  <2>2. CASE Exceeds(S(a), S(b)) \/ Exceeds(S(b), S(c))
    BY <1>2, <1>4, <2>1, <2>2, ExceedsOrders
  <2>3. CASE Less(a, b) /\ Less(b, c)
    BY <1>2, <1>3, <1>4, <2>1, <2>3, ExceedsOrders
  <2> QED BY <1>4, <1>7, <2>2, <2>3
<1> QED BY <1>5, <1>6, <1>7

\* What both sources rank at least as high comes first.
LEMMA BothSourcesPrecede ==
  ASSUME NEW keyword \in RankMaps, NEW dense \in RankMaps,
         NEW b \in Found(keyword, dense), NEW c \in Found(keyword, dense), b # c,
         RankIn(keyword, b) <= RankIn(keyword, c), RankIn(dense, b) <= RankIn(dense, c)
  PROVE  Precedes(keyword, dense, b, c)
<1>1. ~Exceeds(Score(keyword, dense, c), Score(keyword, dense, b))
  BY ScoreFollowsRanks
<1>2. b \in Chunks /\ c \in Chunks
  BY DEF Found
<1>3. RankIn(keyword, b) < RankIn(keyword, c) \/ RankIn(dense, b) < RankIn(dense, c)
  <2>1. ASSUME NEW f \in RankMaps, c \in DOMAIN f
        PROVE  RankIn(f, b) # RankIn(f, c)
    <3>1. SUFFICES ASSUME RankIn(f, b) = RankIn(f, c) PROVE FALSE
      OBVIOUS
    <3>2. b \in DOMAIN f BY <1>2, <2>1, <3>1, RankMapType
    <3>3. f[b] = f[c] BY <2>1, <3>1, <3>2 DEF RankIn
    <3> QED BY <2>1, <3>2, <3>3, RankMapType DEF Injective
  <2>2. RankIn(keyword, b) # RankIn(keyword, c) \/ RankIn(dense, b) # RankIn(dense, c)
    BY <2>1 DEF Found
  <2> QED BY <1>2, <2>2, TieType
<1>4. Lexicographic(Tie(keyword, dense, b), Tie(keyword, dense, c))
  <2>1. /\ BestRank(keyword, dense, b) \in Nat /\ RankIn(keyword, b) \in Nat /\ RankIn(dense, b) \in Nat
        /\ BestRank(keyword, dense, c) \in Nat /\ RankIn(keyword, c) \in Nat /\ RankIn(dense, c) \in Nat
        /\ b \in Nat /\ c \in Nat
    BY <1>2, TieType
  <2>2. BestRank(keyword, dense, b) <= BestRank(keyword, dense, c)
    BY <2>1 DEF BestRank
  <2> DEFINE m1 == BestRank(keyword, dense, b)  k1 == RankIn(keyword, b)  d1 == RankIn(dense, b)
             m2 == BestRank(keyword, dense, c)  k2 == RankIn(keyword, c)  d2 == RankIn(dense, c)
  <2>3. /\ m1 \in Nat /\ k1 \in Nat /\ d1 \in Nat /\ m2 \in Nat /\ k2 \in Nat /\ d2 \in Nat
        /\ m1 <= m2 /\ k1 <= k2 /\ d1 <= d2 /\ (k1 < k2 \/ d1 < d2)
    BY <1>3, <2>1, <2>2
  <2> HIDE DEF m1, k1, d1, m2, k2, d2
  <2>4. \/ m1 < m2
        \/ m1 = m2 /\ k1 < k2
        \/ m1 = m2 /\ k1 = k2 /\ d1 < d2
    BY <2>3
  <2> QED BY <1>2, <2>4, LessOrders DEF m1, k1, d1, m2, k2, d2
<1> QED BY <1>1, <1>4 DEF Precedes

--------------------------------------------------------------------------
(* Places in an order. *)

--------------------------------------------------------------------------
(* What is answered, and what is loaded. *)

\* The answer holds the first chunks in the order of the key, each once.
LEMMA FusedInOrder ==
  ASSUME NEW keyword \in RankMaps, NEW dense \in RankMaps, NEW n \in Positive,
         NEW s \in SUBSET Found(keyword, dense), IsFiniteSet(s)
  PROVE  LET answer == Fused(s, keyword, dense, n) IN
         /\ answer \in Seq(s)
         /\ Len(answer) = IF Cardinality(s) < n THEN Cardinality(s) ELSE n
         /\ \A i, j \in 1..Len(answer) : answer[i] = answer[j] => i = j
         /\ \A b \in s, j \in 1..Len(answer) :
              Precedes(keyword, dense, b, answer[j]) => \E i \in 1..(j - 1) : answer[i] = b
         /\ Len(answer) = n \/ \A b \in s : \E i \in 1..Len(answer) : answer[i] = b
<1> DEFINE r == {p \in s \X s : Precedes(keyword, dense, p[1], p[2])}
           Ahead(c) == Before(s, r, c)
           total == Cardinality(s)
           size == IF total < n THEN total ELSE n
           answer == Fused(s, keyword, dense, n)
<1>1. \A b, c \in s : <<b, c>> \in r <=> Precedes(keyword, dense, b, c)
  OBVIOUS
<1>2. StrictOrder(s, r)
  <2>1. \A a, b, c \in s :
          /\ ~Precedes(keyword, dense, a, a)
          /\ Precedes(keyword, dense, a, b) /\ Precedes(keyword, dense, b, c)
               => Precedes(keyword, dense, a, c)
          /\ a = b \/ Precedes(keyword, dense, a, b) \/ Precedes(keyword, dense, b, a)
    BY PrecedesOrders
  <2> HIDE DEF r
  <2> QED BY <1>1, <2>1 DEF StrictOrder
<1>3. \A c \in s : {b \in s : Precedes(keyword, dense, b, c)} = Ahead(c)
  <2> HIDE DEF r
  <2> QED BY <1>1 DEF Before
<1> HIDE DEF r
<1>4. /\ total \in Nat
      /\ \A c \in s : 1 + Cardinality(Ahead(c)) \in 1..total
      /\ \A b, c \in s : Cardinality(Ahead(b)) = Cardinality(Ahead(c)) => b = c
      /\ \A i \in 1..total : \E c \in s : 1 + Cardinality(Ahead(c)) = i
  BY <1>2, Ranking
<1>5. \A b, c \in s : <<b, c>> \in r => Cardinality(Ahead(b)) < Cardinality(Ahead(c))
  BY <1>2, BeforeGrows
<1>6. size \in Nat /\ size <= total /\ (size = n \/ size = total)
  <2> HIDE DEF total
  <2> QED BY <1>4 DEF Positive
<1>7. answer = [i \in 1..size |->
                  CHOOSE c \in s : 1 + Cardinality({b \in s : Precedes(keyword, dense, b, c)}) = i]
  BY DEF Fused
<1>8. ASSUME NEW i \in 1..size
      PROVE  answer[i] \in s /\ 1 + Cardinality(Ahead(answer[i])) = i
  <2>1. i \in 1..total
    <3> HIDE DEF total, size
    <3> QED BY <1>4, <1>6
  <2>2. \E c \in s : 1 + Cardinality({b \in s : Precedes(keyword, dense, b, c)}) = i
    BY <1>3, <1>4, <2>1
  <2>3. answer[i] = CHOOSE c \in s : 1 + Cardinality({b \in s : Precedes(keyword, dense, b, c)}) = i
    <3> HIDE DEF answer, size
    <3> QED BY <1>7
  <2>4. /\ answer[i] \in s
        /\ 1 + Cardinality({b \in s : Precedes(keyword, dense, b, answer[i])}) = i
    <3> HIDE DEF answer
    <3> QED BY <2>2, <2>3
  <2> QED BY <1>3, <2>4
<1> HIDE DEF answer, size, Ahead
<1>9. answer \in [1..size -> s]
  BY <1>7, <1>8
<1>10. answer \in Seq(s) /\ Len(answer) = size
  <2>1. answer \in Seq(s) BY <1>6, <1>9
  <2> QED BY <1>6, <1>9, <2>1
<1>11. ASSUME NEW i \in 1..size, NEW j \in 1..size, answer[i] = answer[j]
       PROVE  i = j
  BY <1>8, <1>11
<1>12. ASSUME NEW b \in s
       PROVE  LET i == 1 + Cardinality(Ahead(b)) IN i \in 1..size => answer[i] = b
  <2> DEFINE i == 1 + Cardinality(Ahead(b))
  <2>1. SUFFICES ASSUME i \in 1..size PROVE answer[i] = b
    OBVIOUS
  <2>2. answer[i] \in s /\ 1 + Cardinality(Ahead(answer[i])) = i
    BY <1>8, <2>1
  <2>3. 1 + Cardinality(Ahead(b)) \in 1..total /\ 1 + Cardinality(Ahead(answer[i])) \in 1..total
    BY <1>4, <2>2
  <2>4. Cardinality(Ahead(b)) \in Nat /\ Cardinality(Ahead(answer[i])) \in Nat
    <3>1. \A c \in s : Ahead(c) \subseteq s BY DEF Ahead, Before
    <3> QED BY <2>2, <3>1, FS_Subset, FS_CardinalityType
  <2>5. Cardinality(Ahead(answer[i])) = Cardinality(Ahead(b))
    BY <2>2, <2>4
  <2> QED BY <1>4, <2>2, <2>5
<1>13. ASSUME NEW c \in s PROVE Cardinality(Ahead(c)) \in Nat
  <2>1. Ahead(c) \subseteq s BY DEF Ahead, Before
  <2> QED BY <2>1, FS_Subset, FS_CardinalityType
<1>14. ASSUME NEW b \in s, NEW j \in 1..size, Precedes(keyword, dense, b, answer[j])
       PROVE  \E i \in 1..(j - 1) : answer[i] = b
  <2>1. answer[j] \in s /\ 1 + Cardinality(Ahead(answer[j])) = j
    BY <1>8
  <2>2. Cardinality(Ahead(b)) < Cardinality(Ahead(answer[j]))
    BY <1>1, <1>5, <1>14, <2>1
  <2>3. Cardinality(Ahead(b)) \in Nat /\ Cardinality(Ahead(answer[j])) \in Nat
    BY <1>13, <2>1
  <2>4. 1 + Cardinality(Ahead(b)) \in 1..(j - 1) /\ 1 + Cardinality(Ahead(b)) \in 1..size
    BY <1>6, <2>1, <2>2, <2>3
  <2> QED BY <1>12, <2>4
<1>15. ASSUME size # n, NEW b \in s
       PROVE  \E i \in 1..size : answer[i] = b
  <2>1. 1 + Cardinality(Ahead(b)) \in 1..size
    BY <1>4, <1>6, <1>15
  <2> QED BY <1>12, <2>1
<1>16. size = IF total < n THEN total ELSE n
  BY DEF size
<1> QED BY <1>10, <1>11, <1>14, <1>15, <1>16 DEF answer

\* The list in the order of the UUIDs holds every chunk of the set.
LEMMA SortedLists ==
  ASSUME NEW s \in SUBSET Chunks
  PROVE  /\ Sorted(s) \in Seq(s)
         /\ \A c \in s : \E i \in 1..Len(Sorted(s)) : Sorted(s)[i] = c
<1>1. IsFiniteSet(s) /\ s \in SUBSET Int
  <2>1. IsFiniteSet(s) BY RetrievalAssumption, FS_Subset
  <2>2. s \in SUBSET Int BY RetrievalAssumption
  <2> QED BY <2>1, <2>2
<1>2. PICK n \in Nat : n = Cardinality(s) /\ Enumerates(Ascending(s), n, s)
  BY <1>1, AscendingEnumerates
<1>3. Sorted(s) = Ascending(s)
  BY DEF Sorted, Ascending
<1>4. Sorted(s) \in [1..n -> s] /\ \A c \in s : \E i \in 1..n : Sorted(s)[i] = c
  BY <1>2, <1>3 DEF Enumerates
<1>5. Sorted(s) \in Seq(s) /\ Len(Sorted(s)) = n
  BY <1>2, <1>4
<1> QED BY <1>4, <1>5

\* Division with remainder.
LEMMA Division ==
  ASSUME NEW a \in Nat, NEW b \in Positive
  PROVE  /\ a \div b \in Nat
         /\ (a \div b) * b <= a /\ a < (a \div b + 1) * b
BY SMT DEF Positive

\* What is in one of the batches.
InBatches(batches) == UNION {batches[n] : n \in 1..Len(batches)}

\* Every candidate is in a batch, whatever the size of the batches.
LEMMA BatchesCover ==
  ASSUME NEW s \in SUBSET Chunks
  PROVE  Batches(s) \in Seq(SUBSET s) /\ InBatches(Batches(s)) = s
<1> DEFINE order == Sorted(s)
           len == Len(order)
           count == (len + BatchSize - 1) \div BatchSize
           Upto(n) == IF n * BatchSize < len THEN n * BatchSize ELSE len
           Batch(n) == {order[i] : i \in ((n - 1) * BatchSize + 1)..Upto(n)}
           batches == Batches(s)
<1>1. BatchSize \in Positive /\ BatchSize \in Nat
  BY RetrievalAssumption DEF Positive
<1>2. order \in Seq(s) /\ len \in Nat /\ \A i \in 1..len : order[i] \in s
  BY SortedLists
<1>3. batches = [n \in 1..count |-> Batch(n)]
  BY DEF Batches
<1>4. len + BatchSize - 1 \in Nat
  <2> HIDE DEF len
  <2> QED BY <1>1, <1>2 DEF Positive
<1>5. /\ count \in Nat
      /\ len + BatchSize - 1 < (count + 1) * BatchSize
  <2> HIDE DEF len
  <2> QED BY <1>1, <1>4, Division
<1>6. ASSUME NEW n \in 1..count PROVE Batch(n) \in SUBSET s
  <2>1. ((n - 1) * BatchSize + 1)..Upto(n) \subseteq 1..len
    <3> HIDE DEF len, count
    <3>1. n - 1 \in Nat BY <1>5
    <3>2. (n - 1) * BatchSize \in Nat BY <1>1, <3>1
    <3>3. n * BatchSize \in Nat BY <1>1, <1>5
    <3>4. Upto(n) \in Nat /\ Upto(n) <= len BY <1>2, <3>3
    <3> HIDE DEF Upto
    <3> QED BY <1>2, <3>2, <3>4
  <2> HIDE DEF Upto, len
  <2> QED BY <1>2, <2>1
<1> HIDE DEF batches, count
<1>7. batches \in [1..count -> SUBSET s]
  <2> HIDE DEF Batch
  <2> QED BY <1>3, <1>6
<1>8. batches \in Seq(SUBSET s) /\ Len(batches) = count
  <2>1. batches \in Seq(SUBSET s) BY <1>5, <1>7
  <2> QED BY <1>5, <1>7, <2>1
<1>9. ASSUME NEW c \in s PROVE \E n \in 1..count : c \in Batch(n)
  <2>1. PICK i \in 1..len : order[i] = c
    BY SortedLists
  <2> HIDE DEF order, len
  <2>2. i - 1 \in Nat /\ i \in Nat /\ i <= len
    BY <1>2, <2>1
  <2> DEFINE q == (i - 1) \div BatchSize
  <2>3. q \in Nat /\ q * BatchSize <= i - 1 /\ i - 1 < (q + 1) * BatchSize
    BY <1>1, <2>2, Division
  <2> HIDE DEF q
  <2>4. q + 1 \in Positive /\ count + 1 \in Positive
    BY <1>5, <2>3 DEF Positive
  <2>5. q * BatchSize \in Nat /\ (q + 1) * BatchSize \in Nat /\ (count + 1) * BatchSize \in Nat
        /\ (q + 1) * BatchSize = q * BatchSize + BatchSize
    BY <1>1, <1>5, <2>3
  <2>6. (q + 1) * BatchSize < (count + 1) * BatchSize
    <3>1. q * BatchSize + BatchSize <= len + BatchSize - 1
      BY <1>1, <1>2, <2>2, <2>3, <2>5
    <3> QED BY <1>1, <1>2, <1>5, <2>5, <3>1
  <2>7. q + 1 < count + 1
    BY <1>1, <2>4, <2>6, Scaling
  <2> DEFINE n == q + 1
  <2>8. n \in 1..count /\ n - 1 = q
    BY <1>5, <2>3, <2>7
  <2>9. i \in (q * BatchSize + 1)..Upto(n)
    BY <1>2, <2>2, <2>3, <2>5
  <2>10. c \in Batch(n)
    <3>1. Batch(n) = {order[k] : k \in (q * BatchSize + 1)..Upto(n)}
      BY <2>8
    <3> HIDE DEF Batch, n, Upto
    <3> QED BY <2>1, <2>9, <3>1
  <2> HIDE DEF Batch
  <2> QED BY <2>8, <2>10
<1>10. \A n \in 1..count : batches[n] = Batch(n)
  <2> HIDE DEF Batch
  <2> QED BY <1>3
<1> HIDE DEF Batch
<1>11. InBatches(batches) = s
  BY <1>6, <1>8, <1>9, <1>10 DEF InBatches
<1> QED BY <1>8, <1>11 DEF batches

\* The batches are the first one and the others.
LEMMA NextBatch ==
  ASSUME NEW s, NEW batches \in Seq(SUBSET s), batches # <<>>
  PROVE  /\ Tail(batches) \in Seq(SUBSET s) /\ Head(batches) \in SUBSET s
         /\ InBatches(batches) = Head(batches) \cup InBatches(Tail(batches))
<1> DEFINE rest == Tail(batches)
<1>1. Len(batches) \in Nat /\ Len(batches) > 0 /\ Head(batches) = batches[1]
  OBVIOUS
<1>2. rest \in Seq(SUBSET s) /\ Len(rest) = Len(batches) - 1
      /\ \A n \in 1..Len(rest) : rest[n] = batches[n + 1]
  OBVIOUS
<1>3. Head(batches) \in SUBSET s
  BY <1>1
<1> HIDE DEF rest
<1>4. ASSUME NEW c, NEW n \in 1..Len(batches), c \in batches[n]
      PROVE  c \in batches[1] \/ \E m \in 1..Len(rest) : c \in rest[m]
  <2>1. CASE n = 1 BY <1>4, <2>1
  <2>2. CASE n # 1
    <3>1. PICK m \in Nat : n = m + 1 /\ m > 0
      <4>1. n - 1 \in Nat /\ n - 1 > 0 /\ n = (n - 1) + 1 BY <1>1, <2>2
      <4> QED BY <4>1
    <3>2. m \in 1..Len(rest) BY <1>1, <1>2, <3>1
    <3> QED BY <1>2, <1>4, <3>1, <3>2
  <2> QED BY <2>1, <2>2
<1>5. 1 \in 1..Len(batches) /\ \A m \in 1..Len(rest) : m + 1 \in 1..Len(batches)
  BY <1>1, <1>2
<1>6. InBatches(batches) = batches[1] \cup InBatches(rest)
  BY <1>2, <1>4, <1>5 DEF InBatches
<1> QED BY <1>1, <1>2, <1>3, <1>6 DEF rest

--------------------------------------------------------------------------
(* What the sources find. *)

\* Rankings without a gap are rank maps.
LEMMA RankingsAreRankMaps ==
  ASSUME NEW s \in SUBSET Chunks
  PROVE  Rankings(s, MaxKeyword) \subseteq RankMaps
<1> SUFFICES ASSUME NEW f \in Rankings(s, MaxKeyword) PROVE f \in RankMaps
  OBVIOUS
<1>1. PICK t \in SUBSET s : f \in [t -> 1..Cardinality(t)]
  BY DEF Rankings
<1>2. Injective(f) /\ Cardinality(DOMAIN f) <= MaxKeyword
  BY DEF Rankings
<1>3. t \subseteq Chunks /\ IsFiniteSet(t)
  BY RetrievalAssumption, FS_Subset
<1>4. Cardinality(t) \in Nat
  BY <1>3, FS_CardinalityType
<1>5. MaxKeyword \in Nat /\ MaxProvider \in Nat /\ MaxKeyword <= MaxProvider
  BY FusionAssumption, RetrievalAssumption
<1>6. Cardinality(t) <= MaxKeyword
  BY <1>1, <1>2
<1>7. 1..Cardinality(t) \subseteq 1..MaxProvider
  BY <1>4, <1>5, <1>6
<1>8. f \in [t -> 1..MaxProvider]
  BY <1>1, <1>7
<1> QED BY <1>2, <1>3, <1>8 DEF RankMaps

\* Before a source was asked it has found nothing.
LEMMA NoRanksIsRankMap == NoRanks \in RankMaps
<1>1. NoRanks \in [{} -> 1..MaxProvider]
  BY DEF NoRanks
<1>2. Injective(NoRanks)
  BY DEF NoRanks, Injective
<1> QED BY <1>1, <1>2 DEF RankMaps

\* First positions in a reply are ranks, however often it repeats or drops an entry.
LEMMA DenseRanksAreRankMaps ==
  ASSUME NEW reply \in Replies
  PROVE  DenseRanks(reply) \in RankMaps
<1> DEFINE At(c) == {i \in DOMAIN reply : reply[i] = c}
           found == Range(reply) \ {Dropped}
           f == DenseRanks(reply)
<1>1. PICK n \in 0..ProviderCount : reply \in [1..n -> Chunks \cup {Dropped}]
  BY DEF Replies
<1>2. n \in Nat /\ n <= MaxProvider /\ MaxProvider \in Nat
  <2>1. Overfetch \in Nat /\ Requested \in Nat /\ MaxProvider \in Nat
    BY FusionAssumption, RetrievalAssumption
  <2>2. Overfetch * Requested \in Nat BY <2>1
  <2>3. ProviderCount \in Nat /\ ProviderCount <= MaxProvider
    BY <2>1, <2>2 DEF ProviderCount
  <2> QED BY <1>1, <2>1, <2>3
<1>3. found \subseteq Chunks
  BY <1>1 DEF Range
<1>4. f = [c \in found |-> Min(At(c))]
  BY DEF DenseRanks
<1>5. ASSUME NEW c \in found
      PROVE  Min(At(c)) \in 1..n /\ reply[Min(At(c))] = c
  <2>1. At(c) # {} /\ At(c) \subseteq 1..n
    BY <1>1 DEF Range
  <2>2. At(c) \subseteq Nat BY <1>2, <2>1
  <2>3. Min(At(c)) \in At(c)
    <3> HIDE DEF At
    <3>1. \E m \in At(c) : \A k \in At(c) : m <= k
      BY <2>1, <2>2, Least
    <3> QED BY <3>1 DEF Min
  <2> QED BY <2>1, <2>3
<1> HIDE DEF At, found, f
<1>6. f \in [found -> 1..MaxProvider]
  <2>1. 1..n \subseteq 1..MaxProvider BY <1>2
  <2> QED BY <1>4, <1>5, <2>1
<1>7. Injective(f)
  BY <1>4, <1>5 DEF Injective
<1> QED BY <1>3, <1>6, <1>7 DEF RankMaps, f

--------------------------------------------------------------------------
(* The invariant. *)

Requests ==
  [at : {"started", "admitted", "keyword", "joined", "loading", "answered",
         "unauthorized", "not_found", "unavailable"},
   keyword : RankMaps, dense : RankMaps, snapshot : Database,
   batches : Seq(SUBSET Chunks), loaded : SUBSET Chunks, answer : Seq(Chunks)]

RetrievalTypes == db \in Database /\ request \in Requests

\* The snapshot is a state of the database since the providers answered, and the caller
\* was authorised in it.
SnapshotIsCurrent ==
  /\ request.at = "joined" => db \in current
  /\ request.at \in {"loading", "answered"} =>
       request.snapshot \in current /\ request.snapshot.session /\ request.snapshot.member

\* Nothing is loaded before; then what is loaded and what the batches to come still hold are, among the candidates, the
\* chunks eligible in the snapshot; in the end all of them are loaded.
LoadedFromSnapshot ==
  LET eligible == Eligible(request.snapshot)
      wanted == Candidates(request) \cap eligible IN
  /\ request.at \in {"started", "admitted", "keyword", "joined"} => request.loaded = {}
  /\ request.at = "loading" =>
       request.loaded \cup (InBatches(request.batches) \cap eligible) = wanted
  /\ request.at = "answered" =>
       /\ request.loaded = wanted
       /\ request.answer = Fused(wanted, request.keyword, request.dense, Requested)

RetrievalInvariant == RetrievalTypes /\ SnapshotIsCurrent /\ LoadedFromSnapshot

\* The parts of a database state and of a request.
LEMMA Parts ==
  ASSUME RetrievalTypes
  PROVE  /\ request.keyword \in RankMaps /\ request.dense \in RankMaps
         /\ request.snapshot \in Database /\ request.batches \in Seq(SUBSET Chunks)
         /\ request.loaded \in SUBSET Chunks /\ request.answer \in Seq(Chunks)
BY DEF RetrievalTypes, Requests

\* Eligible chunks are chunks.
LEMMA EligibleChunks ==
  ASSUME NEW d \in Database
  PROVE  Eligible(d) \in SUBSET Chunks
BY DEF Eligible, Database

\* The candidates are the chunks found.
LEMMA CandidatesFound ==
  ASSUME RetrievalTypes
  PROVE  /\ Candidates(request) = Found(request.keyword, request.dense)
         /\ Candidates(request) \in SUBSET Chunks
<1>1. DOMAIN request.keyword \subseteq Chunks /\ DOMAIN request.dense \subseteq Chunks
  BY Parts, RankMapType
<1> QED BY <1>1 DEF Candidates, Found

\* The invariant holds before the request has done anything.
LEMMA RetrievalInit == Init => RetrievalInvariant
<1> SUFFICES ASSUME Init PROVE RetrievalInvariant
  OBVIOUS
<1>1. db \in Database /\ request = NewRequest
  BY DEF Init
<1>2. request.at = "started" /\ request.loaded = {}
  BY <1>1 DEF NewRequest
<1>3. request \in Requests
  <2>1. NewRequest.snapshot \in Database
    BY DEF NewRequest, Database
  <2>2. <<>> \in Seq(SUBSET Chunks) /\ <<>> \in Seq(Chunks)
    OBVIOUS
  <2> QED BY <1>1, <2>1, <2>2, NoRanksIsRankMap DEF NewRequest, Requests
<1> QED BY <1>1, <1>2, <1>3 DEF RetrievalInvariant, RetrievalTypes, SnapshotIsCurrent, LoadedFromSnapshot

\* A request that has failed owes nothing but its type.
LEMMA FailsKeeps ==
  ASSUME RetrievalInvariant, NEW outcome \in {"unauthorized", "not_found", "unavailable"},
         Fails(outcome), db' = db
  PROVE  RetrievalInvariant'
<1>1. request' = [request EXCEPT !.at = outcome, !.loaded = {}]
  BY DEF Fails
<1>2. request \in Requests /\ db \in Database
  BY DEF RetrievalInvariant, RetrievalTypes
<1>3. request' \in Requests /\ request'.at = outcome
  BY <1>1, <1>2 DEF Requests
<1> QED BY <1>2, <1>3 DEF RetrievalInvariant, RetrievalTypes, SnapshotIsCurrent, LoadedFromSnapshot

\* Before the final transaction the request is only typed, and the database is current
\* once the providers have answered.
LEMMA SearchesKeep ==
  ASSUME RetrievalInvariant, InitialAccess \/ FindKeyword \/ QueryDense \/ BecomeUnavailable
  PROVE  RetrievalInvariant'
<1>1. request \in Requests /\ db \in Database /\ db' = db
  BY DEF RetrievalInvariant, RetrievalTypes, InitialAccess, FindKeyword, QueryDense, BecomeUnavailable
<1>2. ASSUME request' \in Requests, request'.at \in {"admitted", "keyword"}, request'.loaded = {}
      PROVE  RetrievalInvariant'
  BY <1>1, <1>2 DEF RetrievalInvariant, RetrievalTypes, SnapshotIsCurrent, LoadedFromSnapshot
<1>3. CASE InitialAccess
  <2>1. CASE db.session /\ db.member
    <3>1. request' = [request EXCEPT !.at = "admitted"] BY <1>3, <2>1 DEF InitialAccess
    <3>2. request.loaded = {}
      BY <1>3 DEF InitialAccess, RetrievalInvariant, LoadedFromSnapshot
    <3>3. request' \in Requests /\ request'.at = "admitted" /\ request'.loaded = {}
      BY <1>1, <3>1, <3>2 DEF Requests
    <3> QED BY <1>2, <3>3
  <2>2. CASE ~(db.session /\ db.member)
    BY <1>1, <1>3, <2>2, FailsKeeps DEF InitialAccess
  <2> QED BY <2>1, <2>2
<1>4. CASE FindKeyword
  <2> DEFINE scope == IF db.session /\ db.member THEN Eligible(db) ELSE {}
  <2>1. scope \in SUBSET Chunks
    BY <1>1, EligibleChunks
  <2>2. PICK ranks \in Rankings(scope, MaxKeyword) :
          request' = [request EXCEPT !.at = "keyword", !.keyword = ranks]
    BY <1>4 DEF FindKeyword
  <2> HIDE DEF scope
  <2>3. ranks \in RankMaps BY <2>1, <2>2, RankingsAreRankMaps
  <2>4. request.loaded = {}
    BY <1>4 DEF FindKeyword, RetrievalInvariant, LoadedFromSnapshot
  <2>5. request' \in Requests /\ request'.at = "keyword" /\ request'.loaded = {}
    BY <1>1, <2>2, <2>3, <2>4 DEF Requests
  <2> QED BY <1>2, <2>5
<1>5. CASE QueryDense
  <2>1. PICK reply \in Replies :
          LET ranks == DenseRanks(reply) IN
          IF Cardinality(DOMAIN request.keyword \cup DOMAIN ranks) > MaxUnique
            THEN Fails("unavailable")
            ELSE /\ request' = [request EXCEPT !.at = "joined", !.dense = ranks]
                 /\ current' = {db}
    BY <1>5 DEF QueryDense
  <2> DEFINE ranks == DenseRanks(reply)
  <2>2. ranks \in RankMaps BY DenseRanksAreRankMaps
  <2>3. Fails("unavailable") \/ (request' = [request EXCEPT !.at = "joined", !.dense = ranks]
                                 /\ current' = {db})
    BY <2>1
  <2> HIDE DEF ranks
  <2>4. CASE Fails("unavailable")
    BY <1>1, <2>4, FailsKeeps
  <2>5. CASE request' = [request EXCEPT !.at = "joined", !.dense = ranks] /\ current' = {db}
    <3>1. request.loaded = {}
      BY <1>5 DEF QueryDense, RetrievalInvariant, LoadedFromSnapshot
    <3>2. request' \in Requests /\ request'.at = "joined" /\ request'.loaded = {}
      BY <1>1, <2>2, <2>5, <3>1 DEF Requests
    <3>3. db' \in current' BY <1>1, <2>5
    <3> QED
      BY <1>1, <3>2, <3>3 DEF RetrievalInvariant, RetrievalTypes, SnapshotIsCurrent, LoadedFromSnapshot
  <2> QED BY <2>3, <2>4, <2>5
<1>6. CASE BecomeUnavailable
  BY <1>1, <1>6, FailsKeeps DEF BecomeUnavailable
<1> QED BY <1>3, <1>4, <1>5, <1>6

\* The final transaction begins with every candidate in a batch.
LEMMA BeginFinalKeeps ==
  ASSUME RetrievalInvariant, BeginFinal
  PROVE  RetrievalInvariant'
<1>1. request \in Requests /\ db \in Database /\ db' = db /\ request.at = "joined"
  BY DEF RetrievalInvariant, RetrievalTypes, BeginFinal
<1>2. CASE db.session /\ db.member
  <2> DEFINE batches == Batches(Candidates(request))
  <2>1. /\ request' = [request EXCEPT !.at = "loading", !.snapshot = db, !.batches = batches]
        /\ current' = current
    BY <1>2 DEF BeginFinal
  <2>2. Candidates(request) \in SUBSET Chunks
    BY CandidatesFound DEF RetrievalInvariant
  <2>3. batches \in Seq(SUBSET Candidates(request)) /\ InBatches(batches) = Candidates(request)
    BY <2>2, BatchesCover
  <2> HIDE DEF batches
  <2>4. batches \in Seq(SUBSET Chunks)
    BY <2>2, <2>3
  <2>5. request' \in Requests
    BY <1>1, <2>1, <2>4 DEF Requests
  <2>6. /\ request'.at = "loading" /\ request'.snapshot = db /\ request'.batches = batches
        /\ request'.loaded = request.loaded /\ request'.keyword = request.keyword
        /\ request'.dense = request.dense
    BY <1>1, <2>1 DEF Requests
  <2>7. SnapshotIsCurrent'
    <3>1. db \in current BY <1>1 DEF RetrievalInvariant, SnapshotIsCurrent
    <3> QED BY <1>2, <2>1, <2>6, <3>1 DEF SnapshotIsCurrent
  <2>8. Candidates(request') = Candidates(request)
    BY <2>6 DEF Candidates
  <2>9. request.loaded = {}
    BY <1>1 DEF RetrievalInvariant, LoadedFromSnapshot
  <2> QED
    BY <1>1, <2>3, <2>5, <2>6, <2>7, <2>8, <2>9
    DEF RetrievalInvariant, RetrievalTypes, LoadedFromSnapshot
<1>3. CASE ~(db.session /\ db.member)
  BY <1>1, <1>3, FailsKeeps DEF BeginFinal
<1> QED BY <1>2, <1>3

\* A batch moves from what is to come to what is loaded.
LEMMA LoadBatchKeeps ==
  ASSUME RetrievalInvariant, LoadBatch
  PROVE  RetrievalInvariant'
<1> DEFINE eligible == Eligible(request.snapshot)
           batches == request.batches
<1>1. /\ request \in Requests /\ db \in Database /\ db' = db /\ current' = current
      /\ request.at = "loading" /\ batches # <<>>
      /\ request' = [request EXCEPT !.batches = Tail(@), !.loaded = @ \cup (Head(batches) \cap eligible)]
  BY DEF RetrievalInvariant, RetrievalTypes, LoadBatch
<1>2. batches \in Seq(SUBSET Chunks) /\ request.loaded \in SUBSET Chunks
  BY <1>1 DEF Requests
<1>3. /\ Tail(batches) \in Seq(SUBSET Chunks) /\ Head(batches) \in SUBSET Chunks
      /\ InBatches(batches) = Head(batches) \cup InBatches(Tail(batches))
  BY <1>1, <1>2, NextBatch
<1>4. /\ request'.at = "loading" /\ request'.snapshot = request.snapshot
      /\ request'.batches = Tail(batches)
      /\ request'.loaded = request.loaded \cup (Head(batches) \cap eligible)
      /\ request'.keyword = request.keyword /\ request'.dense = request.dense
  BY <1>1 DEF Requests
<1>5. request' \in Requests
  <2>1. request' = [request EXCEPT !.batches = Tail(request.batches),
                                   !.loaded = request.loaded \cup (Head(batches) \cap eligible)]
    BY <1>1 DEF Requests
  <2>2. request.loaded \cup (Head(batches) \cap eligible) \in SUBSET Chunks
    BY <1>2, <1>3
  <2> HIDE DEF eligible
  <2> QED BY <1>1, <1>3, <2>1, <2>2 DEF Requests
<1> HIDE DEF batches, eligible
<1>6. Candidates(request') = Candidates(request) /\ Eligible(request'.snapshot) = eligible
  BY <1>4 DEF Candidates, eligible
<1>7. request.loaded \cup (InBatches(batches) \cap eligible) = Candidates(request) \cap eligible
  BY <1>1 DEF RetrievalInvariant, LoadedFromSnapshot, batches, eligible
<1>8. LoadedFromSnapshot'
  <2>1. request'.loaded \cup (InBatches(request'.batches) \cap eligible) = Candidates(request) \cap eligible
    BY <1>3, <1>4, <1>7
  <2> QED BY <1>4, <1>6, <2>1 DEF LoadedFromSnapshot
<1>9. SnapshotIsCurrent'
  BY <1>1, <1>4 DEF RetrievalInvariant, SnapshotIsCurrent
<1> QED BY <1>1, <1>5, <1>8, <1>9 DEF RetrievalInvariant, RetrievalTypes

\* What is fused is everything wanted.
LEMMA AnswerKeeps ==
  ASSUME RetrievalInvariant, Answer
  PROVE  RetrievalInvariant'
<1> DEFINE eligible == Eligible(request.snapshot)
           wanted == Candidates(request) \cap eligible
           answer == Fused(wanted, request.keyword, request.dense, Requested)
<1>1. /\ request \in Requests /\ db \in Database /\ db' = db /\ current' = current
      /\ request.at = "loading" /\ request.batches = <<>>
  BY DEF RetrievalInvariant, RetrievalTypes, Answer
<1>2. request.loaded = wanted
  <2>1. InBatches(request.batches) = {}
    BY <1>1 DEF InBatches
  <2> QED BY <1>1, <2>1 DEF RetrievalInvariant, LoadedFromSnapshot
<1>3. request' = [request EXCEPT !.at = "answered", !.answer = answer]
  BY <1>2 DEF Answer
<1>4. wanted \in SUBSET Found(request.keyword, request.dense) /\ wanted \in SUBSET Chunks
  BY CandidatesFound DEF RetrievalInvariant
<1>5. IsFiniteSet(wanted)
  BY <1>4, RetrievalAssumption, FS_Subset
<1>6. Requested \in Positive
  BY RetrievalAssumption DEF Positive
<1>7. answer \in Seq(wanted)
  BY <1>1, <1>4, <1>5, <1>6, FusedInOrder DEF Requests
<1> HIDE DEF answer
<1>8. answer \in Seq(Chunks)
  BY <1>4, <1>7
<1>9. /\ request' \in Requests /\ request'.at = "answered" /\ request'.answer = answer
      /\ request'.keyword = request.keyword /\ request'.dense = request.dense
      /\ request'.snapshot = request.snapshot /\ request'.loaded = request.loaded
  BY <1>1, <1>3, <1>8 DEF Requests
<1>10. Candidates(request') = Candidates(request)
  BY <1>9 DEF Candidates
<1>11. LoadedFromSnapshot'
  BY <1>2, <1>9, <1>10 DEF LoadedFromSnapshot, answer
<1>12. SnapshotIsCurrent'
  BY <1>1, <1>9 DEF RetrievalInvariant, SnapshotIsCurrent
<1> QED BY <1>1, <1>9, <1>11, <1>12 DEF RetrievalInvariant, RetrievalTypes

\* A state that others commit is current as well until the load ends.
LEMMA CommitsKeeps ==
  ASSUME RetrievalInvariant, NEW d \in Database, Commits(d)
  PROVE  RetrievalInvariant'
<1>1. /\ db' = d /\ request' = request
      /\ current' = IF request.at \in {"joined", "loading"} THEN current \cup {d} ELSE current
  BY DEF Commits
<1>2. RetrievalTypes' /\ LoadedFromSnapshot'
  BY <1>1 DEF RetrievalInvariant, RetrievalTypes, LoadedFromSnapshot
<1>3. SnapshotIsCurrent'
  BY <1>1 DEF RetrievalInvariant, SnapshotIsCurrent
<1> QED BY <1>2, <1>3 DEF RetrievalInvariant

\* What others do leads to states of the database.
LEMMA OthersKeep ==
  ASSUME RetrievalInvariant, EndSession \/ RemoveMembership \/ ChangeStatus \/ ReplaceChunks
  PROVE  RetrievalInvariant'
<1>1. db \in Database
  BY DEF RetrievalInvariant, RetrievalTypes
<1>2. CASE EndSession
  <2>1. [db EXCEPT !.session = FALSE] \in Database BY <1>1 DEF Database
  <2> QED BY <1>2, <2>1, CommitsKeeps DEF EndSession
<1>3. CASE RemoveMembership
  <2>1. [db EXCEPT !.member = FALSE] \in Database BY <1>1 DEF Database
  <2> QED BY <1>3, <2>1, CommitsKeeps DEF RemoveMembership
<1>4. CASE ChangeStatus
  <2>1. PICK document \in Documents :
          \/ Commits([db EXCEPT !.completed = @ \cup {document}])
          \/ Commits([db EXCEPT !.completed = @ \ {document}])
    BY <1>4 DEF ChangeStatus
  <2>2. /\ [db EXCEPT !.completed = @ \cup {document}] \in Database
        /\ [db EXCEPT !.completed = @ \ {document}] \in Database
    BY <1>1 DEF Database
  <2> QED BY <2>1, <2>2, CommitsKeeps
<1>5. CASE ReplaceChunks
  <2>1. PICK document \in Documents :
          LET own == {c \in Chunks : DocumentOf[c] = document} IN
          \E new \in SUBSET own : Commits([db EXCEPT !.rows = (@ \ own) \cup new])
    BY <1>5 DEF ReplaceChunks
  <2> DEFINE own == {c \in Chunks : DocumentOf[c] = document}
  <2>2. PICK new \in SUBSET own : Commits([db EXCEPT !.rows = (@ \ own) \cup new])
    BY <2>1
  <2>3. own \subseteq Chunks
    OBVIOUS
  <2> HIDE DEF own
  <2>4. [db EXCEPT !.rows = (@ \ own) \cup new] \in Database
    BY <1>1, <2>2, <2>3 DEF Database
  <2> QED BY <2>2, <2>4, CommitsKeeps
<1> QED BY <1>2, <1>3, <1>4, <1>5

\* Every step keeps the invariant.
LEMMA RetrievalNext == RetrievalInvariant /\ [Next]_vars => RetrievalInvariant'
<1>1. CASE UNCHANGED vars
  BY <1>1
  DEF vars, RetrievalInvariant, RetrievalTypes, SnapshotIsCurrent, LoadedFromSnapshot
<1> QED
  BY <1>1, SearchesKeep, BeginFinalKeeps, LoadBatchKeeps, AnswerKeeps, OthersKeep DEF Next, RequestStep

\* The invariant of a request, for any candidates, batches and changes.
THEOREM RetrievalInvariantHolds == Spec => []RetrievalInvariant
  BY RetrievalInit, RetrievalNext, PTL DEF Spec

--------------------------------------------------------------------------
\* Of what an answer consists.
LEMMA AnswersFused ==
  ASSUME RetrievalInvariant, request.at = "answered"
  PROVE  LET wanted == Candidates(request) \cap Eligible(request.snapshot)
             answer == request.answer IN
         /\ request.loaded = wanted
         /\ wanted \subseteq Found(request.keyword, request.dense) /\ IsFiniteSet(wanted)
         /\ answer \in Seq(wanted)
         /\ \A i, j \in 1..Len(answer) : answer[i] = answer[j] => i = j
         /\ \A b \in wanted, j \in 1..Len(answer) :
              Precedes(request.keyword, request.dense, b, answer[j]) =>
                \E i \in 1..(j - 1) : answer[i] = b
         /\ Len(answer) = Requested \/ \A b \in wanted : \E i \in 1..Len(answer) : answer[i] = b
<1> DEFINE wanted == Candidates(request) \cap Eligible(request.snapshot)
           answer == request.answer
<1>1. request.keyword \in RankMaps /\ request.dense \in RankMaps
  BY Parts DEF RetrievalInvariant
<1>2. wanted \in SUBSET Found(request.keyword, request.dense) /\ wanted \in SUBSET Chunks
  BY CandidatesFound DEF RetrievalInvariant
<1>3. IsFiniteSet(wanted) /\ Requested \in Positive
  BY <1>2, RetrievalAssumption, FS_Subset DEF Positive
<1>4. /\ request.loaded = wanted
      /\ answer = Fused(wanted, request.keyword, request.dense, Requested)
  BY DEF RetrievalInvariant, LoadedFromSnapshot
<1> DEFINE keyword == request.keyword  dense == request.dense
<1> HIDE DEF wanted, answer, keyword, dense
<1>5. /\ answer \in Seq(wanted)
      /\ \A i, j \in 1..Len(answer) : answer[i] = answer[j] => i = j
      /\ \A b \in wanted, j \in 1..Len(answer) :
           Precedes(keyword, dense, b, answer[j]) => \E i \in 1..(j - 1) : answer[i] = b
      /\ Len(answer) = Requested \/ \A b \in wanted : \E i \in 1..Len(answer) : answer[i] = b
  <2>1. keyword \in RankMaps /\ dense \in RankMaps /\ wanted \in SUBSET Found(keyword, dense)
    BY <1>1, <1>2 DEF keyword, dense
  <2>2. answer = Fused(wanted, keyword, dense, Requested)
    BY <1>4 DEF keyword, dense
  <2> QED BY <1>3, <2>1, <2>2, FusedInOrder
<1> QED BY <1>2, <1>3, <1>4, <1>5 DEF wanted, answer, keyword, dense

\* Every answer is that of one state of the database since the providers answered: the
\* caller was authorised in it, and exactly the candidates eligible in it are answered,
\* up to the requested number, whatever is committed between two batches.
THEOREM EveryAnswerIsOneInstant == Spec => []AnswersOneInstant
<1>1. ASSUME RetrievalInvariant, request.at = "answered"
      PROVE  \E d \in current :
               /\ d.session /\ d.member
               /\ Answered \subseteq Candidates(request) \cap Eligible(d)
               /\ \/ Len(request.answer) = Requested
                  \/ Answered = Candidates(request) \cap Eligible(d)
  <2> DEFINE d == request.snapshot
             wanted == Candidates(request) \cap Eligible(d)
             answer == request.answer
  <2>1. d \in current /\ d.session /\ d.member
    BY <1>1 DEF RetrievalInvariant, SnapshotIsCurrent
  <2>2. /\ answer \in Seq(wanted)
        /\ Len(answer) = Requested \/ \A b \in wanted : \E i \in 1..Len(answer) : answer[i] = b
    BY <1>1, AnswersFused
  <2>3. Answered = {answer[i] : i \in 1..Len(answer)}
    BY <2>2 DEF Answered
  <2> HIDE DEF wanted, answer
  <2>4. Answered \subseteq wanted /\ (Len(answer) = Requested \/ Answered = wanted)
    BY <2>2, <2>3
  <2> QED BY <2>1, <2>4 DEF wanted, answer
<1>2. RetrievalInvariant => AnswersOneInstant
  BY <1>1 DEF AnswersOneInstant
<1> QED BY <1>2, RetrievalInvariantHolds, PTL

\* No chunk is answered twice, and none is answered before, or instead of, a loaded one
\* that both sources rank at least as high: rank fusion respects what its sources agree on.
THEOREM FusionKeepsBothOrders == Spec => []FusionRespectsBothSources
<1>1. ASSUME RetrievalInvariant, request.at = "answered"
      PROVE  /\ Cardinality(Answered) = Len(request.answer)
             /\ \A b \in request.loaded : \A j \in DOMAIN request.answer :
                  b # request.answer[j] /\ Dominates(b, request.answer[j]) =>
                    \E i \in 1..(j - 1) : request.answer[i] = b
  <2> DEFINE found == Found(request.keyword, request.dense)
             loaded == request.loaded
             answer == request.answer
             n == Len(answer)
  <2>1. /\ loaded \subseteq found /\ answer \in Seq(loaded)
        /\ \A i, j \in 1..n : answer[i] = answer[j] => i = j
        /\ \A b \in loaded, j \in 1..n :
             Precedes(request.keyword, request.dense, b, answer[j]) => \E i \in 1..(j - 1) : answer[i] = b
    BY <1>1, AnswersFused
  <2>2. request.keyword \in RankMaps /\ request.dense \in RankMaps
    BY <1>1, Parts DEF RetrievalInvariant
  <2>3. n \in Nat /\ DOMAIN answer = 1..n /\ \A i \in 1..n : answer[i] \in loaded
    BY <2>1
  <2>4. Cardinality(Answered) = n
    <3> HIDE DEF answer, n, loaded, found
    <3>1. answer \in Surjection(1..n, Answered)
      <4>1. Answered = {answer[i] : i \in 1..n}
        BY <2>3 DEF Answered, answer
      <4>2. answer \in [1..n -> Answered]
        BY <2>1, <2>3, <4>1
      <4> QED BY <4>1, <4>2 DEF Surjection
    <3>2. answer \in Injection(1..n, Answered)
      BY <2>1, <2>3, <3>1 DEF Injection, Surjection, IsInjective
    <3>3. IsFiniteSet(1..n) /\ Cardinality(1..n) = n
      BY <2>3, FS_Interval
    <3> QED BY <3>1, <3>2, <3>3, FS_Surjection
  <2>5. ASSUME NEW b \in loaded, NEW j \in 1..n, b # answer[j], Dominates(b, answer[j])
        PROVE  \E i \in 1..(j - 1) : answer[i] = b
    <3>1. b \in found /\ answer[j] \in found
      BY <2>1, <2>3
    <3>2. /\ RankIn(request.keyword, b) <= RankIn(request.keyword, answer[j])
          /\ RankIn(request.dense, b) <= RankIn(request.dense, answer[j])
      BY <2>5 DEF Dominates
    <3> HIDE DEF answer, loaded, n
    <3>3. Precedes(request.keyword, request.dense, b, answer[j])
      BY <2>2, <2>5, <3>1, <3>2, BothSourcesPrecede
    <3> QED BY <2>1, <3>3
  <2> QED BY <2>3, <2>4, <2>5
<1>2. RetrievalInvariant => FusionRespectsBothSources
  BY <1>1 DEF FusionRespectsBothSources
<1> QED BY <1>2, RetrievalInvariantHolds, PTL
===========================================================================
