------------------------ MODULE PipelineOps_proofs ------------------------
EXTENDS PipelineOps, Pipeline_proofs

------------------------------------------------------------------------------
(* Lists that an order gives.                                                *)

\* R is a strict total order of S.
Orders(R, S) ==
  /\ \A x \in S : <<x, x>> \notin R
  /\ \A x, y, z \in S : <<x, y>> \in R /\ <<y, z>> \in R => <<x, z>> \in R
  /\ \A x, y \in S : x = y \/ <<x, y>> \in R \/ <<y, x>> \in R

Below(S, R, x) == {y \in S : <<y, x>> \in R}

\* The number of elements below tells an element's rank.
LEMMA Ranks ==
  ASSUME NEW S, IsFiniteSet(S), NEW R, Orders(R, S)
  PROVE  /\ Cardinality(S) \in Nat
         /\ \A x \in S : Cardinality(Below(S, R, x)) \in 0..(Cardinality(S) - 1)
         /\ \A x, y \in S :
              <<x, y>> \in R <=> Cardinality(Below(S, R, x)) < Cardinality(Below(S, R, y))
         /\ \A n \in 0..(Cardinality(S) - 1) : \E x \in S : Cardinality(Below(S, R, x)) = n
<1> DEFINE B(x) == Below(S, R, x)
           N == Cardinality(S)
           T == 0..(N - 1)
<1>1. N \in Nat
  BY FS_CardinalityType
<1>2. ASSUME NEW x \in S PROVE B(x) \subseteq S /\ x \notin B(x)
  BY DEF Below, Orders
<1>3. ASSUME NEW U, NEW V, IsFiniteSet(V), U \subseteq V, NEW x \in V, x \notin U
      PROVE  Cardinality(U) \in Nat /\ Cardinality(V) \in Nat
             /\ Cardinality(U) < Cardinality(V)
  <2>1. IsFiniteSet(U) /\ Cardinality(U) <= Cardinality(V) /\ Cardinality(U) # Cardinality(V)
    BY <1>3, FS_Subset
  <2>2. Cardinality(U) \in Nat /\ Cardinality(V) \in Nat
    BY <1>3, <2>1, FS_CardinalityType
  <2> QED
    BY <2>1, <2>2
<1>4. ASSUME NEW x \in S PROVE Cardinality(B(x)) \in T
  <2>1. Cardinality(B(x)) \in Nat /\ Cardinality(B(x)) < N
    BY <1>2, <1>3
  <2> QED
    BY <1>1, <2>1
<1>5. ASSUME NEW x \in S, NEW y \in S, <<x, y>> \in R
      PROVE  Cardinality(B(x)) < Cardinality(B(y))
  <2>1. B(x) \subseteq B(y) /\ x \in B(y)
    BY <1>5 DEF Below, Orders
  <2>2. IsFiniteSet(B(y))
    BY <1>2, FS_Subset
  <2> QED
    BY <1>2, <1>3, <2>1, <2>2
<1>6. ASSUME NEW x \in S, NEW y \in S
      PROVE  <<x, y>> \in R <=> Cardinality(B(x)) < Cardinality(B(y))
  <2>1. x = y \/ <<x, y>> \in R \/ <<y, x>> \in R
    BY DEF Orders
  <2>2. Cardinality(B(x)) \in Nat /\ Cardinality(B(y)) \in Nat
    BY <1>1, <1>4
  <2>3. <<y, x>> \in R => Cardinality(B(y)) < Cardinality(B(x))
    BY <1>5
  <2> HIDE DEF B
  <2> QED
    BY <1>5, <2>1, <2>2, <2>3
<1> DEFINE f == [x \in S |-> Cardinality(B(x))]
<1>7. f \in Injection(S, T)
  <2>1. f \in [S -> T]
    BY <1>4
  <2>2. \A x, y \in S : f[x] = f[y] => x = y
    <3> SUFFICES ASSUME NEW x \in S, NEW y \in S, f[x] = f[y] PROVE x = y
      OBVIOUS
    <3>1. Cardinality(B(x)) \in Nat /\ Cardinality(B(y)) = Cardinality(B(x))
      BY <1>1, <1>4
    <3>2. ~(Cardinality(B(x)) < Cardinality(B(y))) /\ ~(Cardinality(B(y)) < Cardinality(B(x)))
      BY <3>1
    <3>3. <<x, y>> \notin R /\ <<y, x>> \notin R
      BY <1>6, <3>2
    <3> QED
      BY <3>3 DEF Orders
  <2> QED
    BY <2>1, <2>2 DEF Injection, IsInjective
<1>8. IsFiniteSet(T) /\ Cardinality(T) = N
  <2>1. N - 1 \in Int /\ 0 \in Int /\ (0 > N - 1 => N = 0) /\ (N - 1) - 0 + 1 = N
    BY <1>1
  <2>2. IsFiniteSet(T) /\ Cardinality(T) = IF 0 > N - 1 THEN 0 ELSE (N - 1) - 0 + 1
    BY <2>1, FS_Interval
  <2> QED
    BY <2>1, <2>2
<1>9. f \in Surjection(S, T)
  BY <1>7, <1>8, FS_Injection
<1>10. ASSUME NEW n \in T PROVE \E x \in S : Cardinality(B(x)) = n
  BY <1>9 DEF Surjection
<1> QED
  BY <1>1, <1>4, <1>6, <1>10

\* InOrder lists the elements of a finite set in their order, each once.
LEMMA InOrderIs ==
  ASSUME NEW S, IsFiniteSet(S), NEW R, Orders(R, S)
  PROVE  LET L == InOrder(S, R)
         IN  /\ L \in Seq(S) /\ Elements(L) = S /\ Distinct(L)
             /\ \A x, y \in S : Comes(L, x, y) <=> <<x, y>> \in R
             /\ DOMAIN L = 1..Cardinality(S) /\ L = [n \in DOMAIN L |-> L[n]]
             /\ \A n \in DOMAIN L : L[n] \in S /\ Cardinality(Below(S, R, L[n])) = n - 1
<1> DEFINE L == InOrder(S, R)
           N == Cardinality(S)
           r(x) == Cardinality(Below(S, R, x))
<1>1. /\ N \in Nat /\ \A x \in S : r(x) \in 0..(N - 1)
      /\ \A x, y \in S : <<x, y>> \in R <=> r(x) < r(y)
      /\ \A n \in 0..(N - 1) : \E x \in S : r(x) = n
  BY Ranks
<1>2. L = [n \in 1..N |-> CHOOSE x \in S : r(x) = n - 1]
  BY DEF InOrder, Below
<1> HIDE DEF L, r
<1>3. \A x, y \in S : r(x) = r(y) => x = y
  <2> SUFFICES ASSUME NEW x \in S, NEW y \in S, r(x) = r(y) PROVE x = y
    OBVIOUS
  <2>1. r(x) \in 0..(N - 1) /\ r(y) = r(x)
    BY <1>1
  <2>2. ~(r(x) < r(y)) /\ ~(r(y) < r(x))
    BY <2>1
  <2>3. <<x, y>> \notin R /\ <<y, x>> \notin R
    BY <1>1, <2>2
  <2> QED
    BY <2>3 DEF Orders
<1>4. ASSUME NEW n \in 1..N PROVE L[n] \in S /\ r(L[n]) = n - 1
  <2>1. n - 1 \in 0..(N - 1)
    BY <1>1
  <2>2. \E x \in S : r(x) = n - 1
    BY <1>1, <2>1
  <2>3. L[n] = CHOOSE x \in S : r(x) = n - 1
    BY <1>2
  <2> QED
    BY <2>2, <2>3
<1>5. DOMAIN L = 1..N /\ L = [n \in 1..N |-> L[n]] /\ Len(L) = N /\ L \in Seq(S)
  <2>1. DOMAIN L = 1..N /\ L = [n \in 1..N |-> L[n]]
    BY <1>2
  <2>2. L \in [1..N -> S]
    BY <1>4, <2>1
  <2>3. L \in Seq(S)
    BY <1>1, <2>2
  <2>4. Len(L) = N
    BY <1>1, <2>2, <2>3
  <2> QED
    BY <2>1, <2>2, <2>3, <2>4
<1>6. ASSUME NEW x \in S PROVE r(x) + 1 \in 1..N /\ L[r(x) + 1] = x
  <2>1. r(x) \in 0..(N - 1)
    BY <1>1
  <2>2. r(x) + 1 \in 1..N /\ (r(x) + 1) - 1 = r(x)
    BY <1>1, <2>1
  <2>3. L[r(x) + 1] \in S /\ r(L[r(x) + 1]) = r(x)
    BY <1>4, <2>2
  <2> QED
    BY <1>3, <2>2, <2>3
<1>7. Elements(L) = S
  <2>1. ASSUME NEW x \in S PROVE x \in Elements(L)
    BY <1>5, <1>6 DEF Elements
  <2> QED
    BY <1>4, <1>5, <2>1 DEF Elements
<1>8. Distinct(L)
  <2> SUFFICES ASSUME NEW i \in 1..N, NEW j \in 1..N, L[i] = L[j] PROVE i = j
    BY <1>5 DEF Distinct
  <2>1. i - 1 = j - 1
    BY <1>4
  <2> QED
    BY <1>1, <2>1
<1>9. ASSUME NEW x \in S, NEW y \in S PROVE Comes(L, x, y) <=> <<x, y>> \in R
  <2>1. ASSUME Comes(L, x, y) PROVE r(x) < r(y)
    <3>1. PICK i \in 1..N, j \in 1..N : i < j /\ L[i] = x /\ L[j] = y
      BY <1>5, <2>1 DEF Comes
    <3>2. r(x) = i - 1 /\ r(y) = j - 1
      BY <1>4, <3>1
    <3> QED
      BY <1>1, <3>1, <3>2
  <2>2. ASSUME r(x) < r(y) PROVE Comes(L, x, y)
    <3>1. r(x) \in 0..(N - 1) /\ r(y) \in 0..(N - 1)
      BY <1>1
    <3>2. r(x) + 1 < r(y) + 1
      BY <1>1, <2>2, <3>1
    <3> QED
      BY <1>5, <1>6, <3>2 DEF Comes
  <2> QED
    BY <1>1, <2>1, <2>2
<1> QED
  BY <1>4, <1>5, <1>7, <1>8, <1>9 DEF L, r

\* The same elements in the same order are the same list.
LEMMA SameOrder ==
  ASSUME NEW S, IsFiniteSet(S), NEW R, NEW Q, Orders(R, S), Orders(Q, S),
         \A x, y \in S : <<x, y>> \in R <=> <<x, y>> \in Q
  PROVE  InOrder(S, R) = InOrder(S, Q)
<1> DEFINE L == InOrder(S, R)
           M == InOrder(S, Q)
           N == Cardinality(S)
           r(x) == Cardinality(Below(S, R, x))
<1>1. \A x \in S : Below(S, Q, x) = Below(S, R, x)
  BY DEF Below
<1>2. /\ DOMAIN L = 1..N /\ L = [n \in DOMAIN L |-> L[n]]
      /\ \A n \in DOMAIN L : L[n] \in S /\ r(L[n]) = n - 1
  BY InOrderIs
<1>3. /\ DOMAIN M = 1..N /\ M = [n \in DOMAIN M |-> M[n]]
      /\ \A n \in DOMAIN M : M[n] \in S /\ Cardinality(Below(S, Q, M[n])) = n - 1
  BY InOrderIs
<1>4. \A n \in 1..N : r(M[n]) = n - 1
  BY <1>1, <1>3
<1>5. N \in Nat /\ \A x, y \in S : <<x, y>> \in R <=> r(x) < r(y)
  BY Ranks
<1> HIDE DEF L, M, r
<1>6. ASSUME NEW n \in 1..N PROVE L[n] = M[n]
  <2>1. ~(r(L[n]) < r(M[n])) /\ ~(r(M[n]) < r(L[n]))
    BY <1>2, <1>4, <1>5
  <2>2. <<L[n], M[n]>> \notin R /\ <<M[n], L[n]>> \notin R
    BY <1>2, <1>3, <1>5, <2>1
  <2> QED
    BY <1>2, <1>3, <2>2 DEF Orders
<1>7. L = M
  BY <1>2, <1>3, <1>6
<1> QED
  BY <1>7 DEF L, M

\* Where the elements of a list stand.
LEMMA PlacesIn ==
  ASSUME NEW L, L \in Seq(Ids)
  PROVE  /\ ElementsOf(L) = Elements(L) /\ ElementsOf(L) \subseteq Ids
         /\ IsFiniteSet(ElementsOf(L)) /\ Len(L) \in Nat
         /\ \A x \in ElementsOf(L) : PlaceIn(L, x) \in 1..Len(L) /\ L[PlaceIn(L, x)] = x
         /\ Distinct(L) => \A i \in 1..Len(L) : PlaceIn(L, L[i]) = i
<1>1. DOMAIN L = 1..Len(L) /\ Len(L) \in Nat
  OBVIOUS
<1>2. ElementsOf(L) = Elements(L) /\ ElementsOf(L) \subseteq Ids
  BY <1>1 DEF ElementsOf, Elements
<1>3. ASSUME NEW x \in ElementsOf(L) PROVE PlaceIn(L, x) \in 1..Len(L) /\ L[PlaceIn(L, x)] = x
  <2>1. \E i \in DOMAIN L : L[i] = x
    BY DEF ElementsOf
  <2>2. PlaceIn(L, x) \in DOMAIN L /\ L[PlaceIn(L, x)] = x
    BY <2>1 DEF PlaceIn
  <2> QED
    BY <1>1, <2>2
<1>4. IsFiniteSet(ElementsOf(L))
  <2>1. L \in Surjection(1..Len(L), ElementsOf(L))
    BY <1>1, <1>2 DEF Surjection, Elements
  <2>2. IsFiniteSet(1..Len(L))
    BY <1>1, FS_Interval
  <2> QED
    BY <2>1, <2>2, FS_Surjection
<1>5. ASSUME Distinct(L), NEW i \in 1..Len(L) PROVE PlaceIn(L, L[i]) = i
  <2>1. L[i] \in ElementsOf(L)
    BY <1>1 DEF ElementsOf
  <2> QED
    BY <1>3, <1>5, <2>1 DEF Distinct
<1> QED
  BY <1>1, <1>2, <1>3, <1>4, <1>5

\* A list orders its elements.
LEMMA OrderOfIs ==
  ASSUME NEW L, L \in Seq(Ids)
  PROVE  /\ Orders(OrderOf(L), ElementsOf(L))
         /\ \A x, y \in ElementsOf(L) :
              <<x, y>> \in OrderOf(L) <=> PlaceIn(L, x) < PlaceIn(L, y)
         /\ Distinct(L) =>
              \A x, y \in ElementsOf(L) : <<x, y>> \in OrderOf(L) <=> Comes(L, x, y)
<1> DEFINE E == ElementsOf(L)
           at(x) == PlaceIn(L, x)
<1>1. ASSUME NEW x \in E PROVE at(x) \in 1..Len(L) /\ at(x) \in Nat /\ L[at(x)] = x
  BY PlacesIn
<1>2. ASSUME NEW x \in E, NEW y \in E PROVE <<x, y>> \in OrderOf(L) <=> at(x) < at(y)
  BY DEF OrderOf
<1> HIDE DEF E, at
<1>3. \A x \in E : <<x, x>> \notin OrderOf(L)
  <2> SUFFICES ASSUME NEW x \in E PROVE ~(at(x) < at(x))
    BY <1>2
  <2> QED
    BY <1>1
<1>4. ASSUME NEW x \in E, NEW y \in E, NEW z \in E, at(x) < at(y), at(y) < at(z)
      PROVE  at(x) < at(z)
  <2>1. at(x) \in Nat /\ at(y) \in Nat /\ at(z) \in Nat
    BY <1>1
  <2> QED
    BY <1>4, <2>1
<1>5. ASSUME NEW x \in E, NEW y \in E, x # y PROVE at(x) < at(y) \/ at(y) < at(x)
  <2>1. at(x) \in Nat /\ at(y) \in Nat /\ at(x) # at(y)
    BY <1>1, <1>5
  <2> QED
    BY <2>1
<1>6. Orders(OrderOf(L), E)
  BY <1>2, <1>3, <1>4, <1>5 DEF Orders
<1>7. ASSUME Distinct(L), NEW x \in E, NEW y \in E
      PROVE  Comes(L, x, y) <=> at(x) < at(y)
  <2>1. ASSUME at(x) < at(y) PROVE Comes(L, x, y)
    BY <1>1, <2>1 DEF Comes
  <2>2. ASSUME Comes(L, x, y) PROVE at(x) < at(y)
    <3>1. PICK i \in 1..Len(L), j \in 1..Len(L) : i < j /\ L[i] = x /\ L[j] = y
      BY <2>2 DEF Comes
    <3>2. at(x) = i /\ at(y) = j
      BY <1>1, <1>7, <3>1 DEF Distinct
    <3> QED
      BY <3>1, <3>2
  <2> QED
    BY <2>1, <2>2
<1> QED
  BY <1>2, <1>6, <1>7 DEF E, at

\* Some of the elements of a list, in its order.
LEMMA PartOfList ==
  ASSUME NEW L, L \in Seq(Ids), NEW S, S \subseteq ElementsOf(L)
  PROVE  LET M == InOrder(S, OrderOf(L))
         IN  /\ M \in Seq(Ids) /\ Elements(M) = S /\ ElementsOf(M) = S /\ Distinct(M)
             /\ \A x, y \in S : Comes(M, x, y) <=> <<x, y>> \in OrderOf(L)
<1> DEFINE M == InOrder(S, OrderOf(L))
<1>1. IsFiniteSet(S) /\ S \subseteq Ids
  BY PlacesIn, FS_Subset
<1>2. Orders(OrderOf(L), S)
  BY OrderOfIs DEF Orders
<1>3. /\ M \in Seq(S) /\ Elements(M) = S /\ Distinct(M)
      /\ \A x, y \in S : Comes(M, x, y) <=> <<x, y>> \in OrderOf(L)
  BY <1>1, <1>2, InOrderIs
<1> HIDE DEF M
<1>4. M \in Seq(Ids)
  BY <1>1, <1>3
<1>5. ElementsOf(M) = S
  BY <1>3, <1>4, PlacesIn
<1> QED
  BY <1>3, <1>4, <1>5 DEF M

------------------------------------------------------------------------------
(* The analyses that come back.                                              *)

\* The list L keeps the data steps of before, in their order, and has no analyses: what a
\* call with analyses put aside finds when it puts them back.
Deferred(L, before) ==
  /\ ElementsOf(L) \intersect Analyses = {}
  /\ ElementsOf(before) \ Analyses \subseteq ElementsOf(L)
  /\ \A x, y \in ElementsOf(before) \ Analyses :
       <<x, y>> \in OrderOf(before) => PlaceIn(L, x) < PlaceIn(L, y)

\* An analysis that came first comes home first.
LEMMA HomesInOrder ==
  ASSUME steps \in Seq(Ids), NEW before, before \in Seq(Ids), Distinct(before),
         Deferred(steps, before)
  PROVE  /\ \A a \in ElementsOf(before) : Home(before, a) \in Nat
         /\ \A a, b \in ElementsOf(before) :
              <<a, b>> \in OrderOf(before) => Home(before, a) <= Home(before, b)
<1> DEFINE F(a) == {j \in DOMAIN before : IsData(before[j]) /\ PlaceIn(before, a) < j}
           m(a) == CHOOSE j \in F(a) : \A k \in F(a) : j <= k
           n == Len(steps)
           D == ElementsOf(before) \ Analyses
<1>1. DOMAIN before = 1..Len(before) /\ Len(before) \in Nat /\ n \in Nat
  OBVIOUS
<1>2. ASSUME NEW a, F(a) # {} PROVE m(a) \in F(a) /\ \A k \in F(a) : m(a) <= k
  <2>1. F(a) \subseteq Nat
    BY <1>1
  <2>2. \E j \in F(a) : \A k \in F(a) : j <= k
    <3> HIDE DEF F
    <3> QED
      BY <1>2, <2>1, LeastNat
  <2> HIDE DEF F
  <2> QED
    BY <2>2
<1>3. ASSUME NEW j \in DOMAIN before, IsData(before[j])
      PROVE  before[j] \in D /\ PlaceIn(steps, before[j]) \in 1..n
  <2>1. before[j] \in D
    BY <1>3 DEF ElementsOf, IsData
  <2>2. before[j] \in StepSet /\ StepSet = ElementsOf(steps)
    BY <2>1 DEF Deferred, StepSet, ElementsOf
  <2> QED
    BY <2>1, <2>2, PlacesIn
<1>4. \A a : Home(before, a) = IF F(a) = {} THEN n + 1 ELSE PlaceIn(steps, before[m(a)])
  BY DEF Home
<1>5. ASSUME NEW a, F(a) # {}
      PROVE  /\ m(a) \in DOMAIN before /\ before[m(a)] \in D
             /\ Home(before, a) = PlaceIn(steps, before[m(a)]) /\ Home(before, a) \in 1..n
  <2>1. m(a) \in DOMAIN before /\ IsData(before[m(a)])
    BY <1>2, <1>5
  <2>2. Home(before, a) = PlaceIn(steps, before[m(a)])
    BY <1>4, <1>5
  <2> HIDE DEF m
  <2> QED
    BY <1>3, <2>1, <2>2
<1>6. ASSUME NEW a PROVE Home(before, a) \in 1..(n + 1) /\ (F(a) = {} => Home(before, a) = n + 1)
  <2> HIDE DEF F, m
  <2> QED
    BY <1>1, <1>4, <1>5
<1>7. ASSUME NEW a \in ElementsOf(before), NEW b \in ElementsOf(before),
             <<a, b>> \in OrderOf(before)
      PROVE  Home(before, a) <= Home(before, b)
  <2>1. PlaceIn(before, a) < PlaceIn(before, b)
    BY <1>7, OrderOfIs
  <2>2. PlaceIn(before, a) \in Nat /\ PlaceIn(before, b) \in Nat
    BY PlacesIn
  <2>3. F(b) \subseteq F(a)
    BY <1>1, <2>1, <2>2
  <2>4. CASE F(b) = {}
    BY <1>1, <1>6, <2>4
  <2>5. CASE F(b) # {}
    <3>1. m(b) \in F(b) /\ F(a) # {} /\ m(b) \in F(a)
      BY <1>2, <2>3, <2>5
    <3>2. m(a) <= m(b)
      BY <1>2, <3>1
    <3>3. /\ m(a) \in DOMAIN before /\ before[m(a)] \in D
          /\ Home(before, a) = PlaceIn(steps, before[m(a)]) /\ Home(before, a) \in 1..n
          /\ m(b) \in DOMAIN before /\ before[m(b)] \in D
          /\ Home(before, b) = PlaceIn(steps, before[m(b)]) /\ Home(before, b) \in 1..n
      BY <1>5, <2>5, <3>1
    <3> HIDE DEF F, m
    <3>4. CASE m(a) = m(b)
      BY <1>1, <3>3, <3>4
    <3>5. CASE m(a) < m(b)
      <4>1. PlaceIn(before, before[m(a)]) = m(a) /\ PlaceIn(before, before[m(b)]) = m(b)
        BY <1>1, <3>3, PlacesIn
      <4>2. before[m(a)] \in ElementsOf(before) /\ before[m(b)] \in ElementsOf(before)
        BY <3>3
      <4>3. <<before[m(a)], before[m(b)]>> \in OrderOf(before)
        BY <3>5, <4>1, <4>2, OrderOfIs
      <4>4. PlaceIn(steps, before[m(a)]) < PlaceIn(steps, before[m(b)])
        BY <3>3, <4>3 DEF Deferred
      <4> QED
        BY <1>1, <3>3, <4>4
    <3> QED
      BY <1>1, <3>2, <3>3, <3>4, <3>5
  <2> QED
    BY <2>4, <2>5
<1> QED
  BY <1>1, <1>6, <1>7

\* What _restore_deferred_analysis_steps puts together: the data steps as they now are, and
\* the analyses that there were, both in their order.
LEMMA WithDeferredIs ==
  ASSUME steps \in Seq(Ids), NEW before, before \in Seq(Ids), Distinct(before),
         Deferred(steps, before)
  PROVE  LET M == WithDeferred(before)
             A == ElementsOf(before) \intersect Analyses
         IN  /\ M \in Seq(Ids) /\ Distinct(M)
             /\ Elements(M) = StepSet \union A /\ ElementsOf(M) = StepSet \union A
             /\ \A x, y \in StepSet : Comes(M, x, y) <=> <<x, y>> \in OrderOf(steps)
             /\ \A x, y \in A : Comes(M, x, y) <=> <<x, y>> \in OrderOf(before)
<1> DEFINE M == WithDeferred(before)
           A == ElementsOf(before) \intersect Analyses
           S == StepSet \union A
           P(x) == IF IsData(x) THEN PlaceIn(steps, x) ELSE Home(before, x)
           R == {xy \in S \X S :
                   \/ P(xy[1]) < P(xy[2])
                   \/ /\ P(xy[1]) = P(xy[2]) /\ ~IsData(xy[1])
                      /\ IsData(xy[2]) \/ xy \in OrderOf(before)}
<1>1. M = InOrder(S, R)
  BY DEF WithDeferred
<1>2. /\ StepSet = ElementsOf(steps) /\ StepSet \subseteq Ids /\ IsFiniteSet(StepSet)
      /\ \A x \in StepSet : PlaceIn(steps, x) \in Nat /\ steps[PlaceIn(steps, x)] = x
  <2>1. StepSet = ElementsOf(steps)
    BY DEF StepSet, ElementsOf
  <2> QED
    BY <2>1, PlacesIn
<1>3. A \subseteq Ids /\ IsFiniteSet(A)
  BY PlacesIn, FS_Subset
<1>4. S \subseteq Ids /\ IsFiniteSet(S)
  BY <1>2, <1>3, FS_Union
<1>5. ASSUME NEW x \in S PROVE (x \in StepSet /\ IsData(x)) \/ (x \in A /\ ~IsData(x))
  <2>1. StepSet \intersect Analyses = {}
    BY DEF Deferred, StepSet, ElementsOf
  <2> QED
    BY <2>1 DEF IsData
<1>6. \A x \in S : P(x) \in Nat
  BY <1>2, <1>5, HomesInOrder
<1>7. ASSUME NEW x \in StepSet PROVE P(x) = PlaceIn(steps, x)
  BY DEF IsData, Deferred, StepSet, ElementsOf
<1>8. \A x, y \in S : <<x, y>> \in R <=>
        \/ P(x) < P(y)
        \/ P(x) = P(y) /\ ~IsData(x) /\ (IsData(y) \/ <<x, y>> \in OrderOf(before))
  OBVIOUS
<1>9. Orders(OrderOf(before), A)
  BY OrderOfIs DEF Orders
<1>10. \A a, b \in A : <<a, b>> \in OrderOf(before) => P(a) <= P(b)
  BY HomesInOrder DEF IsData
<1> HIDE DEF P, R, A, S
<1>11. \A x, y \in S : P(x) = P(y) /\ IsData(x) /\ IsData(y) => x = y
  BY <1>2, <1>5, <1>7 DEF S
<1>12. Orders(R, S)
  <2>1. ASSUME NEW x \in S, <<x, x>> \in R PROVE FALSE
    <3>1. P(x) \in Nat /\ ~(P(x) < P(x))
      BY <1>6
    <3>2. ~IsData(x) /\ <<x, x>> \in OrderOf(before)
      BY <1>8, <2>1, <3>1
    <3> QED
      BY <1>5, <1>9, <3>2 DEF Orders
  <2>2. ASSUME NEW x \in S, NEW y \in S, NEW z \in S, <<x, y>> \in R, <<y, z>> \in R
        PROVE  <<x, z>> \in R
    <3>1. P(x) \in Nat /\ P(y) \in Nat /\ P(z) \in Nat
      BY <1>6
    <3>2. CASE P(x) < P(y) \/ P(y) < P(z)
      <4>1. P(x) <= P(y) /\ P(y) <= P(z)
        BY <1>8, <2>2, <3>1
      <4>2. P(x) < P(z)
        BY <3>1, <3>2, <4>1
      <4> QED
        BY <1>8, <4>2
    <3>3. CASE ~(P(x) < P(y)) /\ ~(P(y) < P(z))
      <4>1. P(x) = P(z) /\ ~IsData(x) /\ ~IsData(y)
            /\ (IsData(z) \/ <<y, z>> \in OrderOf(before)) /\ <<x, y>> \in OrderOf(before)
        BY <1>8, <2>2, <3>3
      <4>2. IsData(z) \/ <<x, z>> \in OrderOf(before)
        BY <1>5, <1>9, <4>1 DEF Orders
      <4> QED
        BY <1>8, <4>1, <4>2
    <3> QED
      BY <3>2, <3>3
  <2>3. ASSUME NEW x \in S, NEW y \in S PROVE x = y \/ <<x, y>> \in R \/ <<y, x>> \in R
    <3>1. P(x) \in Nat /\ P(y) \in Nat
      BY <1>6
    <3>2. P(x) < P(y) \/ P(y) < P(x) \/ P(x) = P(y)
      BY <3>1
    <3>3. CASE P(x) = P(y)
      <4>1. ~IsData(x) /\ ~IsData(y) => x = y \/ <<x, y>> \in OrderOf(before)
                                              \/ <<y, x>> \in OrderOf(before)
        BY <1>5, <1>9 DEF Orders
      <4> QED
        BY <1>8, <1>11, <3>3, <4>1
    <3> QED
      BY <1>8, <3>2, <3>3
  <2> QED
    BY <2>1, <2>2, <2>3 DEF Orders
<1>13. /\ M \in Seq(S) /\ Elements(M) = S /\ Distinct(M)
       /\ \A x, y \in S : Comes(M, x, y) <=> <<x, y>> \in R
  BY <1>1, <1>4, <1>12, InOrderIs
<1> HIDE DEF M
<1>14. M \in Seq(Ids) /\ ElementsOf(M) = S
  <2>1. M \in Seq(Ids)
    BY <1>4, <1>13
  <2> QED
    BY <1>13, <2>1, PlacesIn
<1>15. \A x, y \in StepSet : <<x, y>> \in R <=> <<x, y>> \in OrderOf(steps)
  <2> SUFFICES ASSUME NEW x \in StepSet, NEW y \in StepSet
               PROVE  <<x, y>> \in R <=> <<x, y>> \in OrderOf(steps)
    OBVIOUS
  <2>1. x \in S /\ y \in S
    BY DEF S
  <2>2. IsData(x) /\ IsData(y)
    BY DEF IsData, Deferred, StepSet, ElementsOf
  <2>3. <<x, y>> \in R <=> PlaceIn(steps, x) < PlaceIn(steps, y)
    BY <1>7, <1>8, <2>1, <2>2
  <2> QED
    BY <1>2, <2>3, OrderOfIs
<1>16. \A x, y \in A : <<x, y>> \in R <=> <<x, y>> \in OrderOf(before)
  <2> SUFFICES ASSUME NEW x \in A, NEW y \in A
               PROVE  <<x, y>> \in R <=> <<x, y>> \in OrderOf(before)
    OBVIOUS
  <2>1. x \in S /\ y \in S /\ ~IsData(x) /\ ~IsData(y)
    BY DEF S, A, IsData
  <2>2. P(x) \in Nat /\ P(y) \in Nat
    BY <1>6, <2>1
  <2>3. ASSUME <<x, y>> \in OrderOf(before) PROVE <<x, y>> \in R
    <3>1. P(x) <= P(y)
      BY <1>10, <2>3
    <3> QED
      BY <1>8, <2>1, <2>2, <2>3, <3>1
  <2>4. ASSUME <<x, y>> \in R, <<x, y>> \notin OrderOf(before) PROVE FALSE
    <3>1. P(x) < P(y)
      BY <1>8, <2>1, <2>4
    <3>2. x = y \/ <<y, x>> \in OrderOf(before)
      BY <1>9, <2>4 DEF Orders
    <3>3. P(y) <= P(x)
      BY <1>10, <2>2, <3>2
    <3> QED
      BY <2>2, <3>1, <3>3
  <2> QED
    BY <2>3, <2>4
<1>17. StepSet \subseteq S /\ A \subseteq S
  BY DEF S
<1>18. /\ \A x, y \in StepSet : Comes(M, x, y) <=> <<x, y>> \in OrderOf(steps)
       /\ \A x, y \in A : Comes(M, x, y) <=> <<x, y>> \in OrderOf(before)
  BY <1>13, <1>15, <1>16, <1>17
<1> QED
  BY <1>13, <1>14, <1>18 DEF M, A, S

\* The analyses come back as they were.
LEMMA AnalysesComeBack ==
  ASSUME steps \in Seq(Ids), NEW before, before \in Seq(Ids), Distinct(before),
         Deferred(steps, before)
  PROVE  AnalysesOf(WithDeferred(before)) = AnalysesOf(before)
<1> DEFINE M == WithDeferred(before)
           A == ElementsOf(before) \intersect Analyses
<1>1. /\ M \in Seq(Ids) /\ Distinct(M) /\ ElementsOf(M) = StepSet \union A
      /\ \A x, y \in A : Comes(M, x, y) <=> <<x, y>> \in OrderOf(before)
  BY WithDeferredIs
<1> HIDE DEF M
<1>2. ElementsOf(M) \intersect Analyses = A
  BY <1>1 DEF Deferred, StepSet, ElementsOf
<1>3. IsFiniteSet(A)
  BY PlacesIn, FS_Subset
<1>4. Orders(OrderOf(M), A) /\ Orders(OrderOf(before), A)
  BY <1>1, OrderOfIs DEF Orders
<1>5. \A x, y \in A : <<x, y>> \in OrderOf(M) <=> <<x, y>> \in OrderOf(before)
  BY <1>1, OrderOfIs
<1>6. InOrder(A, OrderOf(M)) = InOrder(A, OrderOf(before))
  BY <1>3, <1>4, <1>5, SameOrder
<1> QED
  BY <1>2, <1>6 DEF AnalysesOf, M

------------------------------------------------------------------------------
(* What holds whatever the two threads do at the same time.                  *)

\* A call of the main thread: what it has put aside, and what it puts back.
MainInv(c) ==
  /\ c.restores \intersect Caches \in {{}, Caches}
  /\ c.next \in {"return", "deferred", "discard"} \union (Analyses \ {ReportStep})
  /\ c.next \in {"deferred", "discard"} => "steps" \in c.restores
  /\ c.next = "deferred" => Deferred(steps, c.before.steps)
WorkerInv(c) == c.restores = {} /\ c.next = "return"

CallInv(t) ==
  LET c == call[t]
  IN  /\ c.pc = "walk" => Kept(c)
      /\ c.pc \in {"begin", "walk"} =>
           Filed(c.before) /\ IF t = "main" THEN MainInv(c) ELSE WorkerInv(c)
AInv == TInv /\ Filed(Now) /\ \A t \in Threads : CallInv(t)

LEMMA TwoThreads ==
  ASSUME AInv
  PROVE  /\ "main" \in Threads /\ "worker" \in Threads /\ "main" # "worker"
         /\ \A t \in Threads : t = "main" \/ t = "worker"
         /\ \A t \in Threads : Idle(t) <=> call[t].pc \notin {"begin", "walk"}
         /\ TInv /\ Filed(Now) /\ steps \in Seq(Ids) /\ Distinct(steps) /\ Kept(Now)
         /\ DOMAIN params = Ids /\ \A s \in Ids : params[s] \in ParamsOf(s)
<1>1. TInv /\ Filed(Now)
  BY DEF AInv
<1>2. \A t \in Threads : call[t].pc \in {"idle", "failed", "begin", "walk"}
  BY <1>1 DEF TInv, CallOK
<1>3. /\ steps \in Seq(Ids) /\ DOMAIN params = Ids /\ \A s \in Ids : params[s] \in ParamsOf(s)
  BY <1>1, NowOK DEF TInv
<1>4. Distinct(steps) /\ Kept(Now)
  BY <1>1, NowFields DEF Filed
<1> QED
  BY <1>1, <1>2, <1>3, <1>4, OpsAssumption DEF Idle

\* One thread acts; only the main thread changes the list of steps.
LEMMA OneActs ==
  ASSUME AInv, NEW t \in Threads, TInv', Filed(Now'), CallInv(t)',
         \A u \in Threads : u # t => call'[u] = call[u],
         t = "main" \/ steps' = steps
  PROVE  AInv'
<1>1. ASSUME NEW u \in Threads PROVE CallInv(u)'
  <2>1. CASE u = t
    BY <2>1
  <2>2. CASE u # t
    <3>1. call'[u] = call[u] /\ CallInv(u)
      BY <2>2 DEF AInv
    <3>2. CASE u = "main"
      <4>1. steps' = steps
        BY <2>2, <3>2
      <4> QED
        BY <3>1, <3>2, <4>1 DEF CallInv, MainInv, Deferred, StepSet
    <3>3. CASE u # "main"
      BY <3>1, <3>3 DEF CallInv
    <3> QED
      BY <3>2, <3>3
  <2> QED
    BY <2>1, <2>2
<1> QED
  BY <1>1 DEF AInv

\* A walk that goes on.
LEMMA GoesOnInv ==
  ASSUME AInv, NEW t \in Threads, GoesOn(t), Kept(call'[t]), TInv',
         call[t].pc \in {"begin", "walk"}
  PROVE  AInv'
<1>1. Filed(Now') /\ steps' = steps
  BY NowFields, NowFieldsNext DEF AInv, GoesOn
<1>2. CallInv(t)'
  <2>1. /\ call'[t].pc = "walk" /\ call'[t].restores = call[t].restores
        /\ call'[t].next = call[t].next /\ call'[t].before = call[t].before
    BY DEF GoesOn
  <2>2. CallInv(t)
    BY DEF AInv
  <2> QED
    BY <1>1, <2>1, <2>2 DEF CallInv, MainInv, WorkerInv, Deferred, StepSet
<1> QED
  BY <1>1, <1>2, OneActs DEF GoesOn

\* A call that raises restores all three caches or none.
LEMMA FailInv ==
  ASSUME AInv, NEW t \in Threads, call[t].pc \in {"begin", "walk"}, Fail(t)
  PROVE  AInv' /\ call'[t].pc = "failed"
<1> DEFINE c == call[t]
           b == c.before
<1>1. /\ steps'     = IF "steps" \in c.restores THEN b["steps"] ELSE steps
      /\ results'   = IF "results" \in c.restores THEN b["results"] ELSE results
      /\ owned'     = IF "owned" \in c.restores THEN b["owned"] ELSE owned
      /\ dirtyKeys' = IF "dirtyKeys" \in c.restores THEN b["dirtyKeys"] ELSE dirtyKeys
      /\ call' = [call EXCEPT ![t] = [pc |-> "failed"]]
  BY DEF Fail, Restored
<1>2. /\ Filed(b) /\ Filed(Now)
      /\ c.restores \intersect Caches \in {{}, Caches}
      /\ t = "main" \/ c.restores = {}
  BY DEF AInv, CallInv, MainInv, WorkerInv
<1>3. TInv'
  BY FailTypes DEF AInv
<1>4. \/ results' = b.results /\ owned' = b.owned /\ dirtyKeys' = b.dirtyKeys
      \/ results' = results /\ owned' = owned /\ dirtyKeys' = dirtyKeys
  BY <1>1, <1>2 DEF Caches
<1>5. Filed(Now')
  <2>1. Distinct(steps')
    BY <1>1, <1>2, NowFields DEF Filed
  <2>2. Kept(Now')
    <3>1. Kept(b) /\ Kept(Now)
      BY <1>2 DEF Filed
    <3> HIDE DEF b
    <3> QED
      BY <1>4, <3>1, NowFields, NowFieldsNext DEF Kept
  <2> QED
    BY <2>1, <2>2, NowFieldsNext DEF Filed
<1>6. call'[t].pc = "failed" /\ \A u \in Threads : u # t => call'[u] = call[u]
  BY <1>1 DEF AInv, TInv
<1>7. t = "main" \/ steps' = steps
  BY <1>1, <1>2
<1>8. CallInv(t)'
  BY <1>6 DEF CallInv
<1> QED
  BY <1>3, <1>5, <1>6, <1>7, <1>8, OneActs

\* A walk that ends publishes its three caches, and the list that it gives the pipeline.
LEMMA PublishInv ==
  ASSUME AInv, NEW t \in Threads, call[t].pc = "walk", steps' \in Seq(Ids), Distinct(steps'),
         t = "main" \/ steps' = steps,
         DOMAIN params' = Ids, \A s \in Ids : params'[s] \in ParamsOf(s),
         current' = call[t].ds, analyses' = call[t].an, results' = call[t].results,
         owned' = call[t].owned, dirtyKeys' = call[t].dirtyKeys,
         UNCHANGED <<file, source>>,
         call' = [call EXCEPT ![t] = [pc |-> "idle"]]
  PROVE  AInv' /\ call'[t].pc = "idle"
<1> DEFINE c == call[t]
<1>1. TInv /\ Kept(c)
  BY DEF AInv, CallInv
<1>2. /\ DOMAIN c.ds \subseteq Keys /\ DOMAIN c.an \subseteq Keys
      /\ ResultsOK(c.results) /\ PartialOn(c.owned, Ids, OwnerKeys)
      /\ PartialOn(c.dirtyKeys, Ids, Keys)
  BY <1>1, WalkFields
<1>3. PipeOK(Now)'
  <2>1. source \in Sources
    BY <1>1, NowOK DEF TInv
  <2> QED
    BY <1>2, <2>1, NowOKNext
<1>4. DOMAIN call' = Threads
      /\ \A u \in Threads : call'[u] = IF u = t THEN [pc |-> "idle"] ELSE call[u]
  BY <1>1 DEF TInv
<1>5. \A u \in Threads : CallOK(call'[u])
  BY <1>1, <1>4 DEF TInv, CallOK
<1>6. TInv'
  BY <1>1, <1>3, <1>4, <1>5 DEF TInv
<1>7. Filed(Now')
  BY <1>1, NowFieldsNext DEF Filed, Kept
<1>8. CallInv(t)'
  BY <1>4 DEF CallInv
<1> QED
  BY <1>4, <1>6, <1>7, <1>8, OneActs

LEMMA WalkInv ==
  ASSUME AInv, NEW t \in Threads, Walk(t)
  PROVE  AInv'
<1>1. TInv /\ TInv' /\ Kept(Now) /\ (call[t].pc = "walk" => Kept(call[t]))
  BY WalkTypes DEF AInv, Filed, CallInv
<1>2. call[t].pc \in {"begin", "walk"}
  BY DEF Walk, WalkBegin, WalkCached, WalkCompute, Commit, Ready
<1>3. CASE Fail(t)
  BY <1>2, <1>3, FailInv
<1>4. CASE ~Fail(t) /\ (WalkBegin(t) \/ WalkCached(t) \/ WalkCompute(t))
  <2>1. \/ WalkBegin(t) /\ Kept(Now)
        \/ (WalkCached(t) \/ WalkCompute(t)) /\ Kept(call[t])
    BY <1>1, <1>4 DEF WalkCached, WalkCompute
  <2>2. GoesOn(t) /\ Kept(call'[t])
    BY <1>1, <1>4, <2>1, KeptOn
  <2> QED
    BY <1>1, <1>2, <2>2, GoesOnInv
<1>5. CASE ~Fail(t) /\ Commit(t)
  <2>1. /\ Ready(t) /\ Publish(t) /\ steps' = steps
        /\ call' = [call EXCEPT ![t] = [pc |-> "idle"]]
    BY <1>5 DEF Commit
  <2> QED
    BY <2>1, PublishInv, TwoThreads DEF Ready, Publish
<1> QED
  BY <1>3, <1>4, <1>5 DEF Walk

\* Steps put aside: the caches are cut down to the steps that stay.
LEMMA KeptSteps ==
  ASSUME TInv, Kept(Now), NEW kept, NEW cached, KeepSteps(kept, cached)
  PROVE  /\ ResultsOK(results') /\ PartialOn(owned', Ids, OwnerKeys)
         /\ PartialOn(dirtyKeys', Ids, Keys) /\ DOMAIN analyses' = {} /\ Kept(Now')
         /\ DOMAIN results' = DOMAIN results \intersect ElementsOf(cached)
         /\ \A u \in DOMAIN results' :
              results'[u] = results[u] /\ owned'[u] = owned[u] /\ dirtyKeys'[u] = dirtyKeys[u]
<1> DEFINE W(f) == Without(f, Ids \ ElementsOf(cached))
<1>1. /\ results' = W(results) /\ owned' = W(owned) /\ dirtyKeys' = W(dirtyKeys)
      /\ analyses' = <<>>
  BY DEF KeepSteps
<1>2. /\ ResultsOK(results) /\ PartialOn(owned, Ids, OwnerKeys) /\ PartialOn(dirtyKeys, Ids, Keys)
      /\ DOMAIN owned = DOMAIN results /\ DOMAIN dirtyKeys = DOMAIN results
  BY NowOK, NowFields DEF TInv, Kept
<1>3. DOMAIN results \subseteq Ids
  BY <1>2 DEF ResultsOK
<1>4. /\ DOMAIN results' = DOMAIN results \intersect ElementsOf(cached)
      /\ DOMAIN owned' = DOMAIN results' /\ DOMAIN dirtyKeys' = DOMAIN results'
  BY <1>1, <1>2, <1>3 DEF Without
<1>5. \A u \in DOMAIN results' :
        results'[u] = results[u] /\ owned'[u] = owned[u] /\ dirtyKeys'[u] = dirtyKeys[u]
  BY <1>1, <1>4 DEF Without
<1>6. ResultsOK(results') /\ PartialOn(owned', Ids, OwnerKeys) /\ PartialOn(dirtyKeys', Ids, Keys)
  BY <1>2, <1>4, <1>5 DEF ResultsOK, PartialOn
<1>7. Kept(Now')
  BY <1>4, <1>5, NowFields, NowFieldsNext DEF Kept
<1>8. DOMAIN analyses' = {}
  BY <1>1
<1> QED
  BY <1>4, <1>5, <1>6, <1>7, <1>8

LEMMA DataStepsAre ==
  ASSUME steps \in Seq(Ids)
  PROVE  /\ DataSteps \in Seq(Ids) /\ Distinct(DataSteps)
         /\ Elements(DataSteps) = StepSet \ Analyses
         /\ ElementsOf(DataSteps) = StepSet \ Analyses
         /\ \A x, y \in StepSet \ Analyses :
              Comes(DataSteps, x, y) <=> <<x, y>> \in OrderOf(steps)
<1>1. StepSet \ Analyses \subseteq ElementsOf(steps)
  BY DEF StepSet, ElementsOf
<1> QED
  BY <1>1, PartOfList DEF DataSteps

\* A list without analyses that keeps the data steps in their order.
LEMMA DefersTo ==
  ASSUME steps \in Seq(Ids), NEW L, L \in Seq(Ids), Distinct(L),
         Elements(L) \intersect Analyses = {}, StepSet \ Analyses \subseteq Elements(L),
         \A x, y \in StepSet \ Analyses : <<x, y>> \in OrderOf(steps) => Comes(L, x, y)
  PROVE  Deferred(L, steps)
<1>1. ElementsOf(L) = Elements(L)
  BY PlacesIn
<1>2. StepSet = ElementsOf(steps)
  BY DEF StepSet, ElementsOf
<1>3. ASSUME NEW x \in StepSet \ Analyses, NEW y \in StepSet \ Analyses,
             <<x, y>> \in OrderOf(steps)
      PROVE  PlaceIn(L, x) < PlaceIn(L, y)
  <2>1. x \in ElementsOf(L) /\ y \in ElementsOf(L)
    BY <1>1
  <2>2. <<x, y>> \in OrderOf(L)
    BY <1>3, <2>1, OrderOfIs
  <2> QED
    BY <2>1, <2>2, OrderOfIs
<1> QED
  BY <1>1, <1>2, <1>3 DEF Deferred

\* A call of the main thread begins.
LEMMA StartInv ==
  ASSUME AInv, Idle("main"), NEW d, NEW keys, NEW restores, NEW next,
         Begin("main", d, keys, restores, next),
         steps' \in Seq(Ids), Distinct(steps'),
         DOMAIN params' = Ids, \A s \in Ids : params'[s] \in ParamsOf(s),
         ResultsOK(results'), PartialOn(owned', Ids, OwnerKeys),
         PartialOn(dirtyKeys', Ids, Keys), DOMAIN analyses' \subseteq Keys, Kept(Now'),
         UNCHANGED <<file, source, current>>,
         restores \intersect Caches \in {{}, Caches},
         next \in {"return", "deferred", "discard"} \union (Analyses \ {ReportStep}),
         next \in {"deferred", "discard"} => "steps" \in restores,
         next = "deferred" => Deferred(steps', steps)
  PROVE  AInv'
<1>1. TInv /\ "main" \in Threads /\ Filed(Now)
  BY TwoThreads
<1>2. /\ DOMAIN call' = Threads /\ \A u \in Threads : CallOK(call'[u])
      /\ call'["main"] = [pc |-> "begin", dirty |-> d, keys |-> keys, restores |-> restores,
                          next |-> next, before |-> Now]
  BY <1>1, BeginTypes
<1>3. \A u \in Threads : u # "main" => call'[u] = call[u]
  BY <1>1 DEF Begin, TInv
<1>4. PipeOK(Now)'
  <2>1. source \in Sources /\ DOMAIN current \subseteq Keys
    BY <1>1, NowOK DEF TInv
  <2> QED
    BY <2>1, NowOKNext
<1>5. TInv'
  BY <1>1, <1>2, <1>4 DEF TInv
<1>6. Filed(Now')
  BY NowFieldsNext DEF Filed
<1>7. CallInv("main")'
  <2>1. /\ call'["main"].pc = "begin" /\ call'["main"].restores = restores
        /\ call'["main"].next = next /\ call'["main"].before = Now
        /\ call'["main"].before.steps = steps
    BY <1>2, NowFields
  <2> QED
    BY <1>1, <2>1 DEF CallInv, MainInv
<1> QED
  BY <1>1, <1>3, <1>5, <1>6, <1>7, OneActs

\* ... and the pipeline is as it was, but for the list of steps and the parameters.
LEMMA StartSameInv ==
  ASSUME AInv, Idle("main"), NEW d, NEW keys, NEW restores, NEW next,
         Begin("main", d, keys, restores, next),
         steps' \in Seq(Ids), Distinct(steps'),
         DOMAIN params' = Ids, \A s \in Ids : params'[s] \in ParamsOf(s),
         UNCHANGED <<file, source, results, owned, dirtyKeys, current, analyses>>,
         restores \intersect Caches \in {{}, Caches},
         next \in {"return", "discard"}, next = "discard" => "steps" \in restores
  PROVE  AInv'
<1>1. /\ ResultsOK(results) /\ PartialOn(owned, Ids, OwnerKeys) /\ PartialOn(dirtyKeys, Ids, Keys)
      /\ DOMAIN analyses \subseteq Keys /\ Kept(Now)
  BY NowOK, TwoThreads DEF TInv
<1>2. Kept(Now')
  BY <1>1, NowFields, NowFieldsNext DEF Kept
<1> QED
  BY <1>1, <1>2, StartInv

LEMMA InsertDataInv ==
  ASSUME AInv, NEW s \in Ids, NEW p \in ParamsOf(s), InsertDataStep(s, p)
  PROVE  /\ AInv'
         /\ \E i \in 1..Len(DataSteps) : steps' = PutIn(DataSteps, i, s)
<1> DEFINE i == Behind(s, p)
           D == DataSteps
<1>1. /\ Idle("main") /\ s \notin StepSet /\ D # <<>> /\ s \notin Analyses
      /\ KeepSteps(PutIn(D, i, s), D) /\ steps' = PutIn(D, i, s)
      /\ params' = [params EXCEPT ![s] = p]
      /\ Begin("main", s, {}, Snapshot, "deferred")
      /\ UNCHANGED <<file, source, current>>
  BY DEF InsertDataStep, KeepSteps, PutIn, Editable, IsData
<1>2. /\ TInv /\ steps \in Seq(Ids) /\ Kept(Now)
      /\ DOMAIN params = Ids /\ \A u \in Ids : params[u] \in ParamsOf(u)
  BY TwoThreads
<1>3. /\ D \in Seq(Ids) /\ Distinct(D) /\ Elements(D) = StepSet \ Analyses
      /\ \A x, y \in StepSet \ Analyses : Comes(D, x, y) <=> <<x, y>> \in OrderOf(steps)
  BY <1>2, DataStepsAre
<1>4. i \in 1..Len(D)
  <2> DEFINE O == {j \in DOMAIN D : \E k \in Def[s][p].meta : current[k].meta.by = D[j]}
  <2>1. i = IF Def[s][p].meta = {} THEN Len(D)
            ELSE IF O = {} THEN 1 ELSE CHOOSE j \in O : TRUE
    BY DEF Behind
  <2>2. Len(D) \in Nat /\ Len(D) # 0 /\ DOMAIN D = 1..Len(D)
    BY <1>1, <1>3
  <2>3. O # {} => (CHOOSE j \in O : TRUE) \in 1..Len(D)
    <3>1. O \subseteq 1..Len(D)
      BY <2>2
    <3> HIDE DEF O
    <3> QED
      BY <3>1
  <2> HIDE DEF O, i, D
  <2> QED
    BY <2>1, <2>2, <2>3
<1> HIDE DEF i, D
<1>5. /\ steps' \in Seq(Ids) /\ Distinct(steps')
      /\ Elements(steps') = (StepSet \ Analyses) \union {s}
      /\ \A x, y \in StepSet \ Analyses : Comes(steps', x, y) <=> Comes(D, x, y)
  BY <1>1, <1>3, <1>4, PutInOK, InsertList
<1>6. Deferred(steps', steps)
  <2>1. Elements(steps') \intersect Analyses = {}
    BY <1>1, <1>5
  <2> QED
    BY <1>2, <1>3, <1>5, <2>1, DefersTo
<1>7. /\ ResultsOK(results') /\ PartialOn(owned', Ids, OwnerKeys)
      /\ PartialOn(dirtyKeys', Ids, Keys) /\ DOMAIN analyses' = {} /\ Kept(Now')
  BY <1>1, <1>2, KeptSteps
<1>8. DOMAIN params' = Ids /\ \A u \in Ids : params'[u] \in ParamsOf(u)
  BY <1>1, <1>2
<1>9. Snapshot \intersect Caches = Caches /\ "steps" \in Snapshot
  BY DEF Snapshot, Caches
<1>10. AInv'
  BY <1>1, <1>5, <1>6, <1>7, <1>8, <1>9, StartInv
<1> QED
  BY <1>1, <1>4, <1>10 DEF D

LEMMA EditDataInv ==
  ASSUME AInv, NEW s \in Ids, NEW p \in ParamsOf(s), EditDataStep(s, p)
  PROVE  AInv'
<1> DEFINE D == DataSteps
           keys == IF s \in DOMAIN dirtyKeys THEN dirtyKeys[s] ELSE StaticKeys(s)
<1>1. /\ Idle("main") /\ KeepSteps(D, D) /\ steps' = D
      /\ params' = [params EXCEPT ![s] = p]
      /\ Begin("main", s, keys, Snapshot \union {"params"}, "deferred")
      /\ UNCHANGED <<file, source, current>>
  BY DEF EditDataStep, KeepSteps
<1>2. /\ TInv /\ steps \in Seq(Ids) /\ Kept(Now)
      /\ DOMAIN params = Ids /\ \A u \in Ids : params[u] \in ParamsOf(u)
  BY TwoThreads
<1>3. /\ D \in Seq(Ids) /\ Distinct(D) /\ Elements(D) = StepSet \ Analyses
      /\ \A x, y \in StepSet \ Analyses : Comes(D, x, y) <=> <<x, y>> \in OrderOf(steps)
  BY <1>2, DataStepsAre
<1> HIDE DEF D, keys
<1>4. Deferred(steps', steps)
  <2>1. Elements(D) \intersect Analyses = {}
    BY <1>3
  <2> QED
    BY <1>1, <1>2, <1>3, <2>1, DefersTo
<1>5. /\ ResultsOK(results') /\ PartialOn(owned', Ids, OwnerKeys)
      /\ PartialOn(dirtyKeys', Ids, Keys) /\ DOMAIN analyses' = {} /\ Kept(Now')
  BY <1>1, <1>2, KeptSteps
<1>6. DOMAIN params' = Ids /\ \A u \in Ids : params'[u] \in ParamsOf(u)
  BY <1>1, <1>2
<1>7. (Snapshot \union {"params"}) \intersect Caches = Caches /\ "steps" \in Snapshot
  BY DEF Snapshot, Caches
<1> QED
  BY <1>1, <1>3, <1>4, <1>5, <1>6, <1>7, StartInv

LEMMA SelectInv ==
  ASSUME AInv, NEW a, SelectAnalysis(a)
  PROVE  AInv'
<1> DEFINE kept == InOrder(StepSet \ Managed, OrderOf(steps))
<1>1. /\ Idle("main") /\ a \in Analyses \ {ReportStep}
      /\ KeepSteps(kept, kept) /\ steps' = kept
      /\ Begin("main", NoOne, {}, Snapshot, a)
      /\ UNCHANGED <<file, source, params, current>>
  BY DEF SelectAnalysis, KeepSteps
<1>2. /\ TInv /\ steps \in Seq(Ids) /\ Kept(Now)
      /\ DOMAIN params = Ids /\ \A u \in Ids : params[u] \in ParamsOf(u)
  BY TwoThreads
<1>3. kept \in Seq(Ids) /\ Distinct(kept)
  <2>1. StepSet \ Managed \subseteq ElementsOf(steps)
    BY DEF StepSet, ElementsOf
  <2> QED
    BY <1>2, <2>1, PartOfList
<1> HIDE DEF kept
<1>4. /\ ResultsOK(results') /\ PartialOn(owned', Ids, OwnerKeys)
      /\ PartialOn(dirtyKeys', Ids, Keys) /\ DOMAIN analyses' = {} /\ Kept(Now')
  BY <1>1, <1>2, KeptSteps
<1>5. Snapshot \intersect Caches = Caches /\ a \notin {"return", "deferred", "discard"}
  BY <1>1, StepsAssumption, OpsAssumption DEF Snapshot, Caches
<1> QED
  BY <1>1, <1>2, <1>3, <1>4, <1>5, StartInv

LEMMA ConfirmInv ==
  ASSUME AInv, NEW a \in Ids, NEW p \in ParamsOf(a), ConfirmPreparation(a, p)
  PROVE  AInv'
<1> DEFINE D == DataSteps
<1>1. /\ Idle("main") /\ a \in Analyses
      /\ KeepSteps(Append(D, a), D) /\ steps' = Append(D, a)
      /\ params' = [params EXCEPT ![a] = p]
      /\ UNCHANGED <<file, source, current, call>>
  BY DEF ConfirmPreparation, KeepSteps
<1>2. /\ TInv /\ steps \in Seq(Ids) /\ Kept(Now) /\ "main" \in Threads
      /\ DOMAIN params = Ids /\ \A u \in Ids : params[u] \in ParamsOf(u)
      /\ call["main"].pc \notin {"begin", "walk"}
  BY <1>1, TwoThreads
<1>3. D \in Seq(Ids) /\ Distinct(D) /\ Elements(D) = StepSet \ Analyses
  BY <1>2, DataStepsAre
<1> HIDE DEF D
<1>4. steps' \in Seq(Ids) /\ Distinct(steps')
  BY <1>1, <1>3, AppendList
<1>5. /\ ResultsOK(results') /\ PartialOn(owned', Ids, OwnerKeys)
      /\ PartialOn(dirtyKeys', Ids, Keys) /\ DOMAIN analyses' = {} /\ Kept(Now')
  BY <1>1, <1>2, KeptSteps
<1>6. DOMAIN params' = Ids /\ \A u \in Ids : params'[u] \in ParamsOf(u)
  BY <1>1, <1>2
<1>7. source \in Sources /\ DOMAIN current \subseteq Keys
  BY <1>2, NowOK DEF TInv
<1>8. PipeOK(Now)'
  BY <1>1, <1>4, <1>5, <1>6, <1>7, NowOKNext
<1>9. TInv'
  BY <1>1, <1>2, <1>8 DEF TInv
<1>10. Filed(Now')
  BY <1>4, <1>5, NowFieldsNext DEF Filed
<1>11. CallInv("main")'
  BY <1>1, <1>2 DEF CallInv
<1> QED
  BY <1>1, <1>2, <1>9, <1>10, <1>11, OneActs

\* What the main thread edits, or recomputes, without changing the list.
LEMMA ExportInv ==
  ASSUME AInv, ExportReport
  PROVE  AInv'
<1>1. /\ steps \in Seq(Ids) /\ Distinct(steps) /\ DOMAIN params = Ids
      /\ \A u \in Ids : params[u] \in ParamsOf(u)
  BY TwoThreads
<1>2. ASSUME NEW p \in ParamsOf(ReportStep), EditParams("main", ReportStep, p) PROVE AInv'
  <2> DEFINE keys == IF ReportStep \in DOMAIN dirtyKeys THEN dirtyKeys[ReportStep]
                     ELSE StaticKeys(ReportStep)
  <2>1. /\ Idle("main") /\ params' = [params EXCEPT ![ReportStep] = p] /\ steps' = steps
        /\ Begin("main", ReportStep, keys, EditRestores, "return")
        /\ UNCHANGED <<file, source, results, owned, dirtyKeys, current, analyses>>
    BY <1>2 DEF EditParams
  <2> HIDE DEF keys
  <2>2. DOMAIN params' = Ids /\ \A u \in Ids : params'[u] \in ParamsOf(u)
    BY <1>1, <2>1
  <2>3. EditRestores \intersect Caches \in {{}, Caches}
    BY DEF EditRestores, Caches
  <2> QED
    BY <1>1, <2>1, <2>2, <2>3, StartSameInv
<1>3. ASSUME Recompute("main", NoOne) PROVE AInv'
  BY <1>1, <1>3, StartSameInv DEF Recompute, pipeline
<1> QED
  BY <1>2, <1>3 DEF ExportReport

\* The analysis of a pipeline without a report, and the report for it.
LEMMA ReportFor ==
  ASSUME NEW a \in Analyses \ {ReportStep}, NEW p \in ParamsOf(a)
  PROVE  LET r == ReportOf(a, p)
         IN  /\ r \in ParamsOf(ReportStep) /\ Def[ReportStep][r].inputs = {a}
             /\ Def[ReportStep][r].needs \subseteq Def[a][p].writes \union Aliases[a]
<1>1. \E r \in ParamsOf(ReportStep) :
        /\ Def[ReportStep][r].inputs = {a}
        /\ Def[ReportStep][r].needs \subseteq Def[a][p].writes \union Aliases[a]
  BY OpsAssumption
<1> QED
  BY <1>1 DEF ReportOf

LEMMA ExportResearchInv ==
  ASSUME AInv, ExportResearchReport
  PROVE  AInv'
<1>1. /\ steps \in Seq(Ids) /\ Distinct(steps) /\ DOMAIN params = Ids
      /\ \A u \in Ids : params[u] \in ParamsOf(u)
  BY TwoThreads
<1>2. PICK a \in Analyses :
        /\ Idle("main") /\ ReportStep \notin StepSet /\ {s \in StepSet : ~IsData(s)} = {a}
        /\ steps' = Append(steps, ReportStep)
        /\ params' = [params EXCEPT ![ReportStep] = ReportOf(a, params[a])]
        /\ Begin("main", ReportStep, {}, Snapshot, "discard")
        /\ UNCHANGED <<file, source, results, owned, dirtyKeys, current, analyses>>
  BY DEF ExportResearchReport
<1>3. a # ReportStep /\ ReportStep \in Ids /\ params[a] \in ParamsOf(a)
  BY <1>1, <1>2, OpsAssumption, StepsAssumption
<1>4. DOMAIN params' = Ids /\ \A u \in Ids : params'[u] \in ParamsOf(u)
  BY <1>1, <1>2, <1>3, ReportFor
<1>5. steps' \in Seq(Ids) /\ Distinct(steps')
  <2>1. ReportStep \notin Elements(steps)
    BY <1>1, <1>2, StepsOfNow
  <2> QED
    BY <1>1, <1>2, <1>3, <2>1, AppendList
<1>6. Snapshot \intersect Caches = Caches /\ "steps" \in Snapshot
  BY DEF Snapshot, Caches
<1> QED
  BY <1>2, <1>4, <1>5, <1>6, StartSameInv

LEMMA CommitDataInv ==
  ASSUME AInv, CommitDataStep
  PROVE  /\ AInv' /\ call["main"].pc = "walk"
         /\ AnalysesOf(steps') = AnalysesOf(call["main"].before.steps)
<1> DEFINE c == call["main"]
           b == c.before.steps
<1>1. c.pc = "walk" /\ c.next = "deferred" /\ Ready("main")
  BY DEF CommitDataStep, Ready
<1>2. /\ TInv /\ steps \in Seq(Ids) /\ "main" \in Threads
      /\ DOMAIN params = Ids /\ \A u \in Ids : params[u] \in ParamsOf(u)
  BY TwoThreads
<1>3. b \in Seq(Ids)
  BY <1>1, <1>2 DEF TInv, CallOK, PipeOK
<1>4. Distinct(b) /\ Deferred(steps, b) /\ "steps" \in c.restores
  BY <1>1, <1>2 DEF AInv, CallInv, MainInv, Filed
<1>5. CASE Fail("main")
  <2>1. steps' = b
    BY <1>4, <1>5 DEF Fail, Restored
  <2> QED
    BY <1>1, <1>2, <1>5, <2>1, FailInv
<1>6. CASE ~Fail("main")
  <2>1. /\ Publish("main") /\ steps' = WithDeferred(b)
        /\ call' = [call EXCEPT !["main"] = [pc |-> "idle"]]
    BY <1>6 DEF CommitDataStep
  <2>2. steps' \in Seq(Ids) /\ Distinct(steps') /\ AnalysesOf(steps') = AnalysesOf(b)
    BY <1>2, <1>3, <1>4, <2>1, WithDeferredIs, AnalysesComeBack
  <2> QED
    BY <1>1, <1>2, <2>1, <2>2, PublishInv DEF Publish
<1> QED
  BY <1>5, <1>6

\* Two more steps at the end of the list.
LEMMA AppendTwo ==
  ASSUME NEW L, L \in Seq(Ids), Distinct(L), NEW a \in Ids, NEW r \in Ids, a # r,
         a \notin Elements(L), r \notin Elements(L)
  PROVE  LET M == L \o <<a, r>>
         IN  /\ M \in Seq(Ids) /\ Distinct(M) /\ Elements(M) = Elements(L) \union {a, r}
             /\ \A x, y \in Elements(L) : Comes(M, x, y) <=> Comes(L, x, y)
             /\ \A x \in Elements(L) : ~Comes(M, a, x) /\ ~Comes(M, r, x)
<1> DEFINE K == Append(L, a)
           M == Append(K, r)
<1>1. M = L \o <<a, r>>
  OBVIOUS
<1>2. /\ K \in Seq(Ids) /\ Distinct(K) /\ Elements(K) = Elements(L) \union {a}
      /\ \A x, y \in Elements(L) : Comes(K, x, y) <=> Comes(L, x, y)
      /\ \A x : ~Comes(K, a, x)
  BY AppendList
<1> HIDE DEF K
<1>3. /\ M \in Seq(Ids) /\ Distinct(M) /\ Elements(M) = Elements(K) \union {r}
      /\ \A x, y \in Elements(K) : Comes(M, x, y) <=> Comes(K, x, y)
      /\ \A x : ~Comes(M, r, x)
  BY <1>2, AppendList
<1> HIDE DEF M
<1>4. /\ M \in Seq(Ids) /\ Distinct(M) /\ Elements(M) = Elements(L) \union {a, r}
      /\ \A x, y \in Elements(L) : Comes(M, x, y) <=> Comes(L, x, y)
      /\ \A x \in Elements(L) : ~Comes(M, a, x) /\ ~Comes(M, r, x)
  BY <1>2, <1>3
<1> QED
  BY <1>1, <1>4

\* The selected analysis and its report, which have been put in behind the rest.
LEMMA Selected ==
  ASSUME AInv, CommitSelection, ~Fail("main")
  PROVE  LET c == call["main"]
             a == c.next
         IN  /\ c.pc = "walk" /\ Ready("main") /\ a \in Analyses \ {ReportStep}
             /\ a \in Ids /\ ReportStep \in Ids
             /\ a \notin StepSet /\ ReportStep \notin StepSet
             /\ current' = c.ds /\ analyses' = c.an /\ results' = c.results
             /\ owned' = c.owned /\ dirtyKeys' = c.dirtyKeys
             /\ steps' = steps \o <<a, ReportStep>> /\ steps' \in Seq(Ids) /\ Distinct(steps')
             /\ Elements(steps') = StepSet \union {a, ReportStep}
             /\ \A x, y \in StepSet : Comes(steps', x, y) <=> Comes(steps, x, y)
             /\ \A x \in StepSet : ~Comes(steps', a, x) /\ ~Comes(steps', ReportStep, x)
             /\ DOMAIN params' = Ids /\ \A u \in Ids : params'[u] \in ParamsOf(u)
             /\ \A u \in Ids : u # a /\ u # ReportStep => params'[u] = params[u]
             /\ call' = [call EXCEPT !["main"] = [pc |-> "idle"]]
             /\ UNCHANGED <<file, source>>
<1> DEFINE c == call["main"]
           a == c.next
<1>1. PICK p \in ParamsOf(a) :
        /\ Ready("main") /\ a \in Analyses
        /\ MayAdd(StepSet, a, p) /\ MayAdd(StepSet, ReportStep, ReportOf(a, p))
        /\ current' = c.ds /\ analyses' = c.an /\ results' = c.results
        /\ owned' = c.owned /\ dirtyKeys' = c.dirtyKeys
        /\ steps' = steps \o <<a, ReportStep>>
        /\ params' = [params EXCEPT ![a] = p, ![ReportStep] = ReportOf(a, p)]
        /\ call' = [call EXCEPT !["main"] = [pc |-> "idle"]]
        /\ UNCHANGED <<file, source>>
  BY DEF CommitSelection
<1>2. /\ TInv /\ steps \in Seq(Ids) /\ Distinct(steps) /\ "main" \in Threads
      /\ DOMAIN params = Ids /\ \A u \in Ids : params[u] \in ParamsOf(u)
  BY TwoThreads
<1>3. c.pc = "walk" /\ a \in Analyses \ {ReportStep}
  <2>1. c.pc = "walk" /\ MainInv(c)
    BY <1>1, <1>2 DEF Ready, AInv, CallInv
  <2> QED
    BY <1>1, <2>1, OpsAssumption, StepsAssumption DEF MainInv
<1> HIDE DEF a, c
<1>4. a \in Ids /\ ReportStep \in Ids /\ a \notin StepSet /\ ReportStep \notin StepSet
  BY <1>1, <1>3, OpsAssumption, StepsAssumption DEF MayAdd
<1>5. StepSet = Elements(steps)
  BY <1>2, StepsOfNow
<1>6. /\ steps' \in Seq(Ids) /\ Distinct(steps')
      /\ Elements(steps') = StepSet \union {a, ReportStep}
      /\ \A x, y \in StepSet : Comes(steps', x, y) <=> Comes(steps, x, y)
      /\ \A x \in StepSet : ~Comes(steps', a, x) /\ ~Comes(steps', ReportStep, x)
  BY <1>1, <1>2, <1>3, <1>4, <1>5, AppendTwo
<1>7. /\ DOMAIN params' = Ids /\ \A u \in Ids : params'[u] \in ParamsOf(u)
      /\ \A u \in Ids : u # a /\ u # ReportStep => params'[u] = params[u]
  BY <1>1, <1>2, <1>3, <1>4, ReportFor
<1> QED
  BY <1>1, <1>3, <1>4, <1>6, <1>7 DEF a, c

LEMMA CommitSelectionInv ==
  ASSUME AInv, CommitSelection
  PROVE  AInv' /\ call["main"].pc = "walk" /\ call["main"].next \in Analyses
<1>1. call["main"].pc = "walk" /\ call["main"].next \in Analyses /\ "main" \in Threads
  BY TwoThreads DEF CommitSelection, Ready
<1>2. CASE Fail("main")
  BY <1>1, <1>2, FailInv
<1>3. CASE ~Fail("main")
  BY <1>1, <1>3, Selected, PublishInv
<1> QED
  BY <1>1, <1>2, <1>3

\* The new pipeline of a session: its import has been run.
LEMMA OpsInitInv ==
  ASSUME OpsInit
  PROVE  /\ AInv /\ AllIdle /\ ~beside /\ ~torn
         /\ file \in Files \ {Gone}
         /\ \E i \in Imports :
              LET r == Compute(i, file, SourceData, <<>>)
              IN  /\ steps = <<i>> /\ StepSet = {i} /\ Elements(steps) = {i}
                  /\ DOMAIN results = {i} /\ results[i] = r
                  /\ owned[i] = Declared(i) /\ dirtyKeys[i] = ResultKeys(i, r)
                  /\ current = WithUpdates(SourceData, r) /\ analyses = <<>>
<1>1. PICK i \in Imports :
        LET r == Compute(i, file, SourceData, <<>>)
        IN  /\ file \in Files \ {Gone} /\ source \in Sources
            /\ steps = <<i>>
            /\ params \in [Ids -> UNION {ParamsOf(s) : s \in Ids}]
            /\ \A s \in Ids : params[s] = CHOOSE p \in ParamsOf(s) : TRUE
            /\ results = [s \in {i} |-> r]
            /\ owned = [s \in {i} |-> Declared(i)]
            /\ dirtyKeys = [s \in {i} |-> ResultKeys(i, r)]
            /\ current = WithUpdates(SourceData, r)
            /\ analyses = <<>>
            /\ call = [t \in Threads |-> [pc |-> "idle"]]
            /\ beside = FALSE /\ torn = FALSE
  BY DEF OpsInit
<1> DEFINE r == Compute(i, file, SourceData, <<>>)
<1>2. i \in Ids /\ i \notin Analyses
  BY StepsAssumption
<1>3. DOMAIN params = Ids /\ \A s \in Ids : params[s] \in ParamsOf(s)
  <2>1. DOMAIN params = Ids
    BY <1>1
  <2>2. ASSUME NEW s \in Ids PROVE params[s] \in ParamsOf(s)
    <3>1. \E p \in ParamsOf(s) : TRUE
      BY StepsAssumption
    <3>2. params[s] = CHOOSE p \in ParamsOf(s) : TRUE
      BY <1>1
    <3> QED
      BY <3>1, <3>2
  <2> QED
    BY <2>1, <2>2
<1>4. /\ steps \in Seq(Ids) /\ StepSet = {i} /\ Elements(steps) = {i} /\ Distinct(steps)
  <2>1. steps = <<i>>
    BY <1>1
  <2>2. steps \in Seq(Ids) /\ Len(steps) = 1 /\ steps[1] = i
    BY <1>2, <2>1
  <2>3. Elements(steps) = {i} /\ Distinct(steps)
    BY <2>2 DEF Elements, Distinct
  <2> QED
    BY <2>2, <2>3, StepsOfNow
<1>5. /\ r.cols = Writes(i, file) /\ r.vars = r.cols \union Meta(i)
      /\ Writes(i, file) \subseteq Keys /\ Meta(i) \subseteq Keys /\ Aliases[i] \subseteq Keys
      /\ Owned(i, Writes(i, file)) \subseteq OwnerKeys
  <2>1. file \in Files
    BY <1>1
  <2>2. /\ r.cols = (IF i \in Analyses THEN {} ELSE Writes(i, file))
        /\ r.vars = r.cols \union Meta(i)
    BY ComputeFields
  <2> HIDE DEF r
  <2> QED
    BY <1>2, <1>3, <2>1, <2>2, WritesOK
<1>6. /\ DOMAIN results = {i} /\ results[i] = r
      /\ DOMAIN owned = {i} /\ owned[i] = Declared(i)
      /\ DOMAIN dirtyKeys = {i} /\ dirtyKeys[i] = ResultKeys(i, r)
      /\ DOMAIN analyses = {} /\ analyses = <<>>
  <2> HIDE DEF r
  <2>1. /\ results = [s \in {i} |-> r] /\ owned = [s \in {i} |-> Declared(i)]
        /\ dirtyKeys = [s \in {i} |-> ResultKeys(i, r)] /\ analyses = <<>>
    BY <1>1 DEF r
  <2> QED
    BY <2>1
<1>7. DOMAIN current \subseteq Keys
  <2>1. current = WithUpdates(SourceData, r) /\ source \in Sources
    BY <1>1
  <2>2. DOMAIN SourceData = Columns[source] /\ Columns[source] \subseteq Keys
    BY <2>1, StepsAssumption DEF SourceData
  <2> HIDE DEF r
  <2> QED
    BY <1>5, <2>1, <2>2, WithUpdatesDomain
<1>8. ResultKeys(i, r) = r.vars
  <2> HIDE DEF r
  <2> QED
    BY <1>2 DEF ResultKeys
<1>9. PipeOK(Now)
  <2>1. source \in Sources
    BY <1>1
  <2>2. ResultsOK(results)
    <3> HIDE DEF r
    <3> QED
      BY <1>2, <1>5, <1>6 DEF ResultsOK
  <2>3. PartialOn(owned, Ids, OwnerKeys)
    BY <1>2, <1>5, <1>6 DEF PartialOn, Declared
  <2>4. PartialOn(dirtyKeys, Ids, Keys)
    <3> HIDE DEF r
    <3> QED
      BY <1>2, <1>5, <1>6, <1>8 DEF PartialOn
  <2>5. DOMAIN analyses \subseteq Keys
    BY <1>6
  <2> QED
    BY <1>3, <1>4, <1>7, <2>1, <2>2, <2>3, <2>4, <2>5, NowOK
<1>10. DOMAIN call = Threads /\ \A t \in Threads : call[t] = [pc |-> "idle"]
  BY <1>1
<1>11. TInv
  <2>1. \A t \in Threads : CallOK(call[t])
    BY <1>10 DEF CallOK
  <2> QED
    BY <1>1, <1>9, <1>10, <2>1 DEF TInv
<1>12. Filed(Now)
  <2>1. Kept(Now)
    <3> HIDE DEF r
    <3> QED
      BY <1>5, <1>6, <1>8, NowFields DEF Kept
  <2> QED
    BY <1>4, <2>1, NowFields DEF Filed
<1>13. AInv
  BY <1>10, <1>11, <1>12 DEF AInv, CallInv
<1>14. AllIdle /\ ~beside /\ ~torn
  BY <1>1, <1>10 DEF AllIdle, Idle
<1> QED
  BY <1>1, <1>4, <1>6, <1>13, <1>14

LEMMA MainActsInv ==
  ASSUME AInv, MainActs
  PROVE  AInv'
<1>1. ASSUME NEW s \in Ids, SelectAnalysis(s) PROVE AInv'
  BY <1>1, SelectInv
<1>2. ASSUME NEW s \in Ids, NEW p \in ParamsOf(s),
             InsertDataStep(s, p) \/ EditDataStep(s, p) \/ ConfirmPreparation(s, p)
      PROVE  AInv'
  BY <1>2, InsertDataInv, EditDataInv, ConfirmInv
<1>3. CASE Walk("main")
  BY <1>3, TwoThreads, WalkInv
<1>4. CASE CommitResearchReport
  <2>1. Fail("main") /\ call["main"].pc = "walk"
    BY <1>4 DEF CommitResearchReport, Ready
  <2> QED
    BY <2>1, TwoThreads, FailInv
<1> QED
  BY <1>1, <1>2, <1>3, <1>4, CommitDataInv, CommitSelectionInv, ExportInv, ExportResearchInv
  DEF MainActs

\* The worker's call begins: nothing else changes.
LEMMA RerunInv ==
  ASSUME AInv, Recompute("worker", NoOne)
  PROVE  /\ AInv' /\ Idle("worker") /\ Now' = Now
         /\ call'["worker"].pc = "begin" /\ call'["worker"].dirty = NoOne
         /\ \A u \in Threads : u # "worker" => call'[u] = call[u]
<1>1. /\ Idle("worker") /\ Begin("worker", NoOne, {}, {}, "return")
      /\ UNCHANGED <<file, pipeline>>
  BY DEF Recompute
<1>2. TInv /\ "worker" \in Threads /\ "worker" # "main" /\ Filed(Now)
  BY TwoThreads
<1>3. /\ DOMAIN call' = Threads /\ \A u \in Threads : CallOK(call'[u])
      /\ call'["worker"] = [pc |-> "begin", dirty |-> NoOne, keys |-> {}, restores |-> {},
                            next |-> "return", before |-> Now]
  BY <1>1, <1>2, BeginTypes
<1>4. \A u \in Threads : u # "worker" => call'[u] = call[u]
  BY <1>1, <1>2 DEF Begin, TInv
<1>5. Now' = Now /\ steps' = steps
  BY <1>1 DEF Now, pipeline
<1>6. TInv'
  BY <1>1, <1>2, <1>3, <1>5 DEF TInv
<1>7. CallInv("worker")'
  <2>1. /\ call'["worker"].pc = "begin" /\ call'["worker"].restores = {}
        /\ call'["worker"].next = "return" /\ call'["worker"].before = Now
    BY <1>3
  <2> QED
    BY <1>2, <2>1 DEF CallInv, WorkerInv
<1>8. AInv'
  BY <1>2, <1>4, <1>5, <1>6, <1>7, OneActs
<1>9. call'["worker"].pc = "begin" /\ call'["worker"].dirty = NoOne
  BY <1>3
<1> QED
  BY <1>1, <1>4, <1>5, <1>8, <1>9

\* What the worker does changes no call but its own.
LEMMA WorkerOnly ==
  ASSUME AInv, Walk("worker") \/ Recompute("worker", NoOne)
  PROVE  \A u \in Threads : u # "worker" => call'[u] = call[u]
<1>1. TInv /\ "worker" \in Threads
  BY TwoThreads
<1>2. CASE Recompute("worker", NoOne)
  BY <1>2, RerunInv
<1>3. CASE Fail("worker")
  BY <1>1, <1>3 DEF Fail, TInv
<1>4. CASE ~Fail("worker") /\ Walk("worker")
  <2>1. CASE Commit("worker")
    BY <1>1, <1>4, <2>1, CommitFacts
  <2>2. CASE WalkBegin("worker") \/ WalkCached("worker") \/ WalkCompute("worker")
    BY <1>1, <1>4, <2>2, BegunWalk, CachedWalk, ComputedFacts DEF GoesOn
  <2> QED
    BY <1>4, <2>1, <2>2 DEF Walk
<1> QED
  BY <1>2, <1>3, <1>4

LEMMA StandsInv ==
  ASSUME AInv, file' \in Files, UNCHANGED <<pipeline, call>>
  PROVE  AInv' /\ Now' = Now
<1>1. Now' = Now /\ steps' = steps
  BY DEF Now, pipeline
<1>2. TInv'
  BY <1>1 DEF AInv, TInv
<1>3. \A t \in Threads : CallInv(t)'
  BY <1>1 DEF AInv, CallInv, MainInv, WorkerInv, Deferred
<1> QED
  BY <1>1, <1>2, <1>3 DEF AInv

LEMMA OpsNextInv == AInv /\ [OpsNext]_opsVars => AInv'
<1> SUFFICES ASSUME AInv, [OpsNext]_opsVars PROVE AInv'
  OBVIOUS
<1>1. CASE MainActs
  BY <1>1, MainActsInv
<1>2. CASE WorkerActs
  BY <1>2, TwoThreads, WalkInv, RerunInv DEF WorkerActs
<1>3. CASE FileChanges
  BY <1>3, StandsInv DEF FileChanges
<1>4. CASE UNCHANGED opsVars
  <2>1. file' = file /\ file \in Files
    BY <1>4 DEF AInv, TInv, opsVars, vars
  <2> QED
    BY <1>4, <2>1, StandsInv DEF opsVars, vars
<1> QED
  BY <1>1, <1>2, <1>3, <1>4 DEF OpsNext

LEMMA OpsAlways == OpsSpec => []AInv
<1>1. OpsInit => AInv
  BY OpsInitInv
<1> QED
  BY <1>1, OpsNextInv, PTL DEF OpsSpec

------------------------------------------------------------------------------
(* The properties that need no order between the two threads.                *)

\* The two threads may interleave their calls in any way, and calls may fail: the pipeline
\* keeps its types, and no step is ever in it twice.
THEOREM OpsTypes == OpsSpec => [](TypeOK /\ Distinct(steps))
<1>1. AInv => TypeOK /\ Distinct(steps)
  <2> SUFFICES ASSUME AInv PROVE TypeOK /\ Distinct(steps)
    OBVIOUS
  <2> QED
    BY TwoThreads, TypesHold
<1> QED
  BY OpsAlways, <1>1, PTL

\* Whatever is done with the data, and whatever the worker publishes meanwhile, the analyses
\* that were selected are there when the call of the main thread is over, in the order that
\* they had (AnalysesSurvive): _restore_deferred_analysis_steps puts every one back.
THEOREM SelectedAnalysesSurvive == OpsSpec => AnalysesSurvive
<1>1. AInv /\ [OpsNext]_opsVars =>
        [call["main"].pc = "walk" /\ call["main"].next \in {"deferred", "discard"}
           /\ Idle("main")'
         => AnalysesOf(steps') = AnalysesOf(call["main"].before.steps)]_opsVars
  <2> SUFFICES ASSUME AInv, [OpsNext]_opsVars, call["main"].pc = "walk",
                      call["main"].next \in {"deferred", "discard"}, Idle("main")'
               PROVE  \/ AnalysesOf(steps') = AnalysesOf(call["main"].before.steps)
                      \/ UNCHANGED opsVars
    OBVIOUS
  <2>1. /\ "main" \in Threads /\ "worker" \in Threads /\ "main" # "worker" /\ ~Idle("main")
        /\ MainInv(call["main"])
    BY TwoThreads DEF AInv, CallInv
  <2>2. call'["main"] # call["main"]
    BY <2>1 DEF Idle
  <2>3. CASE UNCHANGED call
    BY <2>2, <2>3
  <2>4. CASE WorkerActs
    <3>1. \A u \in Threads : u # "worker" => call'[u] = call[u]
      BY <2>4, WorkerOnly DEF WorkerActs
    <3> QED
      BY <2>1, <2>2, <3>1
  <2>5. CASE Fail("main")
    BY <2>1, <2>5 DEF MainInv, Fail, Restored
  <2>6. CASE CommitDataStep
    BY <2>6, CommitDataInv
  <2>7. CASE CommitSelection
    <3>1. call["main"].next \in Ids
      BY <2>7, CommitSelectionInv, StepsAssumption
    <3> QED
      BY <3>1, OpsAssumption
  <2>8. CASE Walk("main") /\ ~Fail("main")
    <3>1. CASE Commit("main")
      BY <3>1 DEF Commit
    <3>2. CASE WalkBegin("main") \/ WalkCached("main") \/ WalkCompute("main")
      <4>1. GoesOn("main")
        BY <2>1, <2>8, <3>2, BegunWalk, CachedWalk, ComputedFacts DEF AInv
      <4> QED
        BY <4>1 DEF GoesOn, Idle
    <3> QED
      BY <2>8, <3>1, <3>2 DEF Walk
  <2>9. MainActs /\ ~Idle("main") =>
          Walk("main") \/ CommitDataStep \/ CommitSelection \/ Fail("main")
    BY DEF MainActs, CommitResearchReport, ExportReport, EditParams, Recompute,
           ExportResearchReport, SelectAnalysis, InsertDataStep, EditDataStep,
           ConfirmPreparation
  <2> QED
    BY <2>1, <2>3, <2>4, <2>5, <2>6, <2>7, <2>8, <2>9
    DEF OpsNext, FileChanges, opsVars, vars
<1> QED
  BY OpsAlways, <1>1, PTL DEF OpsSpec, AnalysesSurvive

------------------------------------------------------------------------------
(* Pipelines that are sound between two calls.                               *)

\* The notes and the values of the cached results are those of the pipeline.
Sound(p) == Noted(p) /\ Sourced(p)

\* Steps that are put in, and matter to no computed step.
LEMMA JoinSound ==
  ASSUME NEW p, NEW q, Sound(p), NEW X, X \intersect DOMAIN p.results = {},
         Distinct(q.steps), StepsOf(q) = StepsOf(p) \union X,
         q.source = p.source, q.results = p.results, q.owned = p.owned,
         q.dirtyKeys = p.dirtyKeys, q.current = p.current, q.analyses = p.analyses,
         \A u \in StepsOf(p) : q.params[u] = p.params[u],
         \A a, b \in StepsOf(p) : Comes(q.steps, a, b) <=> Comes(p.steps, a, b),
         \A u \in X, s \in Held(p) : Harmless(q, u, s)
  PROVE  Sound(q)
<1>1. \A L, v, w : Comes(L, v, w) => v \in Elements(L) /\ w \in Elements(L)
  BY ComesIn
<1>2. Held(q) = Held(p) /\ Noted(p) /\ Sourced(p)
  BY DEF Held, Sound
<1>3. Alike(p, q, Held(p))
  BY DEF Alike, Held
<1>4. DataIs(q, Held(p), q.current) /\ AnalysesAre(q, Held(p), q.analyses)
  BY <1>2, <1>3, AlikeData DEF Sourced
<1>5. ASSUME NEW s \in Held(p) PROVE Valued(q, s) /\ Shaped(q, s) /\ Recorded(q, s)
  <2>1. s \in StepsOf(p) /\ s \in DOMAIN p.results
    BY DEF Held
  <2>2. Before(q, s) = Before(p, s) /\ Before(p, s) \subseteq Held(p)
    <3>1. \A w : Comes(p.steps, w, s) => w \in StepsOf(p)
      BY <1>1 DEF StepsOf
    <3>2. \A w : Comes(q.steps, w, s) => w \in StepsOf(p) \union X
      BY <1>1 DEF StepsOf
    <3> QED
      BY <2>1, <3>1, <3>2 DEF Before, Held
  <2>3. Alike(p, q, Before(p, s))
    BY <1>3, <2>2 DEF Alike
  <2>4. /\ q.results[s] = p.results[s] /\ q.params[s] = p.params[s]
        /\ q.owned[s] = p.owned[s] /\ q.dirtyKeys[s] = p.dirtyKeys[s]
    BY <2>1
  <2>5. Valued(q, s) <=> Valued(p, s)
    BY <2>2, <2>3, <2>4, AlikeValued
  <2>6. Shaped(p, s) /\ Recorded(p, s) /\ Valued(p, s)
    BY <1>2 DEF Noted, Sourced
  <2> QED
    BY <2>4, <2>5, <2>6, StepNotes
<1>6. ASSUME NEW s \in Held(p), NEW u \in StepsOf(q) \ DOMAIN q.results
      PROVE  Harmless(q, u, s)
  <2>1. CASE u \in X
    BY <2>1
  <2>2. CASE u \notin X
    <3>1. Harmless(p, u, s) /\ s \in StepsOf(p) /\ u \in StepsOf(p)
      BY <1>2, <2>2 DEF Sourced, Held
    <3>2. Needs(q, s) = Needs(p, s) /\ StaticOf(q, u) = StaticOf(p, u)
      BY <3>1 DEF Needs, StaticOf
    <3> QED
      BY <3>1, <3>2 DEF Harmless
  <2> QED
    BY <2>1, <2>2
<1>7. Filed(q)
  BY <1>2 DEF Noted, Filed, Kept
<1>8. Noted(q)
  BY <1>2, <1>5, <1>7 DEF Noted
<1>9. Sourced(q)
  BY <1>2, <1>4, <1>5, <1>6 DEF Sourced
<1> QED
  BY <1>8, <1>9 DEF Sound

\* The steps that prepare the data do not miss the analyses.
LEMMA AsideSound ==
  ASSUME NEW p, NEW q, PipeOK(p), Sound(p), Filed(q),
         StepsOf(q) = StepsOf(p) \ Analyses,
         q.source = p.source, q.current = p.current, q.analyses = <<>>,
         \A u \in StepsOf(q) : q.params[u] = p.params[u],
         \A a, b \in StepsOf(q) : Comes(q.steps, a, b) <=> Comes(p.steps, a, b),
         DOMAIN q.results = DOMAIN p.results \intersect StepsOf(q),
         \A u \in DOMAIN q.results : /\ q.results[u] = p.results[u]
                                     /\ q.owned[u] = p.owned[u]
                                     /\ q.dirtyKeys[u] = p.dirtyKeys[u]
  PROVE  Sound(q)
<1>1. Noted(p) /\ Sourced(p)
  BY DEF Sound
<1>2. Held(q) = Held(p) \ Analyses /\ Held(q) = DOMAIN q.results
  BY DEF Held
<1>3. Held(p) \subseteq Ids /\ \A s \in Ids : p.params[s] \in ParamsOf(s)
  BY DEF Held, PipeOK, ResultsOK
<1>4. \A L, v, w : Comes(L, v, w) => v \in Elements(L) /\ w \in Elements(L)
  BY ComesIn
\* What an analysis gives is no column.
<1>5. ASSUME NEW w \in Held(p) \intersect Analyses, NEW k
      PROVE  w \notin Cols(p, k) /\ w \notin Vars(p, k)
  <2>1. Shaped(p, w) /\ p.params[w] \in ParamsOf(w)
    BY <1>1, <1>3 DEF Noted
  <2>2. Def[w][p.params[w]].meta = {}
    BY <2>1, DataAssumption
  <2>3. p.results[w].cols = {} /\ p.results[w].vars = {}
    BY <2>1, <2>2 DEF Shaped
  <2> QED
    BY <2>3 DEF Cols, Vars
<1>6. ASSUME NEW B \in SUBSET Held(p), NEW k
      PROVE  /\ (B \ Analyses) \intersect Cols(q, k) = B \intersect Cols(p, k)
             /\ (B \ Analyses) \intersect Vars(q, k) = B \intersect Vars(p, k)
             /\ (B \ Analyses) \intersect Ans(q, k) = {}
  <2>1. \A w \in B : w \notin Analyses => w \in DOMAIN q.results /\ q.results[w] = p.results[w]
                                          /\ w \in DOMAIN p.results
    BY <1>2 DEF Held
  <2>2. \A w \in B : w \in Cols(p, k) \/ w \in Vars(p, k) => w \notin Analyses
    BY <1>5
  <2> QED
    BY <2>1, <2>2 DEF Cols, Vars, Ans, AnalysisKeys
<1>7. \A w \in Held(q) : q.results[w] = p.results[w] /\ w \in StepsOf(q)
  BY <1>2 DEF Held
<1>8. ASSUME NEW s \in Held(q) PROVE Valued(q, s) /\ Shaped(q, s) /\ Recorded(q, s)
  <2>1. s \in Held(p) /\ s \in StepsOf(q) /\ s \in Ids \ Analyses /\ p.params[s] \in ParamsOf(s)
    BY <1>2, <1>3 DEF Held
  <2>2. Before(p, s) \subseteq Held(p) /\ Before(q, s) = Before(p, s) \ Analyses
    <3>1. \A w : Comes(p.steps, w, s) => w \in StepsOf(p)
      BY <1>4 DEF StepsOf
    <3>2. \A w : Comes(q.steps, w, s) => w \in StepsOf(q)
      BY <1>4 DEF StepsOf
    <3> QED
      BY <2>1, <3>1, <3>2 DEF Before, Held
  <2>3. /\ q.results[s] = p.results[s] /\ q.params[s] = p.params[s]
        /\ q.owned[s] = p.owned[s] /\ q.dirtyKeys[s] = p.dirtyKeys[s]
    BY <1>2, <2>1
  <2>4. Shaped(p, s) /\ Recorded(p, s) /\ Valued(p, s)
    BY <1>1, <2>1 DEF Noted, Sourced
  <2>5. ASSUME NEW k \in Needs(q, s)
        PROVE  Value(q, Before(q, s), k, q.results[s].term.of[k])
    <3> DEFINE B == Before(p, s)
               C == Before(q, s)
               v == q.results[s].term.of[k]
    <3>1. k \in Needs(p, s) /\ Value(p, B, k, v)
      BY <2>3, <2>4 DEF Needs, Valued
    <3>2. B \intersect Ans(p, k) = {}
      <4> SUFFICES ASSUME NEW w \in B, w \in Ans(p, k) PROVE FALSE
        OBVIOUS
      <4>1. w \in Held(p) /\ w \in Ids /\ p.params[w] \in ParamsOf(w)
        BY <1>3, <2>2
      <4>2. w \in Analyses /\ k \in Def[w][p.params[w]].writes \union Aliases[w]
        BY DEF Ans, AnalysisKeys
      <4> QED
        BY <2>1, <3>1, <4>1, <4>2, DataAssumption DEF Needs
    <3>3. /\ C \intersect Cols(q, k) = B \intersect Cols(p, k)
          /\ C \intersect Vars(q, k) = B \intersect Vars(p, k)
          /\ C \intersect Ans(q, k) = {}
      <4>1. B \in SUBSET Held(p) /\ C = B \ Analyses
        BY <2>2
      <4> HIDE DEF B, C
      <4> QED
        BY <1>6, <4>1
    <3>4. \A w \in C : w \in Held(q) /\ w \in B
      BY <1>2, <2>2
    <3> HIDE DEF B, C, v
    <3>5. IsColumn(q, C, k) <=> IsColumn(p, B, k)
      BY <3>3 DEF IsColumn
    <3>6. /\ IsColumn(p, B, k) /\ v = [col |-> v.col, meta |-> v.meta]
          /\ From(p, B \intersect Cols(p, k), v.col)
          /\ From(p, B \intersect Vars(p, k), v.meta)
      BY <3>1, <3>2 DEF Value
    <3>7. ASSUME NEW S \in SUBSET C, NEW t, From(p, S, t) PROVE From(q, S, t)
      <4>1. \A w \in S : q.results[w] = p.results[w] /\ w \in StepsOf(q)
        BY <1>7, <3>4
      <4>2. \A a, b \in S : Comes(q.steps, a, b) <=> Comes(p.steps, a, b)
        BY <4>1
      <4> QED
        BY <3>7, <4>1, <4>2, SameFrom
    <3>8. /\ From(q, C \intersect Cols(q, k), v.col)
          /\ From(q, C \intersect Vars(q, k), v.meta)
      BY <3>3, <3>6, <3>7
    <3> QED
      BY <3>5, <3>6, <3>8 DEF Value, C, v
  <2> QED
    BY <2>3, <2>4, <2>5, StepNotes DEF Valued
<1>9. ASSUME NEW s \in Held(q), NEW u \in StepsOf(q) \ DOMAIN q.results
      PROVE  Harmless(q, u, s)
  <2>1. s \in Held(p) /\ s \in StepsOf(q) /\ u \in StepsOf(p) \ DOMAIN p.results
    BY <1>2 DEF Held
  <2>2. Harmless(p, u, s)
    BY <1>1, <2>1 DEF Sourced
  <2>3. Needs(q, s) = Needs(p, s) /\ StaticOf(q, u) = StaticOf(p, u)
    BY <2>1 DEF Needs, StaticOf
  <2> QED
    BY <2>1, <2>2, <2>3 DEF Harmless
<1>10. DataIs(q, Held(q), q.current)
  <2> DEFINE B == Held(p)
             C == Held(q)
             ds == p.current
  <2>1. \A k : /\ C \intersect Cols(q, k) = B \intersect Cols(p, k)
               /\ C \intersect Vars(q, k) = B \intersect Vars(p, k)
    <3>1. B \in SUBSET Held(p) /\ C = B \ Analyses
      BY <1>2
    <3> HIDE DEF B, C
    <3> QED
      BY <1>6, <3>1
  <2>2. \A k : IsColumn(q, C, k) <=> IsColumn(p, B, k)
    BY <2>1 DEF IsColumn
  <2>3. /\ ds = [k \in DOMAIN ds |-> ds[k]]
        /\ \A k : k \in DOMAIN ds <=> IsColumn(p, B, k)
        /\ \A k \in DOMAIN ds : Value(p, B, k, ds[k])
    BY <1>1 DEF Sourced, DataIs
  <2> HIDE DEF B, C, ds
  <2>4. ASSUME NEW S \in SUBSET C, NEW t, From(p, S, t) PROVE From(q, S, t)
    <3>1. \A w \in S : q.results[w] = p.results[w] /\ w \in StepsOf(q)
      BY <1>7 DEF C
    <3>2. \A a, b \in S : Comes(q.steps, a, b) <=> Comes(p.steps, a, b)
      BY <3>1
    <3> QED
      BY <2>4, <3>1, <3>2, SameFrom
  <2>5. ASSUME NEW k \in DOMAIN ds PROVE Value(q, C, k, ds[k])
    <3>1. /\ IsColumn(p, B, k) /\ ds[k] = [col |-> ds[k].col, meta |-> ds[k].meta]
          /\ From(p, B \intersect Cols(p, k), ds[k].col)
          /\ From(p, B \intersect Vars(p, k), ds[k].meta)
      BY <2>3 DEF Value
    <3>2. /\ From(q, C \intersect Cols(q, k), ds[k].col)
          /\ From(q, C \intersect Vars(q, k), ds[k].meta)
      BY <2>1, <2>4, <3>1
    <3> QED
      BY <2>2, <3>1, <3>2 DEF Value
  <2> QED
    BY <2>2, <2>3, <2>5 DEF DataIs, C, ds
<1>11. AnalysesAre(q, Held(q), q.analyses)
  <2>1. \A k : Held(q) \intersect Ans(q, k) = {}
    BY <1>2 DEF Ans, AnalysisKeys
  <2>2. DOMAIN q.analyses = {} /\ q.analyses = [k \in {} |-> q.analyses[k]]
    OBVIOUS
  <2> QED
    BY <2>1, <2>2 DEF AnalysesAre
<1>12. Noted(q)
  BY <1>8 DEF Noted
<1>13. Sourced(q)
  BY <1>8, <1>9, <1>10, <1>11 DEF Sourced
<1> QED
  BY <1>12, <1>13 DEF Sound

------------------------------------------------------------------------------
(* One call at a time.                                                       *)

\* What a busy call has noted of the pipeline is right.
Good(c) == CallFiled(Now, c) /\ CallValued(Now, c)

\* The main thread, alone: between its calls the pipeline is sound; a call can put back
\* what it found, and one that will put steps back has no results of others.
MainGood ==
  IF Idle("main") THEN Sound(Now)
  ELSE LET c == call["main"]
       IN  /\ Sound(c.before) /\ Restorable(Now, c) /\ Good(c)
           /\ c.next \notin {"return", "discard"} => CallTidy(Now, c)

\* Nothing is promised while two calls have overlapped.  A quiet rerun begins with a
\* pipeline that is only well formed, and computes every step.
GInv ==
  /\ ~torn => MainGood /\ (Idle("main") \/ Idle("worker"))
  /\ ~Idle("worker") /\ ~beside => Idle("main") /\ Good(call["worker"])
  /\ ~Idle("worker") /\ beside => torn

LEMMA Grounds ==
  ASSUME AInv
  PROVE  /\ PipeOK(Now) /\ StepsOf(Now) = StepSet /\ Elements(steps) = StepSet
         /\ StepSet \subseteq Ids
<1>1. TInv /\ steps \in Seq(Ids)
  BY TwoThreads
<1> QED
  BY <1>1, StepsOfNow DEF TInv

\* A call of the main thread begins in a sound pipeline.
LEMMA StartGood ==
  ASSUME AInv, Sound(Now), NEW d, NEW keys, NEW restores, NEW next,
         Begin("main", d, keys, restores, next),
         BeginFiled(Now', d), BeginSourced(Now', d, keys),
         /\ "source"    \notin restores => source'    = source
         /\ "steps"     \notin restores => steps'     = steps
         /\ "results"   \notin restores => results'   = results
         /\ "owned"     \notin restores => owned'     = owned
         /\ "dirtyKeys" \notin restores => dirtyKeys' = dirtyKeys
         /\ "current"   \notin restores => current'   = current
         /\ "analyses"  \notin restores => analyses'  = analyses
         /\ "params"    \notin restores => \A s \in StepSet : params'[s] = params[s],
         next \notin {"return", "discard"} => Tidy(Now')
  PROVE  MainGood'
<1>1. TInv /\ "main" \in Threads /\ StepsOf(Now) = StepSet
  BY TwoThreads, Grounds
<1>2. call'["main"] = [pc |-> "begin", dirty |-> d, keys |-> keys, restores |-> restores,
                       next |-> next, before |-> Now]
  BY <1>1, BeginTypes
<1> DEFINE c == call'["main"]
<1>3. /\ c.pc = "begin" /\ c.dirty = d /\ c.keys = keys /\ c.restores = restores
      /\ c.next = next /\ c.before = Now
  BY <1>2
<1> HIDE DEF c
<1>4. Restorable(Now', c)
  BY <1>1, <1>3, NowFields, NowFieldsNext DEF Restorable
<1>5. CallFiled(Now', c) /\ CallValued(Now', c)
  BY <1>3 DEF CallFiled, CallValued
<1>6. c.next \notin {"return", "discard"} => CallTidy(Now', c)
  BY <1>3 DEF CallTidy
<1>7. c.pc \notin {"idle", "failed"} /\ Sound(c.before)
  BY <1>3
<1> QED
  BY <1>4, <1>5, <1>6, <1>7 DEF MainGood, Good, Idle, c

\* The data steps with their results, as a call finds them that puts the analyses aside.
LEMMA AsideIs ==
  ASSUME AInv, Sound(Now), NEW kept, KeepSteps(kept, DataSteps), UNCHANGED <<source, current>>,
         NEW q, DOMAIN q = DOMAIN Now,
         q.source = source, q.steps = DataSteps, q.params = params, q.results = results',
         q.owned = owned', q.dirtyKeys = dirtyKeys', q.current = current, q.analyses = <<>>
  PROVE  /\ Sound(q) /\ PipeOK(q) /\ StepsOf(q) = StepSet \ Analyses
         /\ DOMAIN results' \subseteq StepSet \ Analyses /\ analyses' = <<>>
<1>1. /\ TInv /\ PipeOK(Now) /\ Kept(Now) /\ steps \in Seq(Ids) /\ Distinct(steps)
      /\ StepsOf(Now) = StepSet /\ StepSet \subseteq Ids
  BY TwoThreads, Grounds
<1>2. /\ DataSteps \in Seq(Ids) /\ Distinct(DataSteps)
      /\ Elements(DataSteps) = StepSet \ Analyses /\ ElementsOf(DataSteps) = StepSet \ Analyses
      /\ \A x, y \in StepSet \ Analyses :
           Comes(DataSteps, x, y) <=> <<x, y>> \in OrderOf(steps)
  BY <1>1, DataStepsAre
<1>3. \A x, y \in StepSet : <<x, y>> \in OrderOf(steps) <=> Comes(steps, x, y)
  <2>1. ElementsOf(steps) = StepSet
    BY DEF ElementsOf, StepSet
  <2> QED
    BY <1>1, <2>1, OrderOfIs
<1>4. /\ ResultsOK(results') /\ PartialOn(owned', Ids, OwnerKeys)
      /\ PartialOn(dirtyKeys', Ids, Keys) /\ Kept(Now')
      /\ DOMAIN results' = DOMAIN results \intersect ElementsOf(DataSteps)
      /\ \A u \in DOMAIN results' :
           results'[u] = results[u] /\ owned'[u] = owned[u] /\ dirtyKeys'[u] = dirtyKeys[u]
  BY <1>1, KeptSteps
<1> HIDE DEF DataSteps
<1>5. StepsOf(q) = StepSet \ Analyses
  BY <1>2 DEF StepsOf
<1>6. Filed(q)
  BY <1>2, <1>4, NowFieldsNext DEF Filed, Kept
<1>7. /\ \A a, b \in StepsOf(q) : Comes(q.steps, a, b) <=> Comes(Now.steps, a, b)
      /\ DOMAIN q.results = DOMAIN Now.results \intersect StepsOf(q)
      /\ \A u \in DOMAIN q.results : /\ q.results[u] = Now.results[u]
                                     /\ q.owned[u] = Now.owned[u]
                                     /\ q.dirtyKeys[u] = Now.dirtyKeys[u]
      /\ \A u \in StepsOf(q) : q.params[u] = Now.params[u]
      /\ q.source = Now.source /\ q.current = Now.current
      /\ StepsOf(q) = StepsOf(Now) \ Analyses
  BY <1>1, <1>2, <1>3, <1>4, <1>5, NowFields
<1>8. Sound(q)
  BY <1>1, <1>6, <1>7, AsideSound
<1>9. PipeOK(q)
  <2>1. DOMAIN q.analyses = {}
    OBVIOUS
  <2> QED
    BY <1>1, <1>2, <1>4, <2>1, NowFields DEF PipeOK
<1> QED
  BY <1>2, <1>4, <1>5, <1>8, <1>9 DEF KeepSteps

\* A step is edited.
LEMMA EditGood ==
  ASSUME NEW p, NEW q, PipeOK(p), Sound(p), Filed(q), NEW s \in Ids, NEW keys,
         q.source = p.source, q.steps = p.steps, q.results = p.results,
         q.owned = p.owned, q.dirtyKeys = p.dirtyKeys,
         \A u \in Ids : u # s => q.params[u] = p.params[u]
  PROVE  BeginFiled(q, s) /\ BeginSourced(q, s, keys)
<1>1. Noted(p) /\ Sourced(p)
  BY DEF Sound
<1>2. BeginSourced(q, s, keys)
  BY <1>1, EditBegins
<1>3. ASSUME NEW u \in Held(q) \ {s} PROVE Shaped(q, u) /\ Recorded(q, u)
  <2>1. u \in Held(p) /\ u \in Ids
    BY DEF Held, StepsOf, PipeOK, ResultsOK
  <2>2. /\ q.results[u] = p.results[u] /\ q.params[u] = p.params[u]
        /\ q.owned[u] = p.owned[u] /\ q.dirtyKeys[u] = p.dirtyKeys[u]
    BY <2>1
  <2> QED
    BY <1>1, <2>1, <2>2, StepNotes DEF Noted
<1> QED
  BY <1>2, <1>3 DEF BeginFiled

\* A new step, with the rest sound.
LEMMA GrowGood ==
  ASSUME NEW p, NEW q, Sound(p), NEW s, s \notin StepsOf(p),
         Distinct(q.steps), StepsOf(q) = StepsOf(p) \union {s},
         q.source = p.source, q.results = p.results, q.owned = p.owned,
         q.dirtyKeys = p.dirtyKeys, q.current = p.current, q.analyses = p.analyses,
         \A u \in StepsOf(p) : q.params[u] = p.params[u],
         \A a, b \in StepsOf(p) : Comes(q.steps, a, b) <=> Comes(p.steps, a, b),
         s \notin DOMAIN p.results \/ \A a \in StepsOf(p) : ~Comes(q.steps, s, a)
  PROVE  BeginFiled(q, s) /\ BeginSourced(q, s, {})
<1>1. Noted(p) /\ Sourced(p)
  BY DEF Sound
<1>2. BeginFiled(q, s)
  BY <1>1, GrowNoted
<1>3. /\ s \notin DOMAIN p.results =>
           /\ \A v \in Held(q) : Valued(q, v)
           /\ DataIs(q, Held(q), q.current) /\ AnalysesAre(q, Held(q), q.analyses)
      /\ \A v \in Held(q) \ {s} : ~Comes(q.steps, s, v) => Valued(q, v)
      /\ \A v \in Held(q) \ {s}, u \in StepsOf(q) \ (DOMAIN q.results \union {s}) :
           Harmless(q, u, v)
  BY <1>1, GrowSourced
<1>4. ASSUME NEW v \in Held(q) \ {s} PROVE Valued(q, v)
  <2>1. v \in Held(q) /\ v \in StepsOf(p)
    BY DEF Held
  <2> QED
    BY <1>3, <2>1
<1>5. BeginSourced(q, s, {})
  BY <1>3, <1>4 DEF BeginSourced, Valued
<1> QED
  BY <1>2, <1>5

LEMMA InsertDataGood ==
  ASSUME AInv, Sound(Now), NEW s \in Ids, NEW p \in ParamsOf(s), InsertDataStep(s, p)
  PROVE  MainGood'
<1> DEFINE D == DataSteps
           q == [source |-> source, steps |-> D, params |-> params, results |-> results',
                 owned |-> owned', dirtyKeys |-> dirtyKeys', current |-> current,
                 analyses |-> <<>>]
<1>1. PICK i \in 1..Len(DataSteps) : steps' = PutIn(DataSteps, i, s)
  BY InsertDataInv
<1>2. /\ s \notin StepSet /\ s \notin Analyses /\ KeepSteps(steps', DataSteps)
      /\ params' = [params EXCEPT ![s] = p] /\ Begin("main", s, {}, Snapshot, "deferred")
      /\ UNCHANGED <<file, source, current>>
  BY DEF InsertDataStep, KeepSteps, Editable, IsData
<1>3. /\ steps \in Seq(Ids) /\ StepsOf(Now) = StepSet /\ StepSet \subseteq Ids
      /\ DOMAIN params = Ids
  BY TwoThreads, Grounds
<1>4. D \in Seq(Ids) /\ Distinct(D) /\ Elements(D) = StepSet \ Analyses
  BY <1>3, DataStepsAre
<1>5. /\ DOMAIN q = DOMAIN Now /\ q.source = source /\ q.steps = DataSteps
      /\ q.params = params /\ q.results = results' /\ q.owned = owned'
      /\ q.dirtyKeys = dirtyKeys' /\ q.current = current /\ q.analyses = <<>>
  BY DEF Now
<1> HIDE DEF q
<1>6. /\ Sound(q) /\ StepsOf(q) = StepSet \ Analyses
      /\ DOMAIN results' \subseteq StepSet \ Analyses /\ analyses' = <<>>
  BY <1>2, <1>5, AsideIs
<1> HIDE DEF D
<1>7. /\ Elements(steps') = (StepSet \ Analyses) \union {s} /\ Distinct(steps')
      /\ \A a, b \in StepSet \ Analyses : Comes(steps', a, b) <=> Comes(D, a, b)
  BY <1>1, <1>2, <1>4, InsertList DEF D
<1>8. \A u \in StepSet \ Analyses : params'[u] = params[u]
  BY <1>2, <1>3
<1>9. BeginFiled(Now', s) /\ BeginSourced(Now', s, {})
  <2>1. StepsOf(Now') = StepsOf(q) \union {s} /\ Distinct(Now'.steps)
    BY <1>6, <1>7, NowFieldsNext DEF StepsOf
  <2>2. /\ s \notin StepsOf(q) /\ s \notin DOMAIN q.results
        /\ Now'.source = q.source /\ Now'.results = q.results /\ Now'.owned = q.owned
        /\ Now'.dirtyKeys = q.dirtyKeys /\ Now'.current = q.current
        /\ Now'.analyses = q.analyses
        /\ \A u \in StepsOf(q) : Now'.params[u] = q.params[u]
        /\ \A a, b \in StepsOf(q) : Comes(Now'.steps, a, b) <=> Comes(q.steps, a, b)
    BY <1>2, <1>5, <1>6, <1>7, <1>8, NowFieldsNext DEF D
  <2> QED
    BY <1>6, <2>1, <2>2, GrowGood
<1>10. Tidy(Now')
  BY <1>6, <1>7, NowFieldsNext DEF Tidy, StepsOf
<1>11. \A u \in StepSet : params'[u] = params[u]
  BY <1>2, <1>3
<1> QED
  BY <1>2, <1>9, <1>10, <1>11, StartGood DEF Snapshot, Caches

LEMMA EditDataGood ==
  ASSUME AInv, AInv', Sound(Now), NEW s \in Ids, NEW p \in ParamsOf(s), EditDataStep(s, p)
  PROVE  MainGood'
<1> DEFINE keys == IF s \in DOMAIN dirtyKeys THEN dirtyKeys[s] ELSE StaticKeys(s)
           q == [source |-> source, steps |-> DataSteps, params |-> params,
                 results |-> results', owned |-> owned', dirtyKeys |-> dirtyKeys',
                 current |-> current, analyses |-> <<>>]
<1>1. /\ KeepSteps(DataSteps, DataSteps) /\ steps' = DataSteps
      /\ params' = [params EXCEPT ![s] = p]
      /\ Begin("main", s, keys, Snapshot \union {"params"}, "deferred")
      /\ UNCHANGED <<file, source, current>>
  BY DEF EditDataStep, KeepSteps
<1> HIDE DEF keys
<1>2. DOMAIN params = Ids
  BY TwoThreads
<1>3. /\ DOMAIN q = DOMAIN Now /\ q.source = source /\ q.steps = DataSteps
      /\ q.params = params /\ q.results = results' /\ q.owned = owned'
      /\ q.dirtyKeys = dirtyKeys' /\ q.current = current /\ q.analyses = <<>>
  BY DEF Now
<1> HIDE DEF q
<1>4. /\ Sound(q) /\ PipeOK(q) /\ StepsOf(q) = StepSet \ Analyses
      /\ DOMAIN results' \subseteq StepSet \ Analyses /\ analyses' = <<>>
  BY <1>1, <1>3, AsideIs
<1>5. Filed(Now')
  BY DEF AInv
<1>6. BeginFiled(Now', s) /\ BeginSourced(Now', s, keys)
  <2>1. /\ Now'.source = q.source /\ Now'.steps = q.steps /\ Now'.results = q.results
        /\ Now'.owned = q.owned /\ Now'.dirtyKeys = q.dirtyKeys
        /\ \A u \in Ids : u # s => Now'.params[u] = q.params[u]
    BY <1>1, <1>2, <1>3, NowFieldsNext
  <2> QED
    BY <1>4, <1>5, <2>1, EditGood
<1>7. Tidy(Now')
  <2>1. StepsOf(Now') = StepsOf(q)
    BY <1>1, <1>3, NowFieldsNext DEF StepsOf
  <2> QED
    BY <1>4, <2>1, NowFieldsNext DEF Tidy
<1> QED
  BY <1>1, <1>6, <1>7, StartGood DEF Snapshot, Caches

LEMMA SelectGood ==
  ASSUME AInv, AInv', Sound(Now), NEW a, SelectAnalysis(a)
  PROVE  MainGood'
<1> DEFINE kept == InOrder(StepSet \ Managed, OrderOf(steps))
<1>1. /\ KeepSteps(kept, kept) /\ steps' = kept
      /\ Begin("main", NoOne, {}, Snapshot, a)
      /\ UNCHANGED <<file, source, params, current>>
  BY DEF SelectAnalysis, KeepSteps
<1>2. /\ TInv /\ Kept(Now) /\ Filed(Now') /\ steps' \in Seq(Ids)
  BY TwoThreads, NowOKNext DEF AInv, TInv
<1> HIDE DEF kept
<1>3. DOMAIN results' = DOMAIN results \intersect ElementsOf(steps')
  BY <1>1, <1>2, KeptSteps
<1>4. Tidy(Now')
  <2>1. ElementsOf(steps') = Elements(steps')
    BY <1>2, PlacesIn
  <2> QED
    BY <1>3, <2>1, NowFieldsNext DEF Tidy, StepsOf
<1>5. BeginFiled(Now', NoOne) /\ BeginSourced(Now', NoOne, {})
  BY <1>2 DEF BeginFiled, BeginSourced
<1> QED
  BY <1>1, <1>4, <1>5, StartGood DEF Snapshot, Caches

LEMMA ExportGood ==
  ASSUME AInv, AInv', Sound(Now), ExportReport
  PROVE  MainGood'
<1>1. /\ PipeOK(Now) /\ DOMAIN params = Ids /\ StepSet \subseteq Ids /\ Filed(Now')
  BY TwoThreads, Grounds DEF AInv
<1>2. ASSUME NEW p \in ParamsOf(ReportStep), EditParams("main", ReportStep, p) PROVE MainGood'
  <2> DEFINE s == ReportStep
             keys == IF s \in DOMAIN dirtyKeys THEN dirtyKeys[s] ELSE StaticKeys(s)
  <2>1. /\ params' = [params EXCEPT ![s] = p]
        /\ Begin("main", s, keys, EditRestores, "return")
        /\ UNCHANGED <<file, source, steps, results, owned, dirtyKeys, current, analyses>>
    BY <1>2 DEF EditParams
  <2>2. s \in Ids
    BY OpsAssumption, StepsAssumption
  <2> HIDE DEF keys, s
  <2>3. /\ Now'.source = Now.source /\ Now'.steps = Now.steps /\ Now'.results = Now.results
        /\ Now'.owned = Now.owned /\ Now'.dirtyKeys = Now.dirtyKeys
        /\ \A u \in Ids : u # s => Now'.params[u] = Now.params[u]
    BY <1>1, <2>1, NowFields, NowFieldsNext
  <2>4. BeginFiled(Now', s) /\ BeginSourced(Now', s, keys)
    BY <1>1, <2>2, <2>3, EditGood
  <2> QED
    BY <2>1, <2>4, StartGood DEF EditRestores, Caches
<1>3. ASSUME Recompute("main", NoOne) PROVE MainGood'
  <2>1. Begin("main", NoOne, {}, {}, "return") /\ UNCHANGED <<file, pipeline>>
    BY <1>3 DEF Recompute
  <2>2. BeginFiled(Now', NoOne) /\ BeginSourced(Now', NoOne, {})
    BY <1>1 DEF BeginFiled, BeginSourced
  <2> QED
    BY <2>1, <2>2, StartGood DEF pipeline
<1> QED
  BY <1>2, <1>3 DEF ExportReport

LEMMA ExportResearchGood ==
  ASSUME AInv, Sound(Now), ExportResearchReport
  PROVE  MainGood'
<1> DEFINE s == ReportStep
<1>1. /\ steps \in Seq(Ids) /\ Distinct(steps) /\ DOMAIN params = Ids
      /\ StepsOf(Now) = StepSet /\ Elements(steps) = StepSet /\ StepSet \subseteq Ids
  BY TwoThreads, Grounds
<1>2. PICK a \in Analyses :
        /\ s \notin StepSet /\ steps' = Append(steps, s)
        /\ params' = [params EXCEPT ![s] = ReportOf(a, params[a])]
        /\ Begin("main", s, {}, Snapshot, "discard")
        /\ UNCHANGED <<file, source, results, owned, dirtyKeys, current, analyses>>
  BY DEF ExportResearchReport
<1>3. s \in Ids
  BY OpsAssumption, StepsAssumption
<1> HIDE DEF s
<1>4. /\ Elements(steps') = StepSet \union {s} /\ Distinct(steps')
      /\ \A u, v \in StepSet : Comes(steps', u, v) <=> Comes(steps, u, v)
      /\ \A b : ~Comes(steps', s, b)
  BY <1>1, <1>2, <1>3, AppendList
<1>5. \A u \in StepSet : params'[u] = params[u]
  BY <1>1, <1>2
<1>6. BeginFiled(Now', s) /\ BeginSourced(Now', s, {})
  <2>1. StepsOf(Now') = StepsOf(Now) \union {s} /\ Distinct(Now'.steps)
    BY <1>1, <1>4, NowFieldsNext DEF StepsOf
  <2>2. /\ s \notin StepsOf(Now) /\ \A u \in StepsOf(Now) : ~Comes(Now'.steps, s, u)
        /\ Now'.source = Now.source /\ Now'.results = Now.results /\ Now'.owned = Now.owned
        /\ Now'.dirtyKeys = Now.dirtyKeys /\ Now'.current = Now.current
        /\ Now'.analyses = Now.analyses
        /\ \A u \in StepsOf(Now) : Now'.params[u] = Now.params[u]
        /\ \A u, v \in StepsOf(Now) : Comes(Now'.steps, u, v) <=> Comes(Now.steps, u, v)
    BY <1>1, <1>2, <1>4, <1>5, NowFields, NowFieldsNext
  <2> QED
    BY <2>1, <2>2, GrowGood
<1> QED
  BY <1>2, <1>5, <1>6, StartGood DEF Snapshot, Caches

\* The prepared analysis has not been computed, and nothing comes behind it.
LEMMA ConfirmGood ==
  ASSUME AInv, Sound(Now), NEW a \in Ids, NEW p \in ParamsOf(a), ConfirmPreparation(a, p)
  PROVE  Idle("main")' /\ Sound(Now')
<1> DEFINE q == [source |-> source, steps |-> DataSteps, params |-> params,
                 results |-> results', owned |-> owned', dirtyKeys |-> dirtyKeys',
                 current |-> current, analyses |-> <<>>]
<1>1. /\ Idle("main") /\ a \in Analyses /\ KeepSteps(steps', DataSteps)
      /\ steps' = Append(DataSteps, a) /\ params' = [params EXCEPT ![a] = p]
      /\ UNCHANGED <<file, source, current, call>>
  BY DEF ConfirmPreparation, KeepSteps
<1>2. steps \in Seq(Ids) /\ DOMAIN params = Ids /\ StepSet \subseteq Ids
  BY TwoThreads, Grounds
<1>3. /\ DataSteps \in Seq(Ids) /\ Distinct(DataSteps)
      /\ Elements(DataSteps) = StepSet \ Analyses
  BY <1>2, DataStepsAre
<1>4. /\ DOMAIN q = DOMAIN Now /\ q.source = source /\ q.steps = DataSteps
      /\ q.params = params /\ q.results = results' /\ q.owned = owned'
      /\ q.dirtyKeys = dirtyKeys' /\ q.current = current /\ q.analyses = <<>>
  BY DEF Now
<1> HIDE DEF q
<1>5. /\ Sound(q) /\ StepsOf(q) = StepSet \ Analyses
      /\ DOMAIN results' \subseteq StepSet \ Analyses /\ analyses' = <<>>
  BY <1>1, <1>4, AsideIs
<1>6. /\ Elements(steps') = (StepSet \ Analyses) \union {a} /\ Distinct(steps')
      /\ \A u, v \in StepSet \ Analyses : Comes(steps', u, v) <=> Comes(DataSteps, u, v)
      /\ \A v : ~Comes(steps', a, v)
  BY <1>1, <1>3, AppendList
<1>7. Sound(Now')
  <2> DEFINE X == {a}
  <2>1. X \intersect DOMAIN q.results = {}
    BY <1>1, <1>4, <1>5
  <2>2. StepsOf(Now') = StepsOf(q) \union X /\ Distinct(Now'.steps)
    BY <1>5, <1>6, NowFieldsNext DEF StepsOf
  <2>3. /\ Now'.source = q.source /\ Now'.results = q.results /\ Now'.owned = q.owned
        /\ Now'.dirtyKeys = q.dirtyKeys /\ Now'.current = q.current
        /\ Now'.analyses = q.analyses
        /\ \A u \in StepsOf(q) : Now'.params[u] = q.params[u]
        /\ \A u, v \in StepsOf(q) : Comes(Now'.steps, u, v) <=> Comes(q.steps, u, v)
    BY <1>1, <1>2, <1>4, <1>5, <1>6, NowFieldsNext
  <2>4. \A u \in X, v \in Held(q) : Harmless(Now', u, v)
    BY <1>6, NowFieldsNext DEF Harmless
  <2> HIDE DEF X
  <2> QED
    BY <1>5, <2>1, <2>2, <2>3, <2>4, JoinSound
<1> QED
  BY <1>1, <1>7 DEF Idle

\* What a walk that has come to its end would publish.
LEMMA ReadySound ==
  ASSUME AInv, NEW t \in Threads, Good(call[t]), Ready(t)
  PROVE  LET p == Pending(Now, call[t])
         IN  Sound(p) /\ StepsOf(p) = StepSet /\ Held(p) = StepSet
<1>1. TInv
  BY TwoThreads
<1> QED
  BY <1>1, EndFacts, EndSourced DEF Sound, Good

LEMMA CommitSound ==
  ASSUME AInv, NEW t \in Threads, Good(call[t]), Commit(t), ~Fail(t)
  PROVE  Sound(Now') /\ Idle(t)'
<1>1. TInv /\ Ready(t)
  BY TwoThreads DEF Commit
<1>2. Same(Pending(Now, call[t]), Now') /\ call'[t].pc = "idle"
  BY <1>1, CommitFacts
<1>3. Sound(Pending(Now, call[t]))
  BY <1>1, ReadySound
<1> QED
  BY <1>2, <1>3, NotedSame, SameSourced DEF Sound, Idle

LEMMA FailSound ==
  ASSUME AInv, MainGood, ~Idle("main"), Fail("main")
  PROVE  MainGood'
<1> DEFINE c == call["main"]
<1>1. Sound(c.before) /\ Restorable(Now, c) /\ "main" \in Threads /\ DOMAIN call = Threads
  BY TwoThreads DEF MainGood, TInv
<1>2. Same(c.before, Now')
  BY <1>1, FailRestores
<1>3. call'["main"].pc = "failed"
  BY <1>1 DEF Fail
<1>4. Sound(Now')
  BY <1>1, <1>2, NotedSame, SameSourced DEF Sound
<1> QED
  BY <1>3, <1>4 DEF MainGood, Idle

LEMMA GoodGoesOn ==
  ASSUME NoAliasIsNeeded, AInv, NEW t \in Threads, Good(call[t]),
         WalkBegin(t) \/ WalkCached(t) \/ WalkCompute(t), ~Fail(t)
  PROVE  /\ GoesOn(t) /\ Good(call[t])'
         /\ CallTidy(Now, call[t]) => CallTidy(Now', call'[t])
<1>1. TInv /\ CallFiled(Now, call[t]) /\ CallValued(Now, call[t])
  BY TwoThreads DEF Good
<1>2. /\ GoesOn(t) /\ CallFiled(Now', call'[t])
      /\ CallTidy(Now, call[t]) => CallTidy(Now', call'[t])
  BY <1>1, WalkOn
<1>3. CallValued(Now', call'[t])
  BY <1>1, WalkValued
<1> QED
  BY <1>2, <1>3 DEF Good

LEMMA MainWalkGood ==
  ASSUME NoAliasIsNeeded, AInv, MainGood, Walk("main")
  PROVE  MainGood'
<1>1. "main" \in Threads /\ ~Idle("main")
  BY TwoThreads DEF Walk, WalkBegin, WalkCached, WalkCompute, Commit, Ready, Idle
<1> DEFINE c == call["main"]
<1>2. /\ Sound(c.before) /\ Restorable(Now, c) /\ Good(c)
      /\ c.next \notin {"return", "discard"} => CallTidy(Now, c)
  BY <1>1 DEF MainGood
<1>3. CASE Fail("main")
  BY <1>1, <1>3, FailSound
<1>4. CASE ~Fail("main") /\ Commit("main")
  BY <1>1, <1>2, <1>4, CommitSound DEF MainGood
<1>5. CASE ~Fail("main") /\ (WalkBegin("main") \/ WalkCached("main") \/ WalkCompute("main"))
  <2>1. /\ GoesOn("main") /\ Good(c)'
        /\ CallTidy(Now, c) => CallTidy(Now', call'["main"])
    BY <1>1, <1>2, <1>5, GoodGoesOn
  <2>2. /\ Now' = Now /\ c'.pc = "walk" /\ c'.restores = c.restores
        /\ c'.next = c.next /\ c'.before = c.before
    BY <2>1 DEF GoesOn
  <2>3. Restorable(Now', c')
    BY <1>2, <2>2 DEF Restorable
  <2>4. Sound(c'.before) /\ (c'.next \notin {"return", "discard"} => CallTidy(Now', c'))
    BY <1>2, <2>1, <2>2
  <2> QED
    BY <2>1, <2>2, <2>3, <2>4 DEF MainGood, Idle
<1> QED
  BY <1>3, <1>4, <1>5 DEF Walk

\* The analyses come back to the data, whose steps need nothing of theirs.
LEMMA CommitDataGood ==
  ASSUME AInv, MainGood, CommitDataStep
  PROVE  MainGood'
<1> DEFINE c == call["main"]
           b == c.before.steps
           p == Pending(Now, c)
           X == ElementsOf(b) \intersect Analyses
<1>1. Ready("main") /\ c.pc = "walk" /\ c.next = "deferred" /\ ~Idle("main")
  BY DEF CommitDataStep, Ready, Idle
<1>2. /\ "main" \in Threads /\ TInv /\ steps \in Seq(Ids) /\ Distinct(steps)
      /\ DOMAIN call = Threads /\ StepSet \subseteq Ids
      /\ \A s \in Ids : params[s] \in ParamsOf(s)
  BY TwoThreads, Grounds DEF TInv
<1>3. Good(c) /\ CallTidy(Now, c)
  BY <1>1 DEF MainGood
<1>4. CASE Fail("main")
  BY <1>1, <1>4, FailSound
<1>5. CASE ~Fail("main")
  <2>1. /\ Publish("main") /\ steps' = WithDeferred(b)
        /\ call' = [call EXCEPT !["main"] = [pc |-> "idle"]]
    BY <1>5 DEF CommitDataStep
  <2>2. b \in Seq(Ids) /\ Distinct(b) /\ Deferred(steps, b)
    BY <1>1, <1>2 DEF AInv, TInv, CallOK, PipeOK, CallInv, MainInv, Filed
  <2>3. /\ Distinct(steps') /\ Elements(steps') = StepSet \union X
        /\ \A x, y \in StepSet : Comes(steps', x, y) <=> <<x, y>> \in OrderOf(steps)
    BY <1>2, <2>1, <2>2, WithDeferredIs
  <2>4. \A x, y \in StepSet : <<x, y>> \in OrderOf(steps) <=> Comes(steps, x, y)
    <3>1. ElementsOf(steps) = StepSet
      BY DEF ElementsOf, StepSet
    <3> QED
      BY <1>2, <3>1, OrderOfIs
  <2>5. Sound(p) /\ StepsOf(p) = StepSet /\ Held(p) = StepSet
    BY <1>1, <1>2, <1>3, ReadySound
  <2>6. /\ p.source = source /\ p.steps = steps /\ p.params = params
        /\ p.results = c.results /\ p.owned = c.owned /\ p.dirtyKeys = c.dirtyKeys
        /\ p.current = c.ds /\ p.analyses = c.an
    BY PendingFields
  <2>7. X \intersect DOMAIN p.results = {}
    <3>1. DOMAIN p.results \subseteq StepSet
      BY <1>1, <1>3, <2>5 DEF CallTidy, Tidy
    <3>2. StepSet \intersect Analyses = {}
      BY <2>2 DEF Deferred, ElementsOf, StepSet
    <3> QED
      BY <3>1, <3>2
  <2> HIDE DEF p, X, b
  <2>8. /\ Now'.source = p.source /\ Now'.results = p.results /\ Now'.owned = p.owned
        /\ Now'.dirtyKeys = p.dirtyKeys /\ Now'.current = p.current
        /\ Now'.analyses = p.analyses /\ Now'.params = params
        /\ \A u \in StepsOf(p) : Now'.params[u] = p.params[u]
        /\ \A x, y \in StepsOf(p) : Comes(Now'.steps, x, y) <=> Comes(p.steps, x, y)
    BY <2>1, <2>3, <2>4, <2>5, <2>6, NowFieldsNext DEF Publish
  <2>9. StepsOf(Now') = StepsOf(p) \union X /\ Distinct(Now'.steps)
    BY <2>3, <2>5, NowFieldsNext DEF StepsOf
  <2>10. ASSUME NEW u \in X, NEW s \in Held(p) PROVE Harmless(Now', u, s)
    <3>1. u \in Analyses /\ u \in Ids /\ u \notin Imports
      BY StepsAssumption DEF X
    <3>2. s \in Ids \ Analyses
      BY <1>2, <2>2, <2>5 DEF Deferred, ElementsOf, StepSet
    <3>3. params[u] \in ParamsOf(u) /\ params[s] \in ParamsOf(s)
      BY <1>2, <3>1, <3>2
    <3>4. /\ Def[u][params[u]].meta = {}
          /\ Def[s][params[s]].needs \intersect Def[u][params[u]].writes = {}
      BY <3>1, <3>2, <3>3, DataAssumption
    <3> QED
      BY <2>8, <3>1, <3>4 DEF Harmless, Needs, StaticOf
  <2>11. Sound(Now')
    BY <2>5, <2>7, <2>8, <2>9, <2>10, JoinSound
  <2>12. call'["main"].pc = "idle"
    BY <1>2, <2>1
  <2> QED
    BY <2>11, <2>12 DEF MainGood, Idle
<1> QED
  BY <1>4, <1>5

\* The selected analysis and its report come behind the rest, and are not computed yet.
LEMMA CommitSelectionGood ==
  ASSUME AInv, MainGood, CommitSelection
  PROVE  MainGood'
<1> DEFINE c == call["main"]
           a == c.next
           p == Pending(Now, c)
           X == {a, ReportStep}
<1>1. CASE Fail("main")
  <2>1. ~Idle("main")
    BY DEF CommitSelection, Ready, Idle
  <2> QED
    BY <1>1, <2>1, FailSound
<1>2. CASE ~Fail("main")
  <2>1. /\ c.pc = "walk" /\ Ready("main") /\ a \in Analyses \ {ReportStep}
        /\ a \in Ids /\ ReportStep \in Ids
        /\ a \notin StepSet /\ ReportStep \notin StepSet
        /\ current' = c.ds /\ analyses' = c.an /\ results' = c.results
        /\ owned' = c.owned /\ dirtyKeys' = c.dirtyKeys
        /\ Distinct(steps') /\ Elements(steps') = StepSet \union {a, ReportStep}
        /\ \A x, y \in StepSet : Comes(steps', x, y) <=> Comes(steps, x, y)
        /\ \A x \in StepSet : ~Comes(steps', a, x) /\ ~Comes(steps', ReportStep, x)
        /\ \A u \in Ids : u # a /\ u # ReportStep => params'[u] = params[u]
        /\ call' = [call EXCEPT !["main"] = [pc |-> "idle"]]
        /\ UNCHANGED <<file, source>>
    BY <1>2, Selected
  <2>2. /\ "main" \in Threads /\ DOMAIN call = Threads /\ StepSet \subseteq Ids
    BY TwoThreads, Grounds DEF TInv
  <2>3. Good(c) /\ CallTidy(Now, c)
    <3>1. a \notin {"return", "discard"}
      BY <2>1, OpsAssumption
    <3> QED
      BY <2>1, <3>1 DEF MainGood, Idle
  <2>4. Sound(p) /\ StepsOf(p) = StepSet /\ Held(p) = StepSet
    BY <2>1, <2>2, <2>3, ReadySound
  <2>5. /\ p.source = source /\ p.steps = steps /\ p.params = params
        /\ p.results = c.results /\ p.owned = c.owned /\ p.dirtyKeys = c.dirtyKeys
        /\ p.current = c.ds /\ p.analyses = c.an
    BY PendingFields
  <2>6. X \intersect DOMAIN p.results = {}
    <3>1. DOMAIN p.results \subseteq StepSet
      BY <2>1, <2>3, <2>4 DEF CallTidy, Tidy
    <3> QED
      BY <2>1, <3>1
  <2>7. /\ Now'.source = p.source /\ Now'.results = p.results /\ Now'.owned = p.owned
        /\ Now'.dirtyKeys = p.dirtyKeys /\ Now'.current = p.current
        /\ Now'.analyses = p.analyses
        /\ \A u \in StepsOf(p) : Now'.params[u] = p.params[u]
        /\ \A x, y \in StepsOf(p) : Comes(Now'.steps, x, y) <=> Comes(p.steps, x, y)
    <3> HIDE DEF p, a, c
    <3> QED
      BY <2>1, <2>2, <2>4, <2>5, NowFieldsNext
  <2>8. StepsOf(Now') = StepsOf(p) \union X /\ Distinct(Now'.steps)
    BY <2>1, <2>4, NowFieldsNext DEF StepsOf
  <2>9. ASSUME NEW u \in X, NEW s \in Held(p) PROVE Harmless(Now', u, s)
    BY <2>1, <2>4, NowFieldsNext DEF Harmless
  <2> HIDE DEF p, X
  <2>10. Sound(Now')
    BY <2>4, <2>6, <2>7, <2>8, <2>9, JoinSound
  <2>11. call'["main"].pc = "idle"
    BY <2>1, <2>2
  <2> QED
    BY <2>10, <2>11 DEF MainGood, Idle
<1> QED
  BY <1>1, <1>2

LEMMA MainGoodOn ==
  ASSUME NoAliasIsNeeded, AInv, AInv', MainGood, MainActs
  PROVE  MainGood'
<1>1. Idle("main") => Sound(Now)
  BY DEF MainGood
<1>2. ASSUME NEW s \in Ids, SelectAnalysis(s) PROVE MainGood'
  BY <1>1, <1>2, SelectGood DEF SelectAnalysis
<1>3. ASSUME NEW s \in Ids, NEW p \in ParamsOf(s), InsertDataStep(s, p) PROVE MainGood'
  BY <1>1, <1>3, InsertDataGood DEF InsertDataStep
<1>4. ASSUME NEW s \in Ids, NEW p \in ParamsOf(s), EditDataStep(s, p) PROVE MainGood'
  BY <1>1, <1>4, EditDataGood DEF EditDataStep
<1>5. ASSUME NEW s \in Ids, NEW p \in ParamsOf(s), ConfirmPreparation(s, p) PROVE MainGood'
  <2>1. Idle("main")
    BY <1>5 DEF ConfirmPreparation
  <2>2. Idle("main")' /\ Sound(Now')
    BY <1>1, <1>5, <2>1, ConfirmGood
  <2> QED
    BY <2>2 DEF MainGood
<1>6. CASE ExportReport
  <2>1. Idle("main")
    BY <1>6 DEF ExportReport, EditParams, Recompute
  <2> QED
    BY <1>1, <1>6, <2>1, ExportGood
<1>7. CASE ExportResearchReport
  <2>1. Idle("main")
    BY <1>7 DEF ExportResearchReport
  <2> QED
    BY <1>1, <1>7, <2>1, ExportResearchGood
<1>8. CASE CommitResearchReport
  <2>1. Fail("main") /\ ~Idle("main")
    BY <1>8 DEF CommitResearchReport, Ready, Idle
  <2> QED
    BY <2>1, FailSound
<1> QED
  BY <1>2, <1>3, <1>4, <1>5, <1>6, <1>7, <1>8, MainWalkGood, CommitDataGood,
     CommitSelectionGood
  DEF MainActs

\* What the main thread does changes no call but its own.
LEMMA MainOnly ==
  ASSUME AInv, MainActs
  PROVE  call'["worker"] = call["worker"]
<1>1. /\ TInv /\ "main" \in Threads /\ "worker" \in Threads /\ "main" # "worker"
      /\ DOMAIN call = Threads
  BY TwoThreads DEF TInv
<1>2. ASSUME NEW c, call' = [call EXCEPT !["main"] = c]
      PROVE  call'["worker"] = call["worker"]
  BY <1>1, <1>2
<1>3. CASE Fail("main")
  BY <1>2, <1>3 DEF Fail
<1>4. ASSUME NEW d, NEW keys, NEW restores, NEW next, Begin("main", d, keys, restores, next)
      PROVE  call'["worker"] = call["worker"]
  BY <1>1, <1>4 DEF Begin
<1>5. ASSUME NEW s \in Ids, SelectAnalysis(s) PROVE call'["worker"] = call["worker"]
  BY <1>4, <1>5 DEF SelectAnalysis
<1>6. ASSUME NEW s \in Ids, NEW p \in ParamsOf(s),
             InsertDataStep(s, p) \/ EditDataStep(s, p) \/ ConfirmPreparation(s, p)
      PROVE  call'["worker"] = call["worker"]
  <2>1. CASE InsertDataStep(s, p)
    BY <1>4, <2>1 DEF InsertDataStep
  <2>2. CASE EditDataStep(s, p)
    BY <1>4, <2>2 DEF EditDataStep
  <2>3. CASE ConfirmPreparation(s, p)
    BY <2>3 DEF ConfirmPreparation
  <2> QED
    BY <1>6, <2>1, <2>2, <2>3
<1>7. CASE ExportReport
  <2>1. ASSUME NEW p, EditParams("main", ReportStep, p)
        PROVE  call'["worker"] = call["worker"]
    BY <1>4, <2>1 DEF EditParams
  <2>2. ASSUME Recompute("main", NoOne) PROVE call'["worker"] = call["worker"]
    BY <1>4, <2>2 DEF Recompute
  <2> QED
    BY <1>7, <2>1, <2>2 DEF ExportReport
<1>8. CASE ExportResearchReport
  BY <1>4, <1>8 DEF ExportResearchReport
<1>9. CASE CommitResearchReport
  BY <1>3, <1>9 DEF CommitResearchReport
<1>10. CASE CommitDataStep
  BY <1>2, <1>3, <1>10 DEF CommitDataStep
<1>11. CASE CommitSelection
  BY <1>2, <1>3, <1>11 DEF CommitSelection
<1>12. CASE Walk("main") /\ ~Fail("main")
  <2>1. CASE Commit("main")
    BY <1>2, <1>12, <2>1 DEF Commit
  <2>2. CASE WalkBegin("main") \/ WalkCached("main") \/ WalkCompute("main")
    BY <1>1, <1>12, <2>2, BegunWalk, CachedWalk, ComputedFacts DEF GoesOn
  <2> QED
    BY <1>12, <2>1, <2>2 DEF Walk
<1> QED
  BY <1>3, <1>5, <1>6, <1>7, <1>8, <1>9, <1>10, <1>11, <1>12 DEF MainActs

\* While the pipeline stands still, and the main thread too, so does what is good of it.
LEMMA StandsGood ==
  ASSUME Now' = Now, call'["main"] = call["main"]
  PROVE  MainGood' <=> MainGood
BY DEF MainGood, Good, Idle

LEMMA InitSound ==
  ASSUME OpsInit
  PROVE  Sound(Now)
<1>1. PICK i \in Imports :
        LET r == Compute(i, file, SourceData, <<>>)
        IN  /\ steps = <<i>> /\ StepSet = {i} /\ Elements(steps) = {i}
            /\ DOMAIN results = {i} /\ results[i] = r
            /\ owned[i] = Declared(i) /\ dirtyKeys[i] = ResultKeys(i, r)
            /\ current = WithUpdates(SourceData, r) /\ analyses = <<>>
  BY OpsInitInv
<1>2. /\ AInv /\ file \in Files \ {Gone} /\ Filed(Now)
      /\ \A s \in Ids : params[s] \in ParamsOf(s)
  BY OpsInitInv, TwoThreads
<1> DEFINE r == Compute(i, file, SourceData, <<>>)
<1>3. i \in Ids /\ i \notin Analyses /\ params[i] \in ParamsOf(i)
  BY <1>2, StepsAssumption
<1>4. Def[i][params[i]].needs = {} /\ Def[i][params[i]].meta = {}
  BY <1>3, ReadsAssumption
<1>5. /\ r.cols = Writes(i, file) /\ r.vars = r.cols \union Meta(i)
  <2>1. /\ r.cols = (IF i \in Analyses THEN {} ELSE Writes(i, file))
        /\ r.vars = r.cols \union Meta(i)
    BY ComputeFields
  <2> HIDE DEF r
  <2> QED
    BY <1>3, <2>1
<1>6. Shaped(Now, i) /\ Recorded(Now, i)
  <2>1. Now.params = params /\ Readable(i, file) /\ file \in Files
    BY <1>2, NowFields DEF Readable
  <2>2. owned[i] = Owned(i, IF i \in Imports THEN r.cols ELSE Writes(i, file))
    <3>1. owned[i] = Declared(i)
      BY <1>1
    <3> HIDE DEF r
    <3> QED
      BY <1>5, <3>1 DEF Declared
  <2>3. /\ Now.results[i] = Compute(i, file, SourceData, <<>>)
        /\ Now.owned[i] = Owned(i, IF i \in Imports
                                   THEN Compute(i, file, SourceData, <<>>).cols
                                   ELSE Writes(i, file))
        /\ Now.dirtyKeys[i] = ResultKeys(i, Compute(i, file, SourceData, <<>>))
    BY <1>1, <2>2, NowFields
  <2> QED
    BY <2>1, <2>3, ComputedNotes
<1>7. /\ DOMAIN Now.results = {i} /\ StepsOf(Now) = {i} /\ Held(Now) = {i}
      /\ Now.results[i] = r /\ Now.current = WithUpdates(SourceData, r)
      /\ Now.analyses = <<>> /\ Now.source = source
  BY <1>1, NowFields DEF StepsOf, Held
<1>8. Noted(Now)
  BY <1>2, <1>6, <1>7 DEF Noted
<1>9. DataIs(Now, Held(Now), Now.current)
  <2>1. DataIs(Now, {}, SourceData)
    BY <1>7, NothingRun
  <2>2. r.cols \subseteq r.vars /\ r.vars \ r.cols \subseteq DOMAIN SourceData
    <3>1. Meta(i) = {}
      BY <1>4 DEF Meta
    <3> HIDE DEF r
    <3> QED
      BY <1>5, <3>1
  <2>3. {} \union {i} = {i}
    OBVIOUS
  <2> HIDE DEF r
  <2>4. DataIs(Now, {} \union {i}, WithUpdates(SourceData, r))
    BY <1>7, <2>1, <2>2, ExtendData
  <2> QED
    BY <1>7, <2>3, <2>4
<1>10. AnalysesAre(Now, Held(Now), Now.analyses)
  <2>1. \A k : Held(Now) \intersect Ans(Now, k) = {}
    BY <1>3, <1>7 DEF Ans, AnalysisKeys
  <2>2. DOMAIN <<>> = {} /\ <<>> = [k \in {} |-> <<>>[k]]
    OBVIOUS
  <2> QED
    BY <1>7, <2>1, <2>2 DEF AnalysesAre
<1>11. Valued(Now, i)
  BY <1>4, NowFields DEF Valued, Needs
<1> QED
  BY <1>7, <1>8, <1>9, <1>10, <1>11 DEF Sound, Sourced

LEMMA InitGood == OpsInit => GInv
<1> SUFFICES ASSUME OpsInit PROVE GInv
  OBVIOUS
<1>1. AInv /\ AllIdle
  BY OpsInitInv
<1>2. Idle("main") /\ Idle("worker")
  BY <1>1, TwoThreads DEF AllIdle
<1> QED
  BY <1>2, InitSound DEF GInv, MainGood

\* The worker starts, goes on, fails or publishes.
LEMMA WorkerGood ==
  ASSUME NoAliasIsNeeded, AInv, GInv, WorkerActs,
         beside' = IF Idle("worker") THEN ~Idle("main") ELSE beside /\ ~Idle("worker")',
         torn' = IF Undisturbed THEN FALSE ELSE torn \/ ~Idle("main")
  PROVE  GInv'
<1>1. /\ "main" \in Threads /\ "worker" \in Threads /\ "main" # "worker"
      /\ TInv /\ Filed(Now) /\ DOMAIN call = Threads
  BY TwoThreads DEF TInv
<1> DEFINE c == call["worker"]
<1>2. call'["main"] = call["main"] /\ (Idle("main")' <=> Idle("main"))
  <2>1. call'["main"] = call["main"]
    BY <1>1, WorkerOnly DEF WorkerActs
  <2> QED
    BY <2>1 DEF Idle
<1>3. CASE Recompute("worker", NoOne)
  <2>1. /\ Idle("worker") /\ Now' = Now /\ call'["worker"].pc = "begin"
        /\ call'["worker"].dirty = NoOne
    BY <1>3, RerunInv
  <2>2. ~Undisturbed /\ ~Idle("worker")'
    BY <2>1 DEF Undisturbed, Idle
  <2>3. MainGood' <=> MainGood
    BY <1>2, <2>1, StandsGood
  <2>4. Good(call["worker"])'
    <3>1. CallFiled(Now', call'["worker"]) /\ CallValued(Now', call'["worker"])
      BY <1>1, <2>1 DEF CallFiled, CallValued, BeginFiled, BeginSourced
    <3> QED
      BY <3>1 DEF Good
  <2> QED
    BY <1>2, <2>1, <2>2, <2>3, <2>4 DEF GInv
<1>4. CASE Walk("worker")
  <2>1. ~Idle("worker") /\ c.pc \in {"begin", "walk"}
    BY <1>4 DEF Walk, WalkBegin, WalkCached, WalkCompute, Commit, Ready, Idle
  <2>2. c.restores = {}
    BY <1>1, <2>1 DEF AInv, CallInv, WorkerInv
  <2>3. CASE Fail("worker")
    <3>1. Now' = Now
      BY <2>2, <2>3 DEF Fail, Restored, Now
    <3>2. call'["worker"].pc = "failed"
      BY <1>1, <2>3 DEF Fail
    <3>3. ~Undisturbed /\ Idle("worker")'
      BY <3>2 DEF Undisturbed, Idle
    <3>4. MainGood' <=> MainGood
      BY <1>2, <3>1, StandsGood
    <3> QED
      BY <1>2, <3>3, <3>4 DEF GInv
  <2>4. CASE ~Fail("worker") /\ Commit("worker")
    <3>1. call'["worker"].pc = "idle" /\ Idle("worker")'
      BY <1>1, <2>4 DEF Commit, Idle
    <3>2. CASE beside
      BY <2>1, <3>1, <3>2 DEF GInv, Undisturbed
    <3>3. CASE ~beside
      <4>1. Idle("main") /\ Good(c)
        BY <2>1, <3>3 DEF GInv
      <4>2. Sound(Now')
        BY <1>1, <2>4, <4>1, CommitSound
      <4>3. MainGood'
        BY <1>2, <4>1, <4>2 DEF MainGood
      <4> QED
        BY <1>2, <3>1, <4>1, <4>3 DEF GInv
    <3> QED
      BY <3>2, <3>3
  <2>5. CASE ~Fail("worker")
             /\ (WalkBegin("worker") \/ WalkCached("worker") \/ WalkCompute("worker"))
    <3>1. GoesOn("worker")
      BY <1>1, <2>5, BegunWalk, CachedWalk, ComputedFacts
    <3>2. Now' = Now /\ call'["worker"].pc = "walk" /\ ~Idle("worker")' /\ ~Undisturbed
      BY <3>1 DEF GoesOn, Idle, Undisturbed
    <3>3. MainGood' <=> MainGood
      BY <1>2, <3>2, StandsGood
    <3>4. ~beside => Good(c)'
      <4> SUFFICES ASSUME ~beside PROVE Good(c)'
        OBVIOUS
      <4>1. Good(c)
        BY <2>1 DEF GInv
      <4> QED
        BY <1>1, <2>5, <4>1, GoodGoesOn
    <3>5. beside' <=> beside
      BY <2>1, <3>2
    <3>6. torn' <=> torn \/ ~Idle("main")
      BY <3>2
    <3> QED
      BY <1>2, <2>1, <3>2, <3>3, <3>4, <3>5, <3>6 DEF GInv
  <2> QED
    BY <1>4, <2>3, <2>4, <2>5 DEF Walk
<1> QED
  BY <1>3, <1>4 DEF WorkerActs

LEMMA NextGood == NoAliasIsNeeded /\ AInv /\ GInv /\ [OpsNext]_opsVars => GInv'
<1> SUFFICES ASSUME NoAliasIsNeeded, AInv, GInv, [OpsNext]_opsVars PROVE GInv'
  OBVIOUS
<1>1. CASE /\ MainActs /\ beside' = (beside \/ ~Idle("worker"))
           /\ torn' = (torn \/ ~Idle("worker"))
  <2>1. AInv'
    BY OpsNextInv
  <2>2. call'["worker"] = call["worker"] /\ (Idle("worker")' <=> Idle("worker"))
    <3>1. call'["worker"] = call["worker"]
      BY <1>1, MainOnly
    <3> QED
      BY <3>1 DEF Idle
  <2>3. ~torn => MainGood'
    BY <1>1, <2>1, MainGoodOn DEF GInv
  <2> QED
    BY <1>1, <2>2, <2>3 DEF GInv
<1>2. CASE /\ WorkerActs
           /\ beside' = IF Idle("worker") THEN ~Idle("main") ELSE beside /\ ~Idle("worker")'
           /\ torn' = IF Undisturbed THEN FALSE ELSE torn \/ ~Idle("main")
  BY <1>2, WorkerGood
<1>3. CASE UNCHANGED <<pipeline, call, beside, torn>>
  <2>1. Now' = Now /\ call' = call /\ beside' = beside /\ torn' = torn
    BY <1>3 DEF Now, pipeline
  <2>2. MainGood' <=> MainGood
    BY <2>1, StandsGood
  <2>3. Good(call["worker"])' <=> Good(call["worker"])
    BY <2>1 DEF Good
  <2> QED
    BY <2>1, <2>2, <2>3 DEF GInv, Idle
<1> QED
  BY <1>1, <1>2, <1>3 DEF OpsNext, FileChanges, opsVars, vars

\* When no step needs an analysis by the id of the analysis step, then as long as no two calls
\* have overlapped, and again when one rerun has gone through undisturbed, a pipeline at rest
\* has the caches, the dataset and the analyses that a recomputation from scratch would give
\* (QuietRerunHeals): whatever the main thread put aside, restored and replaced, whichever
\* calls failed, and whatever a race had left behind before the rerun.
THEOREM QuietRerunsHeal ==
  ASSUME NoAliasIsNeeded
  PROVE  OpsSpec => []QuietRerunHeals
<1>1. AInv /\ GInv => QuietRerunHeals
  <2> SUFFICES ASSUME AInv, GInv, ~torn, AllIdle
               PROVE  CachesCoherent /\ PublishedIsCached
    BY DEF QuietRerunHeals, CachesCoherent, PublishedIsCached
  <2>1. Idle("main")
    BY TwoThreads DEF AllIdle
  <2>2. PipeOK(Now) /\ Noted(Now) /\ Sourced(Now)
    BY <2>1, Grounds DEF GInv, MainGood, Sound
  <2>3. CachesCoherent
    BY <2>2, CoherentAtRest DEF CachesCoherent
  <2>4. PublishedIsCached
    BY <2>2, PublishedAtRest DEF PublishedIsCached
  <2> QED
    BY <2>3, <2>4
<1>2. AInv /\ AInv' /\ GInv /\ [OpsNext]_opsVars => GInv'
  BY NextGood
<1> QED
  BY OpsAlways, InitGood, <1>1, <1>2, PTL DEF OpsSpec

------------------------------------------------------------------------------
(* What the report of an export shows.                                       *)

\* Whatever is cached of the report step, it is no key that another step reads.
ReportKeys ==
  Aliases[ReportStep] \union UNION {Def[ReportStep][r].writes : r \in ParamsOf(ReportStep)}
OfReport(dk) == ReportStep \in DOMAIN dk => dk[ReportStep] \subseteq ReportKeys
CallOfReport(c) ==
  /\ c.pc \in {"begin", "walk"} => OfReport(c.before.dirtyKeys)
  /\ c.pc = "walk" => OfReport(c.dirtyKeys)
KInv == OfReport(dirtyKeys) /\ \A t \in Threads : CallOfReport(call[t])

LEMMA KeptOfReport ==
  ASSUME NEW dk, OfReport(dk), NEW S
  PROVE  OfReport(Without(dk, S))
BY DEF OfReport, Without

LEMMA OneOfReport ==
  ASSUME AInv, KInv, NEW t \in Threads, NEW c, call' = [call EXCEPT ![t] = c],
         CallOfReport(c), OfReport(dirtyKeys')
  PROVE  KInv'
<1>1. \A u \in Threads : call'[u] = IF u = t THEN c ELSE call[u]
  BY DEF AInv, TInv
<1>2. \A u \in Threads : CallOfReport(call'[u])
  BY <1>1 DEF KInv
<1> QED
  BY <1>2 DEF KInv

LEMMA StartOfReport ==
  ASSUME AInv, KInv, NEW t \in Threads, NEW d, NEW keys, NEW restores, NEW next,
         Begin(t, d, keys, restores, next), OfReport(dirtyKeys')
  PROVE  KInv'
<1> DEFINE c == [pc |-> "begin", dirty |-> d, keys |-> keys, restores |-> restores,
                 next |-> next, before |-> Now]
<1>1. call' = [call EXCEPT ![t] = c]
  BY DEF Begin
<1>2. c.pc = "begin" /\ c.before.dirtyKeys = dirtyKeys
  BY NowFields
<1> HIDE DEF c
<1>3. CallOfReport(c)
  BY <1>2 DEF CallOfReport, KInv
<1> QED
  BY <1>1, <1>3, OneOfReport

LEMMA FailOfReport ==
  ASSUME AInv, KInv, NEW t \in Threads, call[t].pc \in {"begin", "walk"}, Fail(t)
  PROVE  KInv'
<1>1. /\ call' = [call EXCEPT ![t] = [pc |-> "failed"]]
      /\ dirtyKeys' = IF "dirtyKeys" \in call[t].restores THEN call[t].before["dirtyKeys"]
                      ELSE dirtyKeys
  BY DEF Fail, Restored
<1>2. OfReport(dirtyKeys')
  BY <1>1 DEF KInv, CallOfReport
<1>3. CallOfReport([pc |-> "failed"])
  BY DEF CallOfReport
<1> QED
  BY <1>1, <1>2, <1>3, OneOfReport

LEMMA PublishOfReport ==
  ASSUME AInv, KInv, NEW t \in Threads, call[t].pc = "walk", dirtyKeys' = call[t].dirtyKeys,
         call' = [call EXCEPT ![t] = [pc |-> "idle"]]
  PROVE  KInv'
<1>1. OfReport(dirtyKeys') /\ CallOfReport([pc |-> "idle"])
  BY DEF KInv, CallOfReport
<1> QED
  BY <1>1, OneOfReport

\* The report step has no metadata, and writes what it declares.
LEMMA ComputedOfReport ==
  ASSUME AInv, NEW dk, OfReport(dk), NEW s, NEW ds, NEW an
  PROVE  OfReport(Put(dk, s, ResultKeys(s, Compute(s, file, ds, an))))
<1> DEFINE r == Compute(s, file, ds, an)
<1>1. ASSUME s = ReportStep PROVE ResultKeys(s, r) \subseteq ReportKeys
  <2>1. s \in Analyses /\ s \notin Imports /\ s \in Ids /\ params[s] \in ParamsOf(s)
    BY <1>1, TwoThreads, OpsAssumption, StepsAssumption
  <2>2. Def[s][params[s]].meta = {}
    BY <2>1, DataAssumption
  <2>3. r.vars = {}
    BY <2>1, <2>2 DEF Compute, Meta
  <2> HIDE DEF r
  <2>4. ResultKeys(s, r) = Def[s][params[s]].writes \union Aliases[s]
    BY <2>1, <2>3 DEF ResultKeys, Writes
  <2> QED
    BY <1>1, <2>1, <2>4 DEF ReportKeys
<1> HIDE DEF r
<1> QED
  BY <1>1 DEF OfReport, Put, r

LEMMA WalkOfReport ==
  ASSUME AInv, KInv, NEW t \in Threads, Walk(t)
  PROVE  KInv'
<1> DEFINE c == call[t]
           d == call'[t]
<1>1. TInv /\ c.pc \in {"begin", "walk"}
  BY TwoThreads DEF Walk, WalkBegin, WalkCached, WalkCompute, Commit, Ready
<1>2. CASE Fail(t)
  BY <1>1, <1>2, FailOfReport
<1>3. CASE ~Fail(t) /\ Commit(t)
  BY <1>3, PublishOfReport DEF Commit, Ready, Publish
<1>4. CASE ~Fail(t) /\ (WalkBegin(t) \/ WalkCached(t) \/ WalkCompute(t))
  <2>1. GoesOn(t)
    BY <1>1, <1>4, BegunWalk, CachedWalk, ComputedFacts
  <2>2. OfReport(d.dirtyKeys)
    <3>1. CASE WalkBegin(t)
      BY <1>1, <1>4, <3>1, BegunWalk DEF KInv
    <3>2. CASE WalkCached(t)
      BY <1>1, <3>2, CachedWalk DEF KInv, CallOfReport
    <3>3. CASE WalkCompute(t)
      <4> DEFINE p == Pending(Now, c)
                 s == Head(c.todo)
                 r == Compute(s, file, c.ds, c.an)
      <4>1. /\ c.pc = "walk"
            /\ d.dirtyKeys = Put(p.dirtyKeys, s, ResultKeys(s, r))
        BY <1>1, <1>4, <3>3, ComputedFacts
      <4>2. p.dirtyKeys = c.dirtyKeys
        BY <1>1, <4>1, PendingFields
      <4>3. OfReport(c.dirtyKeys)
        BY <4>1 DEF KInv, CallOfReport
      <4> QED
        BY <4>1, <4>2, <4>3, ComputedOfReport
    <3> QED
      BY <1>4, <3>1, <3>2, <3>3
  <2>3. /\ dirtyKeys' = dirtyKeys /\ d.pc = "walk" /\ d.before = c.before
        /\ \A u \in Threads : u # t => call'[u] = call[u]
    BY <2>1 DEF GoesOn, pipeline
  <2>4. OfReport(c.before.dirtyKeys)
    BY <1>1 DEF KInv, CallOfReport
  <2>5. CallOfReport(d)
    BY <2>2, <2>3, <2>4 DEF CallOfReport
  <2>6. ASSUME NEW u \in Threads PROVE CallOfReport(call'[u])
    <3>1. CASE u = t
      BY <2>5, <3>1
    <3>2. CASE u # t
      BY <2>3, <3>2 DEF KInv
    <3> QED
      BY <3>1, <3>2
  <2> QED
    BY <2>3, <2>6 DEF KInv
<1> QED
  BY <1>2, <1>3, <1>4 DEF Walk

LEMMA NextOfReport == AInv /\ KInv /\ [OpsNext]_opsVars => KInv'
<1> SUFFICES ASSUME AInv, KInv, [OpsNext]_opsVars PROVE KInv'
  OBVIOUS
<1>1. "main" \in Threads /\ "worker" \in Threads /\ OfReport(dirtyKeys)
  BY TwoThreads DEF KInv
<1>2. ASSUME NEW S, dirtyKeys' = Without(dirtyKeys, S) PROVE OfReport(dirtyKeys')
  BY <1>1, <1>2, KeptOfReport
<1>3. ASSUME NEW s \in Ids, SelectAnalysis(s) PROVE KInv'
  BY <1>1, <1>2, <1>3, StartOfReport DEF SelectAnalysis, KeepSteps
<1>4. ASSUME NEW s \in Ids, NEW p \in ParamsOf(s), InsertDataStep(s, p) PROVE KInv'
  BY <1>1, <1>2, <1>4, StartOfReport DEF InsertDataStep, KeepSteps
<1>5. ASSUME NEW s \in Ids, NEW p \in ParamsOf(s), EditDataStep(s, p) PROVE KInv'
  BY <1>1, <1>2, <1>5, StartOfReport DEF EditDataStep, KeepSteps
<1>6. ASSUME NEW s \in Ids, NEW p \in ParamsOf(s), ConfirmPreparation(s, p) PROVE KInv'
  <2>1. OfReport(dirtyKeys') /\ call' = call
    BY <1>2, <1>6 DEF ConfirmPreparation, KeepSteps
  <2> QED
    BY <2>1 DEF KInv
<1>7. CASE ExportReport
  <2>1. ASSUME NEW p, EditParams("main", ReportStep, p) PROVE KInv'
    BY <1>1, <2>1, StartOfReport DEF EditParams
  <2>2. ASSUME Recompute("main", NoOne) PROVE KInv'
    BY <1>1, <2>2, StartOfReport DEF Recompute, pipeline
  <2> QED
    BY <1>7, <2>1, <2>2 DEF ExportReport
<1>8. CASE ExportResearchReport
  BY <1>1, <1>8, StartOfReport DEF ExportResearchReport
<1>9. CASE CommitResearchReport
  BY <1>1, <1>9, FailOfReport DEF CommitResearchReport, Ready
<1>10. CASE CommitDataStep
  BY <1>1, <1>10, FailOfReport, PublishOfReport DEF CommitDataStep, Ready, Publish
<1>11. CASE CommitSelection
  BY <1>1, <1>11, FailOfReport, PublishOfReport DEF CommitSelection, Ready
<1>12. CASE MainActs
  BY <1>1, <1>3, <1>4, <1>5, <1>6, <1>7, <1>8, <1>9, <1>10, <1>11, <1>12, WalkOfReport
  DEF MainActs
<1>13. CASE WorkerActs
  <2>1. ASSUME Recompute("worker", NoOne) PROVE KInv'
    BY <1>1, <2>1, StartOfReport DEF Recompute, pipeline
  <2> QED
    BY <1>1, <1>13, <2>1, WalkOfReport DEF WorkerActs
<1>14. CASE UNCHANGED <<pipeline, call>>
  BY <1>14 DEF KInv, pipeline
<1> QED
  BY <1>12, <1>13, <1>14 DEF OpsNext, FileChanges, opsVars, vars

LEMMA InitOfReport == OpsInit => KInv
<1> SUFFICES ASSUME OpsInit PROVE KInv
  OBVIOUS
<1>1. /\ \A t \in Threads : call[t].pc = "idle"
      /\ \E i \in Imports : DOMAIN dirtyKeys = {i}
  BY DEF OpsInit
<1>2. ReportStep \notin Imports
  BY OpsAssumption, StepsAssumption
<1> QED
  BY <1>1, <1>2 DEF KInv, OfReport, CallOfReport

\* Nothing is recomputed for a report but the report.
LEMMA ReportAlone ==
  ASSUME AInv, KInv, ReportStep \in StepSet
  PROVE  DirtySteps(ReportStep, {}) = {ReportStep}
<1> DEFINE d == ReportStep
           Output(D)  == {} \union CachedKeys(d) \union UNION {StaticKeys(t) : t \in D}
           Reached(D) == {t \in StepSet : \/ Def[t][params[t]].inputs \intersect D # {}
                                          \/ Def[t][params[t]].reads \intersect Output(D) # {}}
           N == Len(steps)
           Is(q) == q = [n \in 0..N |-> IF n = 0 THEN {d} ELSE q[n - 1] \union Reached(q[n - 1])]
           r == CHOOSE q : Is(q)
<1>1. /\ steps \in Seq(Ids) /\ StepSet \subseteq Ids /\ \A s \in Ids : params[s] \in ParamsOf(s)
      /\ d \in Analyses /\ d \notin Imports /\ d \in Ids /\ N \in Nat
  BY TwoThreads, Grounds, OpsAssumption, StepsAssumption
<1>2. DirtySteps(d, {}) = r[N]
  <2>1. d # NoOne
    BY <1>1, StepsAssumption
  <2> QED
    BY <2>1 DEF DirtySteps
<1>3. Output({d}) \subseteq ReportKeys
  <2>1. StaticKeys(d) = Def[d][params[d]].writes /\ params[d] \in ParamsOf(d)
    <3>1. Def[d][params[d]].meta = {}
      BY <1>1, DataAssumption
    <3> QED
      BY <1>1, <3>1 DEF StaticKeys, Writes, Meta
  <2>2. CachedKeys(d) \subseteq ReportKeys
    BY DEF CachedKeys, KInv, OfReport
  <2> QED
    BY <2>1, <2>2 DEF ReportKeys
<1>4. Reached({d}) = {}
  <2> SUFFICES ASSUME NEW t \in StepSet
               PROVE  /\ d \notin Def[t][params[t]].inputs
                      /\ Def[t][params[t]].reads \intersect ReportKeys = {}
    BY <1>3
  <2>1. t \in Ids /\ params[t] \in ParamsOf(t) /\ params[d] \in ParamsOf(d)
    BY <1>1
  <2>2. \A u \in ParamsOf(ReportStep) :
          /\ ReportStep \notin Def[t][params[t]].inputs
          /\ Def[t][params[t]].reads \intersect
               (Def[ReportStep][u].writes \union Aliases[ReportStep]) = {}
    BY <2>1, ReportAssumption
  <2> QED
    BY <2>1, <2>2 DEF ReportKeys
<1>5. Is([n \in 0..N |-> {d}])
  <2> DEFINE q == [n \in 0..N |-> {d}]
  <2>1. ASSUME NEW n \in 0..N
        PROVE  q[n] = IF n = 0 THEN {d} ELSE q[n - 1] \union Reached(q[n - 1])
    <3>1. n # 0 => q[n - 1] = {d}
      BY <1>1
    <3> HIDE DEF Reached
    <3> QED
      BY <1>4, <3>1
  <2> HIDE DEF Reached, N
  <2> QED
    BY <2>1
<1>6. Is(r)
  BY <1>5
<1> HIDE DEF r, Reached
<1>7. \A n \in 0..N : r[n] = IF n = 0 THEN {d} ELSE r[n - 1] \union Reached(r[n - 1])
  BY <1>6
<1> DEFINE S == {n \in Nat : n \in 0..N => r[n] = {d}}
<1>8. 0 \in S
  BY <1>1, <1>7
<1>9. ASSUME NEW n \in Nat, n \in S PROVE n + 1 \in S
  <2> SUFFICES ASSUME n + 1 \in 0..N PROVE r[n + 1] = {d}
    OBVIOUS
  <2>1. n \in 0..N /\ n + 1 # 0 /\ (n + 1) - 1 = n
    BY <1>1
  <2>2. r[n] = {d}
    BY <1>9, <2>1
  <2>3. r[n + 1] = r[n] \union Reached(r[n])
    BY <1>7, <2>1
  <2> QED
    BY <1>4, <2>2, <2>3
<1>10. N \in S
  <2> HIDE DEF S
  <2>1. Nat \subseteq S
    BY <1>8, <1>9, SetInduction
  <2> QED
    BY <1>1, <2>1
<1> QED
  BY <1>1, <1>2, <1>10

\* The call of an export puts the report behind the rest and has only it to compute.  What
\* it shows is a cached result, and no other step owns a key of that analysis.
Showing(c) ==
  LET b == c.before
  IN  /\ c.restores = Snapshot
      /\ ReportStep \notin StepsOf(b) /\ steps = Append(b.steps, ReportStep)
      /\ Def[ReportStep][params[ReportStep]].needs # {} =>
           \E a \in Held(b) :
             /\ StepsOf(b) \intersect Analyses = {a}
             /\ params[ReportStep] = ReportOf(a, params[a])
             /\ c.pc = "begin" =>
                  /\ c.dirty = ReportStep /\ c.keys = {}
                  /\ results = b.results /\ owned = b.owned
             /\ c.pc = "walk" =>
                  /\ c.dirty = {ReportStep}
                  /\ a \in DOMAIN c.results /\ c.results[a] = b.results[a]
                  /\ c.owned[a] = b.owned[a]
                  /\ \A v \in (StepSet \ {a, ReportStep}) \intersect DOMAIN c.results :
                       c.owned[v] \intersect b.owned[a] = {}
XInv == ~torn /\ ~Idle("main") /\ call["main"].next = "discard" => Showing(call["main"])

LEMMA ExportShowing ==
  ASSUME AInv, Sound(Now), ExportResearchReport
  PROVE  Showing(call["main"])'
<1> DEFINE s == ReportStep
           c == call'["main"]
<1>1. /\ steps \in Seq(Ids) /\ DOMAIN params = Ids /\ "main" \in Threads /\ TInv
      /\ StepsOf(Now) = StepSet /\ StepSet \subseteq Ids
  BY TwoThreads, Grounds
<1>2. PICK a \in Analyses :
        /\ s \notin StepSet /\ steps' = Append(steps, s)
        /\ {u \in StepSet : ~IsData(u)} = {a}
        /\ Def[s][ReportOf(a, params[a])].needs \subseteq DOMAIN analyses
        /\ params' = [params EXCEPT ![s] = ReportOf(a, params[a])]
        /\ Begin("main", s, {}, Snapshot, "discard")
        /\ UNCHANGED <<file, source, results, owned, dirtyKeys, current, analyses>>
  BY DEF ExportResearchReport
<1>3. s \in Ids
  BY OpsAssumption, StepsAssumption
<1>4. call'["main"] = [pc |-> "begin", dirty |-> s, keys |-> {}, restores |-> Snapshot,
                       next |-> "discard", before |-> Now]
  BY <1>1, <1>2, BeginTypes
<1>5. /\ c.pc = "begin" /\ c.dirty = s /\ c.keys = {} /\ c.restores = Snapshot
      /\ c.before = Now
  BY <1>4
<1>6. StepSet \intersect Analyses = {a} /\ a # s
  BY <1>2 DEF IsData
<1>7. params'[s] = ReportOf(a, params[a]) /\ params'[a] = params[a]
  BY <1>1, <1>2, <1>3, <1>6
<1>8. ASSUME Def[s][params'[s]].needs # {} PROVE a \in Held(Now)
  <2>1. PICK k : k \in DOMAIN analyses
    BY <1>2, <1>7, <1>8
  <2>2. AnalysesAre(Now, Held(Now), Now.analyses) /\ Now.analyses = analyses
    BY NowFields DEF Sound, Sourced
  <2>3. PICK w \in Held(Now) : w \in Ans(Now, k)
    BY <2>1, <2>2 DEF AnalysesAre
  <2>4. w \in StepSet /\ w \in Analyses
    BY <1>1, <2>3 DEF Held, Ans, AnalysisKeys
  <2> QED
    BY <1>6, <2>3, <2>4
<1> HIDE DEF c, s
<1>9. results' = Now.results /\ owned' = Now.owned
  BY <1>2, NowFields
<1> QED
  BY <1>1, <1>2, <1>5, <1>6, <1>7, <1>8, <1>9, NowFields DEF Showing, c, s

LEMMA ShowingGoesOn ==
  ASSUME AInv, KInv, MainGood, ~Idle("main"), Showing(call["main"]),
         WalkBegin("main") \/ WalkCached("main") \/ WalkCompute("main"), ~Fail("main")
  PROVE  Showing(call["main"])'
<1> DEFINE c == call["main"]
           d == call'["main"]
           b == c.before
<1>1. /\ "main" \in Threads /\ TInv /\ Kept(Now) /\ (c.pc = "walk" => Kept(c))
      /\ steps \in Seq(Ids) /\ StepSet \subseteq Ids
  BY TwoThreads, Grounds DEF AInv, CallInv
<1>2. GoesOn("main")
  BY <1>1, BegunWalk, CachedWalk, ComputedFacts
<1>3. /\ steps' = steps /\ params' = params /\ StepSet' = StepSet /\ d.pc = "walk"
      /\ d.restores = c.restores /\ d.before = b
  BY <1>2 DEF GoesOn, pipeline, StepSet
<1>4. /\ c.restores = Snapshot /\ ReportStep \notin StepsOf(b)
      /\ steps = Append(b.steps, ReportStep)
  BY DEF Showing
<1>5. ASSUME NEW a \in Held(b),
             /\ StepsOf(b) \intersect Analyses = {a}
             /\ params[ReportStep] = ReportOf(a, params[a])
             /\ c.pc = "begin" =>
                  /\ c.dirty = ReportStep /\ c.keys = {}
                  /\ results = b.results /\ owned = b.owned
             /\ c.pc = "walk" =>
                  /\ c.dirty = {ReportStep}
                  /\ a \in DOMAIN c.results /\ c.results[a] = b.results[a]
                  /\ c.owned[a] = b.owned[a]
                  /\ \A v \in (StepSet \ {a, ReportStep}) \intersect DOMAIN c.results :
                       c.owned[v] \intersect b.owned[a] = {}
      PROVE  /\ d.dirty = {ReportStep}
             /\ a \in DOMAIN d.results /\ d.results[a] = b.results[a]
             /\ d.owned[a] = b.owned[a]
             /\ \A v \in (StepSet \ {a, ReportStep}) \intersect DOMAIN d.results :
                  d.owned[v] \intersect b.owned[a] = {}
  <2>0. a # ReportStep /\ a \in StepSet /\ ReportStep \in StepSet /\ a \in DOMAIN b.results
    <3>1. PipeOK(b)
      BY <1>1 DEF TInv, CallOK, Idle
    <3>2. Elements(steps) = Elements(b.steps) \union {ReportStep} /\ Elements(steps) = StepSet
      <4>1. b.steps \in Seq(Ids) /\ ReportStep \in Ids
        BY <3>1, OpsAssumption, StepsAssumption DEF PipeOK
      <4>2. Distinct(b.steps) /\ ReportStep \notin Elements(b.steps)
        BY <1>4 DEF MainGood, Sound, Noted, Filed, StepsOf
      <4> HIDE DEF b
      <4> QED
        BY <1>4, <4>1, <4>2, AppendList, Grounds
    <3> QED
      BY <1>4, <3>2 DEF Held, StepsOf
  <2>1. CASE WalkBegin("main")
    <3>1. /\ c.pc = "begin" /\ d.dirty = DirtySteps(c.dirty, c.keys)
          /\ d.results = results /\ d.owned = owned
      BY <1>1, <2>1, BegunWalk
    <3>2. d.dirty = {ReportStep}
      BY <1>5, <2>0, <3>1, ReportAlone
    <3>3. Preflight({ReportStep})
      BY <1>5, <2>1, <3>1, <3>2 DEF WalkBegin
    <3>4. a \in DOMAIN owned /\ DOMAIN owned = DOMAIN results
      BY <1>1, <1>5, <2>0, <3>1, NowFields DEF Kept
    <3>5. ASSUME NEW v \in (StepSet \ {a, ReportStep}) \intersect DOMAIN results
          PROVE  owned[v] \intersect owned[a] = {}
      <4> DEFINE W == [u \in StepSet |-> IF u \notin {ReportStep} /\ u \in DOMAIN owned
                                           THEN owned[u] ELSE Declared(u)]
      <4>1. Unique(StepSet, W)
        BY <3>3 DEF Preflight
      <4>2. W[v] = owned[v] /\ W[a] = owned[a]
        BY <2>0, <3>4
      <4> HIDE DEF W
      <4> QED
        BY <2>0, <4>1, <4>2 DEF Unique
    <3> QED
      BY <1>5, <3>1, <3>2, <3>4, <3>5, <2>0
  <2>2. CASE WalkCached("main")
    <3>1. /\ c.pc = "walk" /\ d.dirty = c.dirty /\ d.results = c.results /\ d.owned = c.owned
      BY <1>1, <2>2, CachedWalk
    <3> QED
      BY <1>5, <3>1
  <2>3. CASE WalkCompute("main")
    <3> DEFINE s == Head(c.todo)
               p == Pending(Now, c)
               q == Pending(Now', d)
               r == Compute(s, file, c.ds, c.an)
               o == Owned(s, IF s \in Imports THEN r.cols ELSE Writes(s, file))
    <3>1. /\ c.pc = "walk" /\ (s \in c.dirty \/ s \notin DOMAIN c.results)
          /\ UniqueNow(q.results, q.owned) /\ d.dirty = c.dirty
          /\ d.results = q.results /\ d.owned = q.owned
          /\ q.results = Put(p.results, s, r) /\ q.owned = Put(p.owned, s, o)
      BY <1>1, <2>3, ComputedFacts
    <3>2. p.results = c.results /\ p.owned = c.owned /\ DOMAIN c.owned = DOMAIN c.results
      BY <1>1, <3>1, PendingFields DEF Kept
    <3> HIDE DEF p, q, r, o, s
    <3>3. s # a /\ a \in DOMAIN c.results
      BY <1>5, <2>0, <3>1
    <3>4. /\ DOMAIN d.owned = DOMAIN d.results /\ a \in DOMAIN d.results
          /\ d.results[a] = c.results[a] /\ d.owned[a] = c.owned[a]
      BY <3>1, <3>2, <3>3 DEF Put
    <3>5. ASSUME NEW v \in (StepSet \ {a, ReportStep}) \intersect DOMAIN d.results
          PROVE  d.owned[v] \intersect d.owned[a] = {}
      <4> DEFINE W == [u \in StepSet |-> IF u \notin DOMAIN d.results THEN Declared(u)
                                         ELSE IF u \in DOMAIN d.owned THEN d.owned[u] ELSE {}]
      <4>1. Unique(StepSet, W)
        BY <3>1 DEF UniqueNow
      <4>2. W[v] = d.owned[v] /\ W[a] = d.owned[a]
        BY <2>0, <3>4
      <4> HIDE DEF W
      <4> QED
        BY <2>0, <4>1, <4>2 DEF Unique
    <3> QED
      BY <1>5, <3>1, <3>4, <3>5
  <2> QED
    BY <2>1, <2>2, <2>3
<1> HIDE DEF c, d, b
<1>6. Def[ReportStep][params[ReportStep]].needs # {} =>
        \E a \in Held(b) :
          /\ StepsOf(b) \intersect Analyses = {a}
          /\ params[ReportStep] = ReportOf(a, params[a])
          /\ d.dirty = {ReportStep}
          /\ a \in DOMAIN d.results /\ d.results[a] = b.results[a]
          /\ d.owned[a] = b.owned[a]
          /\ \A v \in (StepSet \ {a, ReportStep}) \intersect DOMAIN d.results :
               d.owned[v] \intersect b.owned[a] = {}
  BY <1>5 DEF Showing, c, d, b
<1> QED
  BY <1>3, <1>4, <1>6 DEF Showing, c, d, b

\* The report that is ready has been computed from what was published before the call.
LEMMA ReadyShows ==
  ASSUME AInv, MainGood, Showing(call["main"]), Ready("main"),
         NEW k \in DOMAIN call["main"].an[ReportStep].of
  PROVE  LET b == call["main"].before
         IN  /\ k \in DOMAIN b.analyses
             /\ call["main"].an[ReportStep].of[k] = Whole(b.analyses[k])
<1> DEFINE c == call["main"]
           b == c.before
           p == Pending(Now, c)
           R == ReportStep
<1>1. /\ "main" \in Threads /\ TInv /\ ~Idle("main") /\ c.pc = "walk"
      /\ StepSet \subseteq Ids /\ \A s \in Ids : params[s] \in ParamsOf(s)
      /\ \A x \in Sources : Columns[x] = {}
  BY TwoThreads, Grounds, ReportAssumption DEF Ready
<1>2. Sound(b) /\ Restorable(Now, c) /\ Good(c)
  BY <1>1 DEF MainGood
<1>3. Sound(p) /\ StepsOf(p) = StepSet /\ Held(p) = StepSet
  BY <1>1, <1>2, ReadySound
<1>4. /\ p.source = source /\ p.steps = steps /\ p.params = params /\ p.results = c.results
      /\ p.owned = c.owned /\ p.analyses = c.an /\ source \in Sources
  BY <1>1, PendingFields, NowOK DEF TInv
<1>5. /\ c.restores = Snapshot /\ R \notin StepsOf(b) /\ steps = Append(b.steps, R)
  BY DEF Showing
<1>6. /\ StepSet = StepsOf(b) \union {R} /\ R \in Analyses /\ R \in Ids /\ R \in Aliases[R]
      /\ \A u : ~Comes(steps, R, u)
  <2>1. PipeOK(b) /\ R \in Analyses /\ R \in Ids /\ R \in Aliases[R]
    BY <1>1, WalkFields, OpsAssumption, StepsAssumption, ReportAssumption
  <2>2. b.steps \in Seq(Ids) /\ Distinct(b.steps) /\ R \notin Elements(b.steps)
    BY <1>2, <1>5, <2>1 DEF PipeOK, Sound, Noted, Filed, StepsOf
  <2> HIDE DEF b, R
  <2>3. Elements(steps) = Elements(b.steps) \union {R} /\ \A u : ~Comes(steps, R, u)
    BY <1>5, <2>1, <2>2, AppendList
  <2> QED
    BY <2>1, <2>3, Grounds DEF StepsOf
<1> HIDE DEF b, p, R
\* What is filed under the report's id is the report.
<1>7. c.an[R] = p.results[R].term
  <2> DEFINE S == StepSet \intersect Ans(p, R)
  <2>1. AnalysesAre(p, StepSet, p.analyses)
    BY <1>3 DEF Sound, Sourced
  <2>2. R \in S
    BY <1>3, <1>6 DEF Ans, AnalysisKeys, Held
  <2>3. From(p, S, c.an[R])
    BY <1>4, <2>1, <2>2 DEF AnalysesAre
  <2>4. PICK v \in S : LastOne(p, S, v) /\ c.an[R] = p.results[v].term
    BY <2>2, <2>3 DEF From
  <2>5. v = R
    BY <1>4, <1>6, <2>2, <2>4 DEF LastOne
  <2> QED
    BY <2>4, <2>5
<1>8. /\ k \in Needs(p, R) /\ Value(p, Before(p, R), k, p.results[R].term.of[k])
  <2>1. R \in Held(p) /\ Shaped(p, R) /\ Valued(p, R)
    BY <1>3, <1>6 DEF Sound, Noted, Sourced
  <2>2. k \in DOMAIN p.results[R].term.of
    BY <1>7 DEF c, R
  <2>3. DOMAIN p.results[R].term.of = Needs(p, R)
    BY <2>1 DEF Shaped
  <2> QED
    BY <2>1, <2>2, <2>3 DEF Valued
<1>9. PICK a \in Held(b) :
        /\ StepsOf(b) \intersect Analyses = {a}
        /\ params[R] = ReportOf(a, params[a])
        /\ a \in DOMAIN c.results /\ c.results[a] = b.results[a]
        /\ c.owned[a] = b.owned[a]
        /\ \A v \in (StepSet \ {a, R}) \intersect DOMAIN c.results :
             c.owned[v] \intersect b.owned[a] = {}
  <2>1. Def[R][params[R]].needs # {}
    BY <1>4, <1>8 DEF Needs
  <2> QED
    BY <1>1, <2>1 DEF Showing, R, b
<1>10. /\ a \in StepSet /\ a \in Analyses \ {R} /\ a \in Ids /\ a \notin Imports
       /\ params[a] \in ParamsOf(a) /\ b.params[a] = params[a]
       /\ k \in Def[a][params[a]].writes \union Aliases[a]
  <2>1. a \in StepSet /\ a \in Analyses \ {R} /\ a \in Ids
    BY <1>1, <1>5, <1>6, <1>9 DEF Held
  <2>2. params[a] \in ParamsOf(a) /\ a \notin Imports
    BY <1>1, <2>1, StepsAssumption
  <2>3. b.params[a] = params[a]
    <3>1. "params" \notin c.restores
      BY <1>5 DEF Snapshot, Caches
    <3> QED
      BY <1>2, <1>9, <3>1, NowFields DEF Restorable, Held, b
  <2>4. k \in Def[R][ReportOf(a, params[a])].needs
    BY <1>4, <1>8, <1>9 DEF Needs
  <2>5. Def[R][ReportOf(a, params[a])].needs \subseteq Def[a][params[a]].writes \union Aliases[a]
    BY <2>1, <2>2, ReportFor DEF R
  <2> QED
    BY <2>1, <2>2, <2>3, <2>4, <2>5
\* It is the key of that analysis, so it is no column.
<1>11. ~IsColumn(p, Before(p, R), k)
  <2>1. k \notin Columns[p.source]
    BY <1>1, <1>4
  <2>2. ASSUME NEW v \in Before(p, R), v \in Cols(p, k) PROVE FALSE
    <3>1. v \in StepSet /\ v # R /\ v \in DOMAIN c.results
      <4>1. Comes(steps, v, R) /\ v \in DOMAIN p.results
        BY <1>4, <2>2 DEF Before
      <4>2. v \in Elements(steps)
        BY <4>1, ComesIn
      <4> QED
        BY <1>4, <1>6, <4>1, <4>2, Grounds
    <3>2. v \in Held(p) /\ Shaped(p, v) /\ Recorded(p, v) /\ k \in p.results[v].cols
      BY <1>3, <2>2, <3>1 DEF Sound, Noted, Cols
    <3>3. v \notin Analyses /\ <<"key", k>> \in p.owned[v]
      <4>1. v \notin Analyses
        BY <3>2 DEF Shaped
      <4>2. k \in IF v \in Imports THEN p.results[v].cols ELSE Def[v][p.params[v]].writes
        BY <3>2, <4>1 DEF Shaped
      <4> QED
        BY <3>2, <4>1, <4>2 DEF Recorded, OwnedOf
    <3>4. <<"key", k>> \in p.owned[a]
      <4>1. Recorded(p, a)
        BY <1>3, <1>10 DEF Sound, Noted
      <4> QED
        BY <1>4, <1>10, <4>1 DEF Recorded, OwnedOf
    <3>5. v # a /\ p.owned[v] \intersect p.owned[a] = {}
      BY <1>4, <1>9, <1>10, <3>1, <3>3
    <3> QED
      BY <3>3, <3>4, <3>5
  <2> QED
    BY <2>1, <2>2 DEF IsColumn
<1>12. p.results[R].term.of[k] = Whole(b.results[a].term)
  <2>1. PICK w \in Before(p, R) \intersect Ans(p, k) :
          p.results[R].term.of[k] = Whole(p.results[w].term)
    BY <1>8, <1>11 DEF Value
  <2>2. w \in Elements(steps) /\ w # R
    BY <1>4, <1>6, <2>1, ComesIn DEF Before
  <2>3. w \in StepsOf(b) /\ w \in Analyses
    BY <1>6, <2>1, <2>2, Grounds DEF Ans, AnalysisKeys
  <2>4. w = a
    BY <1>9, <2>3
  <2> QED
    BY <1>4, <1>9, <2>1, <2>4
<1>13. k \in DOMAIN b.analyses /\ b.analyses[k] = b.results[a].term
  <2> DEFINE S == Held(b) \intersect Ans(b, k)
  <2>1. AnalysesAre(b, Held(b), b.analyses)
    BY <1>2 DEF Sound, Sourced
  <2>2. a \in S
    BY <1>9, <1>10 DEF Ans, AnalysisKeys, Held
  <2>3. k \in DOMAIN b.analyses /\ From(b, S, b.analyses[k])
    BY <2>1, <2>2 DEF AnalysesAre
  <2>4. PICK v \in S : b.analyses[k] = b.results[v].term
    BY <2>2, <2>3 DEF From
  <2>5. v = a
    BY <1>9, <2>4 DEF Held, Ans, AnalysisKeys
  <2> QED
    BY <2>3, <2>4, <2>5
<1> QED
  BY <1>7, <1>12, <1>13 DEF b, R

\* The calls of an export are those that begin with it.
LEMMA MainShows ==
  ASSUME AInv, KInv, MainGood, MainActs, ~torn, XInv, ~Idle("main")',
         call'["main"].next = "discard"
  PROVE  Showing(call["main"])'
<1>1. TInv /\ "main" \in Threads /\ DOMAIN call = Threads
  BY TwoThreads DEF TInv
<1>2. ASSUME NEW d, NEW keys, NEW restores, NEW next, Begin("main", d, keys, restores, next)
      PROVE  next = "discard"
  <2>1. call'["main"] = [pc |-> "begin", dirty |-> d, keys |-> keys, restores |-> restores,
                         next |-> next, before |-> Now]
    BY <1>1, <1>2, BeginTypes
  <2> QED
    BY <2>1
<1>3. ASSUME NEW c, call' = [call EXCEPT !["main"] = c] PROVE c.pc \notin {"idle", "failed"}
  BY <1>1, <1>3 DEF Idle
<1>4. ~Fail("main")
  <2>1. [pc |-> "failed"].pc = "failed"
    OBVIOUS
  <2> QED
    BY <1>3, <2>1 DEF Fail
<1>5. ASSUME NEW s \in Ids, SelectAnalysis(s) PROVE FALSE
  BY <1>2, <1>5, OpsAssumption DEF SelectAnalysis
<1>6. ASSUME NEW s \in Ids, NEW p \in ParamsOf(s), InsertDataStep(s, p) PROVE FALSE
  BY <1>2, <1>6 DEF InsertDataStep
<1>7. ASSUME NEW s \in Ids, NEW p \in ParamsOf(s), EditDataStep(s, p) PROVE FALSE
  BY <1>2, <1>7 DEF EditDataStep
<1>8. ASSUME NEW s \in Ids, NEW p \in ParamsOf(s), ConfirmPreparation(s, p) PROVE FALSE
  BY <1>8 DEF ConfirmPreparation, Idle
<1>9. CASE ExportReport
  <2>1. ASSUME NEW p, EditParams("main", ReportStep, p) PROVE FALSE
    BY <1>2, <2>1 DEF EditParams
  <2>2. ASSUME Recompute("main", NoOne) PROVE FALSE
    BY <1>2, <2>2 DEF Recompute
  <2> QED
    BY <1>9, <2>1, <2>2 DEF ExportReport
<1>10. CASE ExportResearchReport
  <2>1. Sound(Now)
    BY <1>10 DEF ExportResearchReport, MainGood
  <2> QED
    BY <1>10, <2>1, ExportShowing
<1>11. ~CommitResearchReport
  BY <1>4 DEF CommitResearchReport
<1>12. ~CommitDataStep /\ ~CommitSelection /\ ~Commit("main")
  <2>1. [pc |-> "idle"].pc = "idle"
    OBVIOUS
  <2>2. ~(call' = [call EXCEPT !["main"] = [pc |-> "idle"]])
    BY <1>3, <2>1
  <2> QED
    BY <1>4, <2>2 DEF CommitDataStep, CommitSelection, Commit
<1>13. CASE WalkBegin("main") \/ WalkCached("main") \/ WalkCompute("main")
  <2>1. GoesOn("main") /\ ~Idle("main")
    BY <1>1, <1>4, <1>13, BegunWalk, CachedWalk, ComputedFacts
    DEF WalkBegin, WalkCached, WalkCompute, Idle
  <2>2. Showing(call["main"])
    BY <2>1 DEF XInv, GoesOn
  <2> QED
    BY <1>4, <1>13, <2>1, <2>2, ShowingGoesOn
<1> QED
  BY <1>5, <1>6, <1>7, <1>8, <1>9, <1>10, <1>11, <1>12, <1>13 DEF MainActs, Walk

LEMMA NextShows ==
  AInv /\ GInv /\ KInv /\ XInv /\ [OpsNext]_opsVars => XInv'
<1> SUFFICES ASSUME AInv, GInv, KInv, XInv, [OpsNext]_opsVars, ~torn', ~Idle("main")',
                    call'["main"].next = "discard"
             PROVE  Showing(call["main"])'
  BY DEF XInv
<1>1. CASE MainActs /\ torn' = (torn \/ ~Idle("worker"))
  BY <1>1, MainShows DEF GInv
<1>2. CASE WorkerActs /\ torn' = IF Undisturbed THEN FALSE ELSE torn \/ ~Idle("main")
  <2>1. call'["main"] = call["main"]
    BY <1>2, TwoThreads, WorkerOnly DEF WorkerActs
  <2>2. ~Idle("main")
    BY <2>1 DEF Idle
  <2>3. Undisturbed
    BY <1>2, <2>2
  <2> QED
    BY <2>2, <2>3 DEF GInv, Undisturbed
<1>3. CASE UNCHANGED <<pipeline, call, torn>>
  <2>1. ~torn /\ call' = call /\ ~Idle("main") /\ Showing(call["main"])
    BY <1>3 DEF Idle, XInv
  <2>2. /\ steps' = steps /\ params' = params /\ results' = results /\ owned' = owned
        /\ StepSet' = StepSet /\ call'["main"] = call["main"]
    BY <1>3 DEF pipeline, StepSet
  <2> DEFINE c == call["main"]
  <2>3. c' = c /\ Showing(c)
    BY <2>1
  <2> HIDE DEF c
  <2>4. Showing(c)'
    BY <2>2, <2>3 DEF Showing
  <2> QED
    BY <2>4 DEF c
<1> QED
  BY <1>1, <1>2, <1>3 DEF OpsNext, FileChanges, opsVars, vars

\* When no step needs an analysis by the id of the analysis step, the report that a Research OS
\* export renders shows the published results (ExportShowsPublishedResults): while no two calls
\* overlap, what it was computed from is what the pipeline has when the call is over, even if
\* the data file has changed since.
THEOREM ExportsShowPublishedResults ==
  ASSUME NoAliasIsNeeded
  PROVE  OpsSpec => ExportShowsPublishedResults
<1>1. OpsInit => XInv
  <2> SUFFICES ASSUME OpsInit PROVE Idle("main")
    BY DEF XInv
  <2>1. AInv /\ AllIdle
    BY OpsInitInv
  <2> QED
    BY <2>1, TwoThreads DEF AllIdle
<1>2. AInv /\ GInv /\ XInv /\ [OpsNext]_opsVars =>
        [/\ ~torn /\ Ready("main") /\ call["main"].next = "discard" /\ ~Idle("main")
         /\ Idle("main")'
         => \A k \in DOMAIN call["main"].an[ReportStep].of :
              /\ k \in DOMAIN analyses'
              /\ call["main"].an[ReportStep].of[k] = Whole(analyses'[k])]_opsVars
  <2> SUFFICES ASSUME AInv, GInv, XInv, OpsNext, ~torn, Ready("main"),
                      call["main"].next = "discard", ~Idle("main"), Idle("main")',
                      NEW k \in DOMAIN call["main"].an[ReportStep].of
               PROVE  /\ k \in DOMAIN analyses'
                      /\ call["main"].an[ReportStep].of[k] = Whole(analyses'[k])
    OBVIOUS
  <2>1. MainGood /\ Showing(call["main"])
    BY DEF GInv, XInv
  <2>2. MainActs
    <3>1. CASE WorkerActs
      <4>1. call'["main"] = call["main"]
        BY <3>1, TwoThreads, WorkerOnly DEF WorkerActs
      <4> QED
        BY <4>1 DEF Idle
    <3>2. CASE FileChanges
      BY <3>2 DEF FileChanges, Idle
    <3> QED
      BY <3>1, <3>2 DEF OpsNext
  <2>3. Fail("main")
    <3>1. /\ call["main"].pc = "walk" /\ call["main"].todo = <<>>
          /\ call["main"].next \notin Analyses
      BY OpsAssumption, StepsAssumption DEF Ready
    <3>2. ~Walk("main")
      BY <3>1 DEF Walk, WalkBegin, WalkCached, WalkCompute, Commit
    <3>3. ~CommitDataStep /\ ~CommitSelection
      BY <3>1 DEF CommitDataStep, CommitSelection
    <3>4. ~ExportReport /\ ~ExportResearchReport
      BY DEF ExportReport, EditParams, Recompute, ExportResearchReport
    <3>5. \A s \in Ids :
            /\ ~SelectAnalysis(s)
            /\ \A p \in ParamsOf(s) :
                 ~InsertDataStep(s, p) /\ ~EditDataStep(s, p) /\ ~ConfirmPreparation(s, p)
      BY DEF SelectAnalysis, InsertDataStep, EditDataStep, ConfirmPreparation
    <3> QED
      BY <2>2, <3>2, <3>3, <3>4, <3>5 DEF MainActs, CommitResearchReport
  <2>4. analyses' = call["main"].before["analyses"]
    <3>1. "analyses" \in call["main"].restores
      BY <2>1 DEF Showing, Snapshot
    <3> QED
      BY <2>3, <3>1 DEF Fail, Restored
  <2>5. analyses' = call["main"].before.analyses
    BY <2>4
  <2> QED
    BY <2>1, <2>5, ReadyShows
<1>3. AInv /\ AInv' /\ GInv /\ [OpsNext]_opsVars => GInv'
  BY NextGood
<1> QED
  BY OpsAlways, InitGood, InitOfReport, NextOfReport, NextShows, <1>1, <1>2, <1>3, PTL
  DEF OpsSpec, ExportShowsPublishedResults
==============================================================================
