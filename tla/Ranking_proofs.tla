--------------------------- MODULE Ranking_proofs ---------------------------
(***************************************************************************)
(* What Ranked returns: every element of the set once, in the order given. *)
(* The ranks of a finite, totally ordered set are the numbers from one to  *)
(* its cardinality, because different elements have different ranks and    *)
(* there are no more ranks than elements.                                  *)
(***************************************************************************)
EXTENDS Ranking, Sequences, FiniteSetTheorems, FunctionTheorems, WellFoundedInduction,
        NaturalsInduction, TLAPS

\* How many elements of S are not after x.
Rank(S, before, x) == Cardinality({y \in S : <<y, x>> \in before})

\* A total order of S.
OrdersTotally(before, S) ==
  /\ \A x \in S : <<x, x>> \in before
  /\ \A x, y \in S : <<x, y>> \in before \/ <<y, x>> \in before
  /\ \A x, y \in S : <<x, y>> \in before /\ <<y, x>> \in before => x = y
  /\ \A x, y, z \in S : <<x, y>> \in before /\ <<y, z>> \in before => <<x, z>> \in before

LEMMA RankIs ==
  ASSUME NEW S, IsFiniteSet(S), NEW before, OrdersTotally(before, S), NEW x \in S
  PROVE  Rank(S, before, x) \in 1 .. Cardinality(S)
<1> DEFINE T == {y \in S : <<y, x>> \in before}
<1>1. IsFiniteSet(T) /\ Cardinality(T) <= Cardinality(S) /\ Cardinality(T) \in Nat
      /\ Cardinality(S) \in Nat
  BY FS_Subset, FS_CardinalityType
<1>2. x \in T
  BY DEF OrdersTotally
<1>3. Cardinality(T) # 0
  BY <1>1, <1>2, FS_EmptySet
<1> QED
  BY <1>1, <1>3 DEF Rank

\* What comes later has more before it.
LEMMA RankGrows ==
  ASSUME NEW S, IsFiniteSet(S), NEW before, OrdersTotally(before, S),
         NEW x \in S, NEW z \in S, <<x, z>> \in before, x # z
  PROVE  Rank(S, before, x) < Rank(S, before, z)
<1> DEFINE T(e) == {y \in S : <<y, e>> \in before}
<1>1. IsFiniteSet(T(z)) /\ IsFiniteSet(T(x)) /\ Cardinality(T(z)) \in Nat /\ Cardinality(T(x)) \in Nat
  BY FS_Subset, FS_CardinalityType
<1>2. T(x) \subseteq T(z) \ {z}
  BY DEF OrdersTotally
<1>3. z \in T(z)
  BY DEF OrdersTotally
<1>4. IsFiniteSet(T(z) \ {z}) /\ Cardinality(T(z) \ {z}) = Cardinality(T(z)) - 1
  BY <1>1, <1>3, FS_RemoveElement
<1>5. Cardinality(T(x)) <= Cardinality(T(z) \ {z})
  BY <1>2, <1>4, FS_Subset
<1> QED
  BY <1>1, <1>4, <1>5 DEF Rank

\* Each number up to the cardinality is somebody's rank.
LEMMA RanksAreTaken ==
  ASSUME NEW S, IsFiniteSet(S), NEW before, OrdersTotally(before, S)
  PROVE  /\ Cardinality(S) \in Nat
         /\ \A i \in 1 .. Cardinality(S) : \E x \in S : Rank(S, before, x) = i
<1> DEFINE n == Cardinality(S)
           rank == [x \in S |-> Rank(S, before, x)]
<1>1. n \in Nat
  BY FS_CardinalityType
<1>2. rank \in [S -> 1 .. n]
  BY RankIs
<1>3. \A x, z \in S : rank[x] = rank[z] => x = z
  <2> SUFFICES ASSUME NEW x \in S, NEW z \in S, x # z
               PROVE  rank[x] # rank[z]
    OBVIOUS
  <2>1. <<x, z>> \in before \/ <<z, x>> \in before
    BY DEF OrdersTotally
  <2>2. rank[x] \in Int /\ rank[z] \in Int
    BY <1>2
  <2>3. rank[x] < rank[z] \/ rank[z] < rank[x]
    BY <2>1, RankGrows
  <2> QED
    BY <2>2, <2>3
<1>4. IsFiniteSet(1 .. n) /\ Cardinality(1 .. n) = n
  BY <1>1, FS_Interval
<1> DEFINE T == {rank[x] : x \in S}
<1>5. rank \in Bijection(S, T)
  BY <1>3 DEF Bijection, Injection, Surjection, IsInjective
<1>6. IsFiniteSet(T) /\ Cardinality(T) = n
  BY <1>5, FS_Bijection DEF ExistsBijection
<1>7. T \subseteq 1 .. n
  BY <1>2
<1>8. T = 1 .. n
  BY <1>4, <1>6, <1>7, FS_Subset
<1> QED
  BY <1>1, <1>8

\* Every element of the list is at the place of its rank.
InTheirPlaces(list, S, before) ==
  /\ list \in [1 .. Cardinality(S) -> S]
  /\ \A i \in 1 .. Cardinality(S) : Rank(S, before, list[i]) = i

\* A list whose elements are at the places of their ranks is the set in order.
LEMMA InPlace ==
  ASSUME NEW S, IsFiniteSet(S), NEW before, OrdersTotally(before, S), NEW list,
         InTheirPlaces(list, S, before)
  PROVE  /\ \A x \in S : \E i \in 1 .. Cardinality(S) : list[i] = x
         /\ \A i, j \in 1 .. Cardinality(S) : i < j =>
              <<list[i], list[j]>> \in before /\ list[i] # list[j]
<1>1. ASSUME NEW x \in S PROVE \E i \in 1 .. Cardinality(S) : list[i] = x
  <2>1. PICK i \in 1 .. Cardinality(S) : i = Rank(S, before, x)
    BY RankIs
  <2>2. Rank(S, before, list[i]) = i /\ list[i] \in S
    BY DEF InTheirPlaces
  <2>3. CASE list[i] # x
    <3>1. <<x, list[i]>> \in before \/ <<list[i], x>> \in before
      BY <2>2 DEF OrdersTotally
    <3> QED
      BY <2>1, <2>2, <2>3, <3>1, RankGrows
  <2> QED
    BY <2>3
<1>2. ASSUME NEW i \in 1 .. Cardinality(S), NEW j \in 1 .. Cardinality(S), i < j
      PROVE  <<list[i], list[j]>> \in before /\ list[i] # list[j]
  <2>1. Rank(S, before, list[i]) = i /\ Rank(S, before, list[j]) = j
        /\ list[i] \in S /\ list[j] \in S
    BY DEF InTheirPlaces
  <2>2. list[i] # list[j]
    BY <1>2, <2>1
  <2>3. ~(<<list[j], list[i]>> \in before)
    BY <1>2, <2>1, <2>2, RankGrows
  <2> QED
    BY <2>1, <2>2, <2>3 DEF OrdersTotally
<1> QED
  BY <1>1, <1>2

LEMMA AscendingIs ==
  ASSUME NEW S, \A x \in S : x \in Int, IsFiniteSet(S)
  PROVE  /\ Cardinality(S) \in Nat
         /\ Ascending(S) \in [1 .. Cardinality(S) -> S]
         /\ \A x \in S : \E i \in 1 .. Cardinality(S) : Ascending(S)[i] = x
         /\ \A i, j \in 1 .. Cardinality(S) : i < j => Ascending(S)[i] < Ascending(S)[j]
<1>1. PICK before : before = {p \in S \X S : p[1] <= p[2]}
  OBVIOUS
<1>2. \A x, y \in S : <<x, y>> \in before <=> x <= y
  BY <1>1
<1>3. OrdersTotally(before, S)
  BY <1>2 DEF OrdersTotally
<1>4. Cardinality(S) \in Nat /\ \A i \in 1 .. Cardinality(S) : \E x \in S : Rank(S, before, x) = i
  BY <1>3, RanksAreTaken
<1>5. PICK list : list = Ascending(S)
  OBVIOUS
<1>6. list = [i \in 1 .. Cardinality(S) |-> CHOOSE x \in S : Cardinality({y \in S : y <= x}) = i]
  BY <1>5 DEF Ascending, Ranked
<1>7. \A x \in S : Cardinality({y \in S : y <= x}) = Rank(S, before, x)
  <2> SUFFICES ASSUME NEW x \in S
               PROVE  Cardinality({y \in S : y <= x}) = Rank(S, before, x)
    OBVIOUS
  <2>1. {y \in S : y <= x} = {y \in S : <<y, x>> \in before}
    BY <1>2
  <2> QED
    BY <2>1 DEF Rank
<1>8. ASSUME NEW i \in 1 .. Cardinality(S) PROVE list[i] \in S /\ Rank(S, before, list[i]) = i
  <2>1. \E x \in S : Cardinality({y \in S : y <= x}) = i
    BY <1>4, <1>7
  <2>2. list[i] = CHOOSE x \in S : Cardinality({y \in S : y <= x}) = i
    BY <1>6
  <2>3. list[i] \in S /\ Cardinality({y \in S : y <= list[i]}) = i
    BY <2>1, <2>2, Zenon
  <2> QED
    BY <1>7, <2>3
<1>9. list \in [1 .. Cardinality(S) -> S]
  BY <1>6, <1>8
<1>10. /\ \A x \in S : \E i \in 1 .. Cardinality(S) : list[i] = x
       /\ \A i, j \in 1 .. Cardinality(S) : i < j => <<list[i], list[j]>> \in before /\ list[i] # list[j]
  <2>1. InTheirPlaces(list, S, before)
    BY <1>8, <1>9 DEF InTheirPlaces
  <2> QED
    BY <1>3, <2>1, InPlace
<1>11. ASSUME NEW i \in 1 .. Cardinality(S), NEW j \in 1 .. Cardinality(S), i < j
       PROVE  list[i] < list[j]
  <2>1. list[i] \in S /\ list[j] \in S /\ list[i] \in Int /\ list[j] \in Int
    BY <1>9
  <2>2. list[i] <= list[j] /\ list[i] # list[j]
    BY <1>2, <1>10, <1>11, <2>1
  <2> QED
    BY <2>1, <2>2
<1> QED
  BY <1>4, <1>5, <1>9, <1>10, <1>11

\* Induction, over a set of numbers.
LEMMA CountingUp ==
  ASSUME NEW S \in SUBSET Nat, 0 \in S, NEW n \in Nat, \A i \in S : i < n => i + 1 \in S
  PROVE  n \in S
<1> SUFFICES ASSUME n \notin S PROVE FALSE
  OBVIOUS
<1> DEFINE T == {i \in 0 .. n : i \notin S}
<1>1. PICK R : R = OpToRel(<, Nat)
  OBVIOUS
<1>2. IsWellFoundedOn(R, Nat)
  BY <1>1, NatLessThanWellFounded
<1>0. T \in SUBSET Nat /\ T # {}
  OBVIOUS
<1>3. PICK m \in T : \A k \in T : <<k, m>> \notin R
  BY <1>0, <1>2, WFMin
<1>4. m # 0 /\ m - 1 \in 0 .. n
  BY <1>3
<1>5. m - 1 \in S
  <2>1. <<m - 1, m>> \in R
    BY <1>1, <1>3, <1>4 DEF OpToRel
  <2> QED
    BY <1>3, <1>4, <2>1
<1> QED
  BY <1>3, <1>4, <1>5

\* What Sublist returns: the elements at these positions, each of them.
LEMMA SublistIs ==
  ASSUME NEW n \in Nat, NEW list, NEW S \in SUBSET (1 .. n), NEW T, \A k \in S : list[k] \in T
  PROVE  /\ Sublist(list, S) \in Seq(T)
         /\ \A i \in DOMAIN Sublist(list, S) : \E k \in S : Sublist(list, S)[i] = list[k]
         /\ \A k \in S : \E i \in DOMAIN Sublist(list, S) : Sublist(list, S)[i] = list[k]
<1>1. IsFiniteSet(S) /\ \A k \in S : k \in Int
  <2>1. IsFiniteSet(1 .. n)
    BY FS_Interval
  <2>2. IsFiniteSet(S)
    BY <2>1, FS_Subset
  <2> QED
    BY <2>2
<1>2. PICK order : order = Ascending(S)
  OBVIOUS
<1>3. /\ Cardinality(S) \in Nat /\ order \in [1 .. Cardinality(S) -> S]
      /\ \A k \in S : \E i \in 1 .. Cardinality(S) : order[i] = k
  BY <1>1, <1>2, AscendingIs
<1>4. PICK c : c = Sublist(list, S)
  OBVIOUS
<1>5. c = [i \in 1 .. Cardinality(S) |-> list[order[i]]]
  BY <1>2, <1>4 DEF Sublist
<1>6. c \in [1 .. Cardinality(S) -> T]
  BY <1>3, <1>5
<1>7. c \in Seq(T)
  BY <1>3, <1>6
<1>8. /\ \A i \in DOMAIN c : \E k \in S : c[i] = list[k]
      /\ \A k \in S : \E i \in DOMAIN c : c[i] = list[k]
  BY <1>3, <1>5
<1> QED
  BY <1>4, <1>7, <1>8

=============================================================================
