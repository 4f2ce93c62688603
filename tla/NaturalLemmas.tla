---------------------------- MODULE NaturalLemmas ----------------------------
(* Induction and recursion over the natural numbers, with sets and functions in the
   place of predicates, for the proofs about the recursive functions of the models; and
   the places of numbers in a set, for those about what is taken from a sequence. *)
EXTENDS Selection, Sequences, FiniteSetTheorems, TLAPS

\* A set of numbers that is not empty has a member below which it has no other.
LEMMA LeastMember ==
  ASSUME NEW T, T \subseteq Nat, T # {}
  PROVE  \E x \in T : \A y \in T : ~(y < x)
<1> DEFINE R == {ss \in Nat \X Nat : ss[1] < ss[2]}
<1>1. IsWellFoundedOn(R, Nat)
  BY NatLessThanWellFounded, Zenon DEF OpToRel
<1>2. \E x \in T : \A y \in T : <<y, x>> \notin R
  <2> HIDE DEF R
  <2> QED BY <1>1, WFMin
<1> QED BY <1>2

\* Numbers between two others have a greatest.
LEMMA GreatestMember ==
  ASSUME NEW low \in Int, NEW high \in Int, NEW T, T \subseteq low..high, T # {}
  PROVE  \E x \in T : \A y \in T : y <= x
<1> DEFINE below == {d \in Nat : high - d \in T}
<1>1. below # {} /\ below \subseteq Nat
  <2>1. PICK x \in T : TRUE
    OBVIOUS
  <2>2. high - x \in Nat /\ high - (high - x) = x
    OBVIOUS
  <2>3. high - x \in below
    BY <2>2
  <2> QED BY <2>3
<1>2. PICK d \in below : \A e \in below : ~(e < d)
  <2> HIDE DEF below
  <2> QED BY <1>1, LeastMember
<1>3. ASSUME NEW y \in T PROVE y <= high - d
  <2>1. high - y \in Nat /\ high - (high - y) = y
    OBVIOUS
  <2>2. high - y \in below
    BY <2>1
  <2> QED BY <1>2, <2>2
<1> QED BY <1>2, <1>3

\* A set that has zero, and every successor of a member, has all numbers.
LEMMA SetInduction ==
  ASSUME NEW S, 0 \in S, \A n \in Nat : n \in S => n + 1 \in S
  PROVE  Nat \subseteq S
<1>1. SUFFICES ASSUME Nat \ S # {} PROVE FALSE
  OBVIOUS
<1>2. PICK x \in Nat \ S : \A y \in Nat \ S : ~(y < x)
  BY <1>1, LeastMember
<1>3. x - 1 \in Nat \ S
  BY <1>2
<1> QED BY <1>2, <1>3

\* The function that repeats a step, from a first value on.
Iterates(f, base, step) == f[0] = base /\ \A n \in Nat : f[n + 1] = step[f[n]]

\* A function on numbers may be given by its first value and a step from each value to
\* the next.
LEMMA PrimitiveRecursion ==
  ASSUME NEW T, NEW base \in T, NEW step \in [T -> T]
  PROVE  \E f \in [Nat -> T] : Iterates(f, base, step)
<1> DEFINE Starts(g) == g[0] = base
           Steps(g, m) == \A n \in Nat : n < m => g[n + 1] = step[g[n]]
           Upto(m) == {g \in [Nat -> T] : Starts(g) /\ Steps(g, m)}
           S == {m \in Nat : Upto(m) # {}}
<1>1. 0 \in S
  <2>1. [n \in Nat |-> base] \in Upto(0)
    OBVIOUS
  <2> QED BY <2>1
<1>2. \A m \in Nat : m \in S => m + 1 \in S
  <2> SUFFICES ASSUME NEW m \in Nat, NEW g \in Upto(m) PROVE Upto(m + 1) # {}
    OBVIOUS
  <2> DEFINE h == [n \in Nat |-> IF n = m + 1 THEN step[g[m]] ELSE g[n]]
  <2>1. h \in [Nat -> T] /\ h[0] = base
    OBVIOUS
  <2>2. ASSUME NEW n \in Nat, n < m + 1 PROVE h[n + 1] = step[h[n]]
    BY <2>2
  <2>3. h \in Upto(m + 1)
    BY <2>1, <2>2
  <2> QED BY <2>3
<1>3. Nat \subseteq S
  <2> HIDE DEF S
  <2> QED BY <1>1, <1>2, SetInduction
<1> DEFINE G == [m \in Nat |-> CHOOSE g : g \in Upto(m)]
<1>4. \A m \in Nat : G[m] \in Upto(m)
  <2> HIDE DEF Upto
  <2> QED BY <1>3
<1> HIDE DEF G
<1> DEFINE A == {n \in Nat : \A k, m \in Nat : n <= k /\ k <= m => G[m][n] = G[k][n]}
<1>5. 0 \in A
  BY <1>4
<1>6. \A n \in Nat : n \in A => n + 1 \in A
  <2> SUFFICES ASSUME NEW n \in Nat, n \in A, NEW k \in Nat, NEW m \in Nat,
                      n + 1 <= k, k <= m
               PROVE  G[m][n + 1] = G[k][n + 1]
    OBVIOUS
  <2>1. G[m][n] = G[k][n]
    OBVIOUS
  <2>2. G[m][n + 1] = step[G[m][n]] /\ G[k][n + 1] = step[G[k][n]]
    BY <1>4
  <2> QED BY <2>1, <2>2
<1>7. Nat \subseteq A
  <2> HIDE DEF A
  <2> QED BY <1>5, <1>6, SetInduction
<1> DEFINE f == [n \in Nat |-> G[n][n]]
<1>8. f \in [Nat -> T] /\ f[0] = base
  BY <1>4
<1>9. ASSUME NEW n \in Nat PROVE f[n + 1] = step[f[n]]
  <2>1. G[n + 1][n] = G[n][n]
    BY <1>7
  <2>2. G[n + 1][n + 1] = step[G[n + 1][n]]
    BY <1>4
  <2> QED BY <2>1, <2>2
<1> QED BY <1>8, <1>9 DEF Iterates

-----------------------------------------------------------------------------
\* How many numbers of a set are at most this one: its place among them.
Rank(indices, i) == Cardinality({j \in indices : j <= i})

\* In a finite set each number has a place of its own, and each place a number.
LEMMA RankIsPlace ==
  ASSUME NEW indices, indices \subseteq Nat, IsFiniteSet(indices)
  PROVE  /\ Cardinality(indices) \in Nat
         /\ \A i \in indices : Rank(indices, i) \in 1..Cardinality(indices)
         /\ \A i, k \in indices : Rank(indices, i) = Rank(indices, k) => i = k
         /\ \A n \in 1..Cardinality(indices) : \E i \in indices : Rank(indices, i) = n
<1> DEFINE Upto(k) == {j \in indices : j <= k}
<1>1. \A k \in indices :
        /\ IsFiniteSet(Upto(k)) /\ Cardinality(Upto(k)) <= Cardinality(indices)
        /\ Cardinality(Upto(k)) \in Nat /\ Cardinality(Upto(k)) # 0
  <2> SUFFICES ASSUME NEW k \in indices
               PROVE  /\ IsFiniteSet(Upto(k)) /\ Cardinality(Upto(k)) <= Cardinality(indices)
                      /\ Cardinality(Upto(k)) \in Nat /\ Cardinality(Upto(k)) # 0
    OBVIOUS
  <2>1. Upto(k) \in SUBSET indices /\ k \in Upto(k)
    OBVIOUS
  <2> QED BY <2>1, FS_Subset, FS_CardinalityType, FS_EmptySet
<1>2. ASSUME NEW k \in indices, NEW m \in indices, k < m
      PROVE  Cardinality(Upto(k)) # Cardinality(Upto(m))
  <2>1. k \in Nat /\ m \in Nat /\ \A j \in indices : j \in Nat
    OBVIOUS
  <2>2. \A j \in indices : j <= k => j <= m
    BY <1>2, <2>1
  <2>3. m <= m /\ ~(m <= k)
    BY <1>2, <2>1
  <2>4. Upto(k) \in SUBSET Upto(m) /\ m \in Upto(m) /\ m \notin Upto(k)
    BY <2>2, <2>3
  <2>5. Upto(k) # Upto(m)
    BY <2>4
  <2> HIDE DEF Upto
  <2> QED BY <1>1, <2>4, <2>5, FS_Subset
<1>3. Cardinality(indices) \in Nat
  BY FS_CardinalityType
<1>4. \A k, m \in indices : k < m \/ m < k \/ k = m
  OBVIOUS
<1>5. /\ \A i \in indices : Rank(indices, i) \in 1..Cardinality(indices)
      /\ \A i, k \in indices : Rank(indices, i) = Rank(indices, k) => i = k
  BY <1>1, <1>2, <1>3, <1>4 DEF Rank
<1> DEFINE places == 1..Cardinality(indices)
           place == [i \in indices |-> Rank(indices, i)]
<1>6. place \in Injection(indices, places)
  BY <1>5 DEF Injection, IsInjective
<1>7. IsFiniteSet(places) /\ Cardinality(places) = Cardinality(indices)
  BY <1>3, FS_Interval
<1>8. place \in Surjection(indices, places)
  <2> HIDE DEF place, places
  <2> QED BY <1>6, <1>7, FS_Injection
<1>9. \A n \in places : \E i \in indices : Rank(indices, i) = n
  BY <1>8 DEF Surjection
<1> QED BY <1>3, <1>5, <1>9

\* N indices are taken one after the other.
TakenBy(items, indices, N, at) ==
  /\ N \in Nat \ {0} /\ at \in [1..N -> indices]
  /\ AtIndices(items, indices) = [n \in 1..N |-> items[at[n]]]
  /\ \A i \in indices : at[1] <= i /\ i <= at[N]
  /\ \A n \in 1..(N - 1) : /\ at[n] < at[n + 1]
                           /\ \A i \in indices : i <= at[n] \/ at[n + 1] <= i
  /\ \A n \in 1..N : n # 1 => at[1] < at[n]

\* And all of them, in their order.
ListsAll(indices, N, at) ==
  /\ \A n, m \in 1..N : n < m => at[n] < at[m]
  /\ \A i \in indices : \E n \in 1..N : at[n] = i

\* What is taken from a sequence at some of its indices is in their order, without gaps.
LEMMA TakenInOrder ==
  ASSUME NEW items, NEW indices, indices \subseteq Nat, IsFiniteSet(indices), indices # {}
  PROVE  \E N, at : TakenBy(items, indices, N, at) /\ ListsAll(indices, N, at)
<1> DEFINE N == Cardinality(indices)
           at == [n \in 1..N |-> CHOOSE i \in indices : Rank(indices, i) = n]
<1>1. /\ N \in Nat
      /\ \A i \in indices : Rank(indices, i) \in 1..N
      /\ \A i, k \in indices : Rank(indices, i) = Rank(indices, k) => i = k
      /\ \A n \in 1..N : \E i \in indices : Rank(indices, i) = n
  BY RankIsPlace
<1>2. AtIndices(items, indices) = [n \in 1..N |-> items[at[n]]]
  BY DEF AtIndices, Rank
<1> HIDE DEF N
<1>3. \A n \in 1..N : at[n] \in indices /\ Rank(indices, at[n]) = n
  BY <1>1
<1>4. at \in [1..N -> indices]
  BY <1>3
<1> HIDE DEF at
<1>5. ASSUME NEW i \in indices, NEW k \in indices, i <= k
      PROVE  Rank(indices, i) <= Rank(indices, k)
  <2>1. \A j \in indices : j <= i => j <= k
    BY <1>5
  <2>2. {j \in indices : j <= i} \in SUBSET {j \in indices : j <= k}
    BY <2>1
  <2>3. IsFiniteSet({j \in indices : j <= k})
    BY FS_Subset
  <2> QED BY <2>2, <2>3, FS_Subset DEF Rank
<1>6. \A i, k \in indices : i <= k \/ k <= i
  OBVIOUS
<1>7. ASSUME NEW n \in 1..N, NEW i \in indices
      PROVE  /\ Rank(indices, i) <= n => i <= at[n]
             /\ n <= Rank(indices, i) => at[n] <= i
  <2>1. PICK a \in indices : a = at[n] /\ Rank(indices, a) = n
    BY <1>3
  <2>2. i \in Nat /\ a \in Nat /\ Rank(indices, i) \in Nat /\ n \in Nat
    BY <1>1
  <2>3. i <= a => Rank(indices, i) <= n
    BY <1>5, <2>1
  <2>4. a <= i => n <= Rank(indices, i)
    BY <1>5, <2>1
  <2>5. Rank(indices, i) = n => i = a
    BY <1>1, <2>1
  <2> QED BY <2>1, <2>2, <2>3, <2>4, <2>5
<1>8. N \in Nat \ {0}
  <2>1. PICK i \in indices : Rank(indices, i) \in 1..N
    BY <1>1
  <2> QED BY <1>1, <2>1
<1>9. \A i \in indices : at[1] <= i /\ i <= at[N]
  BY <1>1, <1>7, <1>8
<1>10. ASSUME NEW n \in 1..N, NEW m \in 1..N, n < m PROVE at[n] < at[m]
  <2>1. PICK a \in indices : a = at[n] /\ Rank(indices, a) = n
    BY <1>3
  <2>2. PICK b \in indices : b = at[m] /\ Rank(indices, b) = m
    BY <1>3
  <2>3. a \in Nat /\ b \in Nat /\ n \in Nat /\ m \in Nat
    BY <1>1
  <2>4. b <= a => m <= n
    BY <1>5, <2>1, <2>2
  <2> QED BY <1>10, <2>1, <2>2, <2>3, <2>4
<1>11. ASSUME NEW n \in 1..(N - 1)
       PROVE  at[n] < at[n + 1] /\ \A i \in indices : i <= at[n] \/ at[n + 1] <= i
  <2>1. n \in 1..N /\ n + 1 \in 1..N /\ n < n + 1
    BY <1>8
  <2>2. \A i \in indices : Rank(indices, i) <= n \/ n + 1 <= Rank(indices, i)
    BY <1>1, <2>1
  <2> QED BY <1>7, <1>10, <2>1, <2>2
<1>12. \A n \in 1..N : n # 1 => at[1] < at[n]
  BY <1>8, <1>10
<1>13. TakenBy(items, indices, N, at)
  BY <1>2, <1>4, <1>8, <1>9, <1>11, <1>12 DEF TakenBy
<1>14. \A i \in indices : \E n \in 1..N : at[n] = i
  <2> SUFFICES ASSUME NEW i \in indices PROVE \E n \in 1..N : at[n] = i
    OBVIOUS
  <2>1. PICK n \in 1..N : n = Rank(indices, i)
    BY <1>1
  <2>2. at[n] = i
    BY <1>1, <1>3, <2>1
  <2> QED BY <2>2
<1>15. ListsAll(indices, N, at)
  BY <1>10, <1>14 DEF ListsAll
<1> QED BY <1>13, <1>15

\* A function on 1..N is a sequence of N members.
LEMMA LengthOfFunction ==
  ASSUME NEW N \in Nat, NEW S, NEW t \in [1..N -> S]
  PROVE  Len(t) = N
OBVIOUS
=============================================================================
