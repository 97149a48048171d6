---------------------------- MODULE RankingProofs ----------------------------
(***************************************************************************)
(* Facts about the operators that retrieval and evidence are built from    *)
(* (Ranking): sorting by a tuple of integers, folds over a sequence, sums, *)
(* the flattening of sequences, the shares of a rank.  Each is about data  *)
(* of any size.  Induction takes the form of sets closed under a step,     *)
(* from the well-founded order of the subsets of a finite set.             *)
(***************************************************************************)
EXTENDS Ranking, FiniteSetTheorems, SequenceTheorems, TLAPS

-----------------------------------------------------------------------------
(* Induction.                                                              *)

(* A set of numbers with 0 that has the successor of each of its members   *)
(* below n has every number up to n.                                       *)
LEMMA UpTo ==
    ASSUME NEW n \in Nat, NEW M, 0 \in M,
           \A k \in 0 .. (n - 1) : k \in M => k + 1 \in M
    PROVE  \A k \in 0 .. n : k \in M
<1> SUFFICES ASSUME NEW b \in 0 .. n, b \notin M PROVE FALSE
  OBVIOUS
<1> DEFINE T == {1 .. k : k \in {j \in 0 .. n : j \notin M}}
<1> DEFINE R == StrictSubsetOrdering(1 .. n)
<1>1. IsFiniteSet(1 .. n)
  BY FS_Interval
<1>2. IsWellFoundedOn(R, SUBSET (1 .. n))
  BY <1>1, FS_FiniteSubsetsOfFinite, FS_StrictSubsetOrderingWellFounded
<1>3. T \subseteq SUBSET (1 .. n) /\ T # {}
  OBVIOUS
<1> HIDE DEF R
<1>4. PICK x \in T : \A y \in T : ~ (<<y, x>> \in R)
  BY <1>2, <1>3, WFMin
<1>5. PICK k \in 0 .. n : k \notin M /\ x = 1 .. k
  BY <1>4
<1>6. k # 0 /\ k - 1 \in 0 .. (n - 1) /\ (k - 1) + 1 = k
  BY <1>5
<1>7. CASE k - 1 \in M
  BY <1>5, <1>6, <1>7
<1>8. CASE k - 1 \notin M
  <2> DEFINE y == 1 .. (k - 1)
  <2>1. y \in T
    BY <1>6, <1>8
  <2>2. y \subseteq x /\ y # x /\ y \in SUBSET (1 .. n) /\ x \in SUBSET (1 .. n)
    <3>1. k \in x /\ k \notin y
      BY <1>5, <1>6
    <3> QED
      BY <3>1, <1>5, <1>6
  <2>3. <<y, x>> \in R
    BY <2>2 DEF R, StrictSubsetOrdering
  <2> QED
    BY <2>1, <2>3, <1>4
<1> QED
  BY <1>7, <1>8

(* A family of subsets with the empty set that is closed under adding an   *)
(* element has the whole of a finite set.                                  *)
LEMMA FiniteInduction ==
    ASSUME NEW S, IsFiniteSet(S), NEW C, {} \in C,
           \A A \in SUBSET S : A \in C => \A x \in S \ A : A \cup {x} \in C
    PROVE  S \in C
<1> SUFFICES ASSUME S \notin C PROVE FALSE
  OBVIOUS
<1> DEFINE T == {A \in SUBSET S : A \notin C}
<1> DEFINE R == StrictSubsetOrdering(S)
<1>1. IsWellFoundedOn(R, SUBSET S)
  BY FS_FiniteSubsetsOfFinite, FS_StrictSubsetOrderingWellFounded
<1>2. T \subseteq SUBSET S /\ T # {}
  OBVIOUS
<1> HIDE DEF R
<1>3. PICK A \in T : \A y \in T : ~ (<<y, A>> \in R)
  BY <1>1, <1>2, WFMin
<1>4. PICK x \in A : TRUE
  BY <1>3
<1>5. A \ {x} \in SUBSET S /\ x \in S \ (A \ {x}) /\ (A \ {x}) \cup {x} = A
  BY <1>3, <1>4
<1>6. <<A \ {x}, A>> \in R
  BY <1>4, <1>5 DEF R, StrictSubsetOrdering
<1>7. A \ {x} \in C
  BY <1>3, <1>5, <1>6
<1> QED
  BY <1>3, <1>5, <1>7

-----------------------------------------------------------------------------
(* Least and greatest members.                                             *)

(* A finite nonempty set of integers has a greatest and a least member.    *)
LEMMA HasMaxMin ==
    ASSUME NEW S \in SUBSET Int, IsFiniteSet(S), S # {}
    PROVE  /\ \E x \in S : \A y \in S : x >= y
           /\ \E x \in S : \A y \in S : x =< y
<1> DEFINE C == {A \in SUBSET S : A # {} => /\ \E x \in A : \A y \in A : x >= y
                                            /\ \E x \in A : \A y \in A : x =< y}
<1>1. {} \in C
  OBVIOUS
<1>2. ASSUME NEW A \in SUBSET S, A \in C, NEW z \in S \ A
      PROVE  A \cup {z} \in C
  <2>1. CASE A = {}
    <3>1. z >= z /\ z =< z
      OBVIOUS
    <3> QED
      BY <2>1, <3>1
  <2>2. CASE A # {}
    <3>1. PICK x \in A : \A y \in A : x >= y
      BY <1>2, <2>2
    <3>2. PICK w \in A : \A y \in A : w =< y
      BY <1>2, <2>2
    <3>3. \E u \in A \cup {z} : \A y \in A \cup {z} : u >= y
      <4>1. CASE x >= z
        BY <3>1, <4>1
      <4>2. CASE ~(x >= z)
        <5>1. \A y \in A \cup {z} : z >= y
          BY <3>1, <4>2
        <5> QED
          BY <5>1
      <4> QED
        BY <4>1, <4>2
    <3>4. \E u \in A \cup {z} : \A y \in A \cup {z} : u =< y
      <4>1. CASE w =< z
        BY <3>2, <4>1
      <4>2. CASE ~(w =< z)
        <5>1. \A y \in A \cup {z} : z =< y
          BY <3>2, <4>2
        <5> QED
          BY <5>1
      <4> QED
        BY <4>1, <4>2
    <3> QED
      BY <3>3, <3>4
  <2> QED
    BY <2>1, <2>2
<1> HIDE DEF C
<1>3. S \in C
  BY <1>1, <1>2, FiniteInduction
<1> QED
  BY <1>3 DEF C

(* Max and Min are members, and bounds.                                    *)
LEMMA MaxMinAre ==
    ASSUME NEW S \in SUBSET Int, IsFiniteSet(S), S # {}
    PROVE  /\ Max(S) \in S /\ \A y \in S : Max(S) >= y
           /\ Min(S) \in S /\ \A y \in S : Min(S) =< y
BY HasMaxMin DEF Max, Min

(* The positions of a sequence that pass some test have a least and a      *)
(* greatest one.                                                           *)
LEMMA MaxMinIn ==
    ASSUME NEW a \in Int, NEW b \in Int, NEW S \in SUBSET (a .. b), S # {}
    PROVE  /\ Max(S) \in S /\ \A y \in S : Max(S) >= y
           /\ Min(S) \in S /\ \A y \in S : Min(S) =< y
<1>1. IsFiniteSet(S)
  BY FS_Interval, FS_Subset
<1> QED
  BY <1>1, MaxMinAre

-----------------------------------------------------------------------------
(* The order of tuples of w integers.                                      *)

Tuples(w) == [1 .. w -> Int]

(* No tuple is before itself.                                              *)
LEMMA BeforeIrreflexive ==
    ASSUME NEW n \in Nat, NEW k \in Tuples(n)
    PROVE  ~ Before(k, k)
BY DEF Before, Tuples

(* Of two different tuples of one length one is before the other.          *)
LEMMA BeforeTotal ==
    ASSUME NEW n \in Nat, NEW k \in Tuples(n), NEW l \in Tuples(n), k # l
    PROVE  Before(k, l) \/ Before(l, k)
<1> DEFINE D == {i \in 1 .. n : k[i] # l[i]}
<1>1. D # {} /\ D \in SUBSET (1 .. n)
  BY DEF Tuples
<1> HIDE DEF D
<1>2. PICK m \in D : \A y \in D : m =< y
  BY <1>1, MaxMinIn, 1 \in Int, n \in Int
<1> USE DEF D
<1>3. m \in 1 .. n /\ k[m] # l[m] /\ \A j \in 1 .. (m - 1) : k[j] = l[j]
  BY <1>2 DEF Tuples
<1>4. k[m] < l[m] \/ l[m] < k[m]
  BY <1>3 DEF Tuples
<1> QED
  BY <1>3, <1>4 DEF Before, Tuples

(* What is before what is before a third is before the third.              *)
LEMMA BeforeTransitive ==
    ASSUME NEW n \in Nat, NEW k \in Tuples(n), NEW l \in Tuples(n),
           NEW m \in Tuples(n), Before(k, l), Before(l, m)
    PROVE  Before(k, m)
<1>1. PICK a \in 1 .. n : k[a] < l[a] /\ \A j \in 1 .. (a - 1) : k[j] = l[j]
  BY DEF Before, Tuples
<1>2. PICK b \in 1 .. n : l[b] < m[b] /\ \A j \in 1 .. (b - 1) : l[j] = m[j]
  BY DEF Before, Tuples
<1>3. CASE a <= b
  <2>1. k[a] < m[a]
    BY <1>1, <1>2, <1>3 DEF Tuples
  <2>2. \A j \in 1 .. (a - 1) : k[j] = m[j]
    BY <1>1, <1>2, <1>3 DEF Tuples
  <2> QED
    BY <2>1, <2>2 DEF Before, Tuples
<1>4. CASE b < a
  <2>1. k[b] < m[b]
    BY <1>1, <1>2, <1>4 DEF Tuples
  <2>2. \A j \in 1 .. (b - 1) : k[j] = m[j]
    BY <1>1, <1>2, <1>4 DEF Tuples
  <2> QED
    BY <2>1, <2>2 DEF Before, Tuples
<1> QED
  BY <1>3, <1>4

(* Two tuples are not before each other.                                   *)
LEMMA BeforeAntisymmetric ==
    ASSUME NEW n \in Nat, NEW k \in Tuples(n), NEW l \in Tuples(n),
           Before(k, l)
    PROVE  ~ Before(l, k) /\ k # l
BY BeforeTransitive, BeforeIrreflexive

-----------------------------------------------------------------------------
(* Sorting.                                                                *)

(* The position i comes before j when keys are sorted.                     *)
Precede(keys, j, i) == Before(keys[j], keys[i]) \/ (j < i /\ keys[j] = keys[i])

(* The positions that come before i, and i itself, are the place of i.     *)
Ahead(keys, i) ==
  {j \in DOMAIN keys : Before(keys[j], keys[i]) \/ (j <= i /\ keys[j] = keys[i])}

(* Precede orders the positions of a sequence of tuples of one length.     *)
LEMMA PrecedeOrders ==
    ASSUME NEW n \in Nat, NEW w \in Nat, NEW keys \in [1 .. n -> Tuples(w)]
    PROVE  /\ \A i \in 1 .. n : ~ Precede(keys, i, i)
           /\ \A i, j \in 1 .. n : i # j => Precede(keys, i, j) \/ Precede(keys, j, i)
           /\ \A i, j \in 1 .. n : ~ (Precede(keys, i, j) /\ Precede(keys, j, i))
           /\ \A i, j, k \in 1 .. n :
                Precede(keys, i, j) /\ Precede(keys, j, k) => Precede(keys, i, k)
<1>1. \A i \in 1 .. n : ~ Precede(keys, i, i)
  BY BeforeIrreflexive DEF Precede
<1>2. ASSUME NEW i \in 1 .. n, NEW j \in 1 .. n, i # j
      PROVE  Precede(keys, i, j) \/ Precede(keys, j, i)
  <2>1. CASE keys[i] = keys[j]
    BY <1>2, <2>1 DEF Precede
  <2>2. CASE keys[i] # keys[j]
    BY <2>2, BeforeTotal DEF Precede
  <2> QED
    BY <2>1, <2>2
<1>3. ASSUME NEW i \in 1 .. n, NEW j \in 1 .. n, NEW k \in 1 .. n,
             Precede(keys, i, j), Precede(keys, j, k)
      PROVE  Precede(keys, i, k)
  <2>1. keys[i] \in Tuples(w) /\ keys[j] \in Tuples(w) /\ keys[k] \in Tuples(w)
    OBVIOUS
  <2>2. CASE Before(keys[i], keys[j]) /\ Before(keys[j], keys[k])
    BY <2>1, <2>2, BeforeTransitive DEF Precede
  <2>3. CASE ~ (Before(keys[i], keys[j]) /\ Before(keys[j], keys[k]))
    BY <1>3, <2>3 DEF Precede
  <2> QED
    BY <2>2, <2>3
<1>4. \A i, j \in 1 .. n : ~ (Precede(keys, i, j) /\ Precede(keys, j, i))
  BY <1>1, <1>3
<1> QED
  BY <1>1, <1>2, <1>3, <1>4

(* The places of the positions are the numbers 1 to n, in the order of the *)
(* keys, each taken once.                                                  *)
LEMMA PlacesAreOrdered ==
    ASSUME NEW n \in Nat, NEW w \in Nat, NEW keys \in [1 .. n -> Tuples(w)]
    PROVE  /\ \A i \in 1 .. n : Cardinality(Ahead(keys, i)) \in 1 .. n
           /\ \A i, j \in 1 .. n :
                Precede(keys, i, j) => Cardinality(Ahead(keys, i)) < Cardinality(Ahead(keys, j))
<1>1. ASSUME NEW i \in 1 .. n
      PROVE  /\ Ahead(keys, i) \in SUBSET (1 .. n) /\ i \in Ahead(keys, i)
             /\ IsFiniteSet(Ahead(keys, i))
             /\ Cardinality(Ahead(keys, i)) \in 1 .. n
  <2>1. Ahead(keys, i) \in SUBSET (1 .. n) /\ i \in Ahead(keys, i)
    BY DEF Ahead
  <2>2. IsFiniteSet(1 .. n) /\ Cardinality(1 .. n) = n
    BY FS_Interval
  <2>3. IsFiniteSet(Ahead(keys, i)) /\ Cardinality(Ahead(keys, i)) <= n
    BY <2>1, <2>2, FS_Subset
  <2>4. Cardinality(Ahead(keys, i)) \in Nat /\ Cardinality(Ahead(keys, i)) # 0
    BY <2>1, <2>3, FS_CardinalityType, FS_EmptySet
  <2> QED
    BY <2>1, <2>3, <2>4
<1>2. ASSUME NEW i \in 1 .. n, NEW j \in 1 .. n, Precede(keys, i, j)
      PROVE  Cardinality(Ahead(keys, i)) < Cardinality(Ahead(keys, j))
  <2>1. \A k \in 1 .. n : k \in Ahead(keys, i) <=> k = i \/ Precede(keys, k, i)
    BY DEF Ahead, Precede
  <2>2. \A k \in 1 .. n : k \in Ahead(keys, j) <=> k = j \/ Precede(keys, k, j)
    BY DEF Ahead, Precede
  <2>3. Ahead(keys, i) \subseteq Ahead(keys, j)
    BY <1>1, <1>2, <2>1, <2>2, PrecedeOrders
  <2>4. j \in Ahead(keys, j) /\ j \notin Ahead(keys, i)
    BY <1>2, <2>1, <2>2, PrecedeOrders
  <2>5. /\ Cardinality(Ahead(keys, i)) <= Cardinality(Ahead(keys, j))
        /\ Cardinality(Ahead(keys, i)) # Cardinality(Ahead(keys, j))
    BY <1>1, <2>3, <2>4, FS_Subset
  <2> QED
    BY <1>1, <2>5
<1> QED
  BY <1>1, <1>2

(* Sorting a sequence of tuples permutes its positions and leaves none     *)
(* behind one with a greater key; equal keys keep their order.             *)
LEMMA SortingSorts ==
    ASSUME NEW n \in Nat, NEW w \in Nat, NEW keys \in [1 .. n -> Tuples(w)]
    PROVE  /\ SortingOf(keys) \in [1 .. n -> 1 .. n]
           /\ \A i \in 1 .. n : \E p \in 1 .. n : SortingOf(keys)[p] = i
           /\ \A p, q \in 1 .. n : SortingOf(keys)[p] = SortingOf(keys)[q] => p = q
           /\ \A p, q \in 1 .. n :
                p < q <=> Precede(keys, SortingOf(keys)[p], SortingOf(keys)[q])
<1> DEFINE place == [i \in 1 .. n |-> Cardinality(Ahead(keys, i))]
<1> DEFINE order == SortingOf(keys)
<1>1. place \in [1 .. n -> 1 .. n]
  BY PlacesAreOrdered
<1>2. \A i, j \in 1 .. n : Precede(keys, i, j) => place[i] < place[j]
  BY PlacesAreOrdered
<1>6. order = [p \in 1 .. n |-> CHOOSE i \in 1 .. n : place[i] = p]
  <2>1. DOMAIN keys = 1 .. n /\ \A i \in 1 .. n : place[i] = Cardinality(Ahead(keys, i))
    OBVIOUS
  <2>2. order = [p \in 1 .. n |-> CHOOSE i \in 1 .. n : Cardinality(Ahead(keys, i)) = p]
    BY <2>1 DEF SortingOf, Ahead
  <2> QED
    BY <2>2
<1> HIDE DEF order, place
<1>0. \A i, j \in 1 .. n : i # j => Precede(keys, i, j) \/ Precede(keys, j, i)
  BY PrecedeOrders
<1>3. \A i, j \in 1 .. n : place[i] = place[j] => i = j
  BY SMTT(30), <1>0, <1>1, <1>2
<1>4. place \in Surjection(1 .. n, 1 .. n)
  <2>1. place \in Injection(1 .. n, 1 .. n)
    BY <1>1, <1>3 DEF Injection, IsInjective
  <2>2. IsFiniteSet(1 .. n)
    BY FS_Interval
  <2> QED
    BY <2>1, <2>2, FS_Injection
<1>5. \A p \in 1 .. n : \E i \in 1 .. n : place[i] = p
  BY <1>4 DEF Surjection
<1>7. \A p \in 1 .. n : order[p] \in 1 .. n /\ place[order[p]] = p
  BY <1>5, <1>6
<1>8. \A i \in 1 .. n : order[place[i]] = i
  BY <1>1, <1>3, <1>7
<1>9. ASSUME NEW p \in 1 .. n, NEW q \in 1 .. n
      PROVE  p < q <=> Precede(keys, order[p], order[q])
  <2>1. CASE p < q
    <3>1. order[p] \in 1 .. n /\ order[q] \in 1 .. n /\ order[p] # order[q]
      BY <1>7, <2>1
    <3>2. ~ Precede(keys, order[q], order[p])
      BY <1>2, <1>7, <2>1, <3>1
    <3> QED
      BY <1>0, <2>1, <3>1, <3>2
  <2>2. CASE ~ (p < q)
    BY <1>2, <1>7, <2>2
  <2> QED
    BY <2>1, <2>2
<1>10. order \in [1 .. n -> 1 .. n]
  BY <1>6, <1>7
<1> QED
  BY <1>1, <1>7, <1>8, <1>9, <1>10 DEF order

-----------------------------------------------------------------------------
(* Folds.                                                                  *)

(* A function on the subsets of S, from its value on the set without one   *)
(* chosen member.                                                          *)
Chooses(c, S) == \A A \in SUBSET S : A # {} => c[A] \in A
Stepping(st, S, T) == st \in [S \X T -> T]
Iterates(h, S, T, c, base, st) ==
  /\ h \in [SUBSET S -> T]
  /\ \A A \in SUBSET S : h[A] = IF A = {} THEN base ELSE st[<<c[A], h[A \ {c[A]}]>>]

(* Such a function exists for a finite set.                                *)
LEMMA Iteration ==
    ASSUME NEW S, IsFiniteSet(S), NEW c, Chooses(c, S),
           NEW T, NEW base \in T, NEW st, Stepping(st, S, T)
    PROVE  \E h : Iterates(h, S, T, c, base, st)
<1> USE DEF Chooses, Stepping
<1> DEFINE D(k) == {A \in SUBSET S : Cardinality(A) <= k}
<1> DEFINE M == {k \in Nat : \E h \in [D(k) -> T] : \A A \in D(k) :
                   h[A] = IF A = {} THEN base ELSE st[<<c[A], h[A \ {c[A]}]>>]}
<1> DEFINE P == SUBSET S
<1>1. ASSUME NEW A \in P
      PROVE  /\ IsFiniteSet(A) /\ Cardinality(A) \in Nat /\ Cardinality(A) <= Cardinality(S)
             /\ Cardinality(A) = 0 <=> A = {}
             /\ A # {} => Cardinality(A \ {c[A]}) = Cardinality(A) - 1
  BY FS_Subset, FS_CardinalityType, FS_EmptySet, FS_RemoveElement
<1>2. 0 \in M
  <2>2. \A A \in D(0) : A = {}
    <3> SUFFICES ASSUME NEW A \in P, Cardinality(A) <= 0 PROVE A = {}
      OBVIOUS
    <3>1. Cardinality(A) \in Nat /\ (Cardinality(A) = 0 <=> A = {})
      BY <1>1
    <3> QED
      BY <3>1
  <2> DEFINE h == [A \in D(0) |-> base]
  <2>3. h \in [D(0) -> T]
    OBVIOUS
  <2>4. \A A \in D(0) : h[A] = base
    OBVIOUS
  <2> HIDE DEF D, h
  <2> QED
    BY <2>2, <2>3, <2>4
<1>3. ASSUME NEW k \in Nat, k \in M PROVE k + 1 \in M
  <2>1. PICK h \in [D(k) -> T] : \A A \in D(k) :
          h[A] = IF A = {} THEN base ELSE st[<<c[A], h[A \ {c[A]}]>>]
    BY <1>3
  <2> DEFINE g == [A \in D(k + 1) |->
                     IF A \in D(k) THEN h[A] ELSE st[<<c[A], h[A \ {c[A]}]>>]]
  <2>2. \A A \in D(k + 1) : A # {} => c[A] \in S /\ A \ {c[A]} \in D(k)
    <3> SUFFICES ASSUME NEW A \in D(k + 1), A # {} PROVE c[A] \in S /\ A \ {c[A]} \in D(k)
      OBVIOUS
    <3>1. A \ {c[A]} \in SUBSET S /\ c[A] \in S
      OBVIOUS
    <3>2. Cardinality(A \ {c[A]}) = Cardinality(A) - 1 /\ Cardinality(A) \in Nat
      BY <1>1
    <3>3. Cardinality(A \ {c[A]}) <= k
      BY <3>2
    <3> QED
      BY <3>1, <3>3
  <2>3. D(k) \subseteq D(k + 1) /\ {} \in D(k)
    <3>1. {} \in SUBSET S /\ Cardinality({}) = 0
      BY FS_EmptySet
    <3>2. ASSUME NEW A \in P, Cardinality(A) <= k PROVE Cardinality(A) <= k + 1
      <4>1. Cardinality(A) \in Nat
        BY <1>1
      <4> QED
        BY <3>2, <4>1
    <3> QED
      BY <3>1, <3>2
  <2> HIDE DEF D
  <2>4. \A A \in D(k + 1) : g[A] = IF A \in D(k) THEN h[A] ELSE st[<<c[A], h[A \ {c[A]}]>>]
    OBVIOUS
  <2>5. \A A \in D(k + 1) : g[A] \in T
    <3> SUFFICES ASSUME NEW A \in D(k + 1) PROVE g[A] \in T
      OBVIOUS
    <3>1. CASE A \in D(k)
      BY <2>4, <3>1
    <3>2. CASE A \notin D(k)
      <4>1. c[A] \in S /\ h[A \ {c[A]}] \in T
        BY <2>2, <2>3, <3>2
      <4> QED
        BY <2>4, <3>2, <4>1
    <3> QED
      BY <3>1, <3>2
  <2>6. g \in [D(k + 1) -> T]
    <3>1. g = [A \in D(k + 1) |-> g[A]]
      OBVIOUS
    <3> HIDE DEF g
    <3> QED
      BY <2>5, <3>1
  <2> HIDE DEF g
  <2>7. \A A \in D(k + 1) : g[A] = IF A = {} THEN base ELSE st[<<c[A], g[A \ {c[A]}]>>]
    <3> SUFFICES ASSUME NEW A \in D(k + 1)
                 PROVE  g[A] = IF A = {} THEN base ELSE st[<<c[A], g[A \ {c[A]}]>>]
      OBVIOUS
    <3>1. CASE A = {}
      BY <2>1, <2>3, <2>4, <3>1
    <3>2. CASE A # {}
      <4>1. g[A \ {c[A]}] = h[A \ {c[A]}]
        BY <2>2, <2>3, <2>4, <3>2
      <4>2. g[A] = st[<<c[A], h[A \ {c[A]}]>>]
        BY <2>1, <2>4, <3>2
      <4> QED
        BY <3>2, <4>1, <4>2
    <3> QED
      BY <3>1, <3>2
  <2>8. \E f \in [D(k + 1) -> T] : \A A \in D(k + 1) :
          f[A] = IF A = {} THEN base ELSE st[<<c[A], f[A \ {c[A]}]>>]
    BY <2>6, <2>7
  <2>9. k + 1 \in Nat
    OBVIOUS
  <2> QED
    BY <2>8, <2>9, Zenon
<1> DEFINE N == Cardinality(S)
<1>4. N \in Nat
  BY FS_CardinalityType
<1> HIDE DEF M, N
<1>5. N \in M
  BY <1>2, <1>3, <1>4, UpTo
<1>6. D(N) = SUBSET S
  BY <1>1 DEF N
<1>7. PICK h \in [D(N) -> T] : \A A \in D(N) :
        h[A] = IF A = {} THEN base ELSE st[<<c[A], h[A \ {c[A]}]>>]
  BY <1>5 DEF M
<1>8. Iterates(h, S, T, c, base, st)
  BY <1>6, <1>7 DEF Iterates
<1> QED
  BY <1>8

(* The choice of the greatest position, and what is left of a prefix.      *)
LEMMA LastOfPrefix ==
    ASSUME NEW k \in Nat, k # 0
    PROVE  Max(1 .. k) = k /\ (1 .. k) \ {k} = 1 .. (k - 1) /\ 1 .. k # {}
<1>1. 1 .. k # {} /\ 1 .. k \in SUBSET (1 .. k)
  OBVIOUS
<1>2. Max(1 .. k) \in 1 .. k /\ \A y \in 1 .. k : Max(1 .. k) >= y
  BY <1>1, MaxMinIn, 1 \in Int, k \in Int
<1> QED
  BY <1>1, <1>2

(* A fold over a sequence of length n is the value for all its positions   *)
(* of a function on the sets of positions.                                 *)
Folds(h, n, T, base, st) ==
  /\ h \in [SUBSET (1 .. n) -> T]
  /\ h = [A \in SUBSET (1 .. n) |->
            IF A = {} THEN base ELSE st[<<Max(A), h[A \ {Max(A)}]>>]]

(* A step function defined on the first n naturals has a run of n steps. *)
LEMMA FoldExists ==
    ASSUME NEW n \in Nat, NEW T, NEW base \in T, NEW st, Stepping(st, 1 .. n, T)
    PROVE  \E h : Folds(h, n, T, base, st)
<1> DEFINE S == 1 .. n
<1> DEFINE c == [A \in SUBSET S |-> Max(A)]
<1>1. IsFiniteSet(S)
  BY FS_Interval
<1>2. \A A \in SUBSET S : A # {} => Max(A) \in A
  BY MaxMinIn, 1 \in Int, n \in Int
<1>3. \A A \in SUBSET S : c[A] = Max(A)
  OBVIOUS
<1> HIDE DEF c, S
<1>4. Chooses(c, S)
  BY <1>2, <1>3 DEF Chooses
<1>5. Stepping(st, S, T)
  BY DEF S
<1>6. PICK h : Iterates(h, S, T, c, base, st)
  BY <1>1, <1>4, <1>5, Iteration
<1>7. h \in [SUBSET S -> T]
  BY <1>6 DEF Iterates
<1>8. \A A \in SUBSET S : h[A] = IF A = {} THEN base ELSE st[<<Max(A), h[A \ {Max(A)}]>>]
  BY <1>3, <1>6 DEF Iterates
<1>9. h = [A \in SUBSET S |-> IF A = {} THEN base ELSE st[<<Max(A), h[A \ {Max(A)}]>>]]
  BY <1>7, <1>8
<1> QED
  BY <1>7, <1>9 DEF S, Folds

(* The values for the prefixes, each from the one before.                  *)
StepsOn(it, n, T, base, st) ==
  /\ it[{}] = base
  /\ \A k \in 1 .. n : it[1 .. (k - 1)] \in T => it[1 .. k] = st[<<k, it[1 .. (k - 1)]>>]
PrefixValues(g, n, T, base, st) ==
  /\ g \in [0 .. n -> T] /\ g[0] = base
  /\ \A k \in 1 .. n : g[k] = st[<<k, g[k - 1]>>]

(* What a fold over 1 .. n computes is the last value of such a run. *)
LEMMA FoldPrefixes ==
    ASSUME NEW n \in Nat, NEW T, NEW base \in T, NEW st, Stepping(st, 1 .. n, T),
           NEW it, StepsOn(it, n, T, base, st)
    PROVE  \E g : PrefixValues(g, n, T, base, st) /\ g[n] = it[1 .. n]
<1> USE DEF StepsOn
<1> DEFINE M == {k \in 0 .. n : it[1 .. k] \in T}
<1>1. 1 .. 0 = {}
  OBVIOUS
<1>2. 0 \in M
  BY <1>1
<1>3. \A k \in 0 .. (n - 1) : k \in M => k + 1 \in M
  <2> SUFFICES ASSUME NEW k \in 0 .. (n - 1), k \in M PROVE k + 1 \in M
    OBVIOUS
  <2>1. k + 1 \in 1 .. n /\ (k + 1) - 1 = k
    OBVIOUS
  <2>2. it[1 .. (k + 1)] = st[<<k + 1, it[1 .. k]>>]
    BY <2>1
  <2> QED
    BY <2>1, <2>2 DEF Stepping
<1> HIDE DEF M
<1>4. \A k \in 0 .. n : k \in M
  BY <1>2, <1>3, UpTo
<1>5. \A k \in 0 .. n : it[1 .. k] \in T
  BY <1>4 DEF M
<1> DEFINE g == [k \in 0 .. n |-> it[1 .. k]]
<1>6. g \in [0 .. n -> T] /\ \A k \in 0 .. n : g[k] = it[1 .. k]
  BY <1>5
<1> HIDE DEF g
<1>7. g[0] = base /\ g[n] = it[1 .. n]
  BY <1>1, <1>6
<1>8. ASSUME NEW k \in 1 .. n PROVE g[k] = st[<<k, g[k - 1]>>]
  <2>1. k \in 0 .. n /\ k - 1 \in 0 .. n
    OBVIOUS
  <2>2. g[k] = it[1 .. k] /\ g[k - 1] = it[1 .. (k - 1)] /\ it[1 .. (k - 1)] \in T
    BY <1>5, <1>6, <2>1
  <2> QED
    BY <2>2
<1>9. PrefixValues(g, n, T, base, st)
  BY <1>6, <1>7, <1>8 DEF PrefixValues
<1> QED
  BY <1>7, <1>9

(* What the fold's function says of a prefix.                              *)
LEMMA PrefixStep ==
    ASSUME NEW n \in Nat, NEW k \in 1 .. n
    PROVE  /\ 1 .. k \in SUBSET (1 .. n) /\ 1 .. k # {}
           /\ Max(1 .. k) = k /\ (1 .. k) \ {Max(1 .. k)} = 1 .. (k - 1)
<1>1. k \in Nat /\ k # 0
  OBVIOUS
<1> QED
  BY <1>1, LastOfPrefix

-----------------------------------------------------------------------------
(* Sums.                                                                   *)

(* Total adds up the sequence from its front.                              *)
Sums(g, n, s) ==
  /\ g \in [0 .. n -> Int] /\ g[0] = 0
  /\ \A k \in 1 .. n : g[k] = g[k - 1] + s[k]

(* Total is the last of the partial sums. *)
LEMMA TotalIs ==
    ASSUME NEW n \in Nat, NEW s \in [1 .. n -> Int]
    PROVE  \E g : Sums(g, n, s) /\ Total(s) = g[n]
<1> DEFINE st == [x \in (1 .. n) \X Int |-> x[2] + s[x[1]]]
<1> DEFINE Is(h) == h = [A \in SUBSET (1 .. n) |->
                           IF A = {} THEN 0 ELSE h[A \ {Max(A)}] + s[Max(A)]]
<1> DEFINE it == CHOOSE h : Is(h)
<1>1. \E h : Is(h)
  <2>1. Stepping(st, 1 .. n, Int)
    BY DEF Stepping
  <2>2. PICK h : Folds(h, n, Int, 0, st)
    <3> HIDE DEF st
    <3> QED
      BY <2>1, FoldExists, 0 \in Int
  <2>3. ASSUME NEW A \in SUBSET (1 .. n), A # {}
        PROVE  st[<<Max(A), h[A \ {Max(A)}]>>] = h[A \ {Max(A)}] + s[Max(A)]
    <3>1. Max(A) \in 1 .. n
      BY <2>3, MaxMinIn, 1 \in Int, n \in Int
    <3>2. h[A \ {Max(A)}] \in Int
      BY <2>2 DEF Folds
    <3> QED
      BY <3>1, <3>2
  <2> HIDE DEF st
  <2>4. h = [A \in SUBSET (1 .. n) |-> IF A = {} THEN 0 ELSE h[A \ {Max(A)}] + s[Max(A)]]
    BY <2>2, <2>3 DEF Folds
  <2> QED
    BY <2>4
<1>2. Is(it)
  BY <1>1
<1>3. Total(s) = it[1 .. n]
  <2>1. DOMAIN s = 1 .. n
    OBVIOUS
  <2> QED
    BY <2>1 DEF Total, FoldLeft, MapThenFoldSet
<1> HIDE DEF it
<1>4. it[{}] = 0
  BY <1>2
<1>5. \A k \in 1 .. n : it[1 .. k] = it[1 .. (k - 1)] + s[k]
  BY ZenonT(60), <1>2, PrefixStep
<1>6. Stepping(st, 1 .. n, Int)
  BY DEF Stepping
<1>7. \A k \in 1 .. n, v \in Int : st[<<k, v>>] = v + s[k]
  OBVIOUS
<1> HIDE DEF st
<1>8. StepsOn(it, n, Int, 0, st)
  BY <1>4, <1>5, <1>7 DEF StepsOn
<1>9. PICK g : PrefixValues(g, n, Int, 0, st) /\ g[n] = it[1 .. n]
  BY <1>6, <1>8, FoldPrefixes, 0 \in Int
<1>10. /\ g \in [0 .. n -> Int] /\ g[0] = 0
       /\ \A k \in 1 .. n : g[k] = st[<<k, g[k - 1]>>]
  BY <1>9 DEF PrefixValues
<1>11. \A k \in 1 .. n : g[k - 1] \in Int
  BY <1>10
<1>12. \A k \in 1 .. n : g[k] = g[k - 1] + s[k]
  BY <1>7, <1>10, <1>11
<1>13. Sums(g, n, s)
  BY <1>10, <1>12 DEF Sums
<1> QED
  BY <1>3, <1>9, <1>13

(* Sums of the same numbers are the same.                                  *)
Agree(s, t, n) == \A i \in 1 .. n : s[i] = t[i]

(* Partial sums of sequences that agree on their first n elements agree. *)
LEMMA SumsSame ==
    ASSUME NEW n \in Nat, NEW s, NEW t, Agree(s, t, n),
           NEW g, Sums(g, n, s), NEW h, Sums(h, n, t)
    PROVE  \A k \in 0 .. n : g[k] = h[k]
<1> USE DEF Sums, Agree
<1> DEFINE M == {k \in 0 .. n : g[k] = h[k]}
<1>1. 0 \in M
  OBVIOUS
<1>2. \A k \in 0 .. (n - 1) : k \in M => k + 1 \in M
  <2> SUFFICES ASSUME NEW k \in 0 .. (n - 1), k \in M PROVE k + 1 \in M
    OBVIOUS
  <2>1. k + 1 \in 1 .. n /\ (k + 1) - 1 = k
    OBVIOUS
  <2>2. g[k + 1] = g[k] + s[k + 1] /\ h[k + 1] = h[k] + t[k + 1]
    BY <2>1
  <2> QED
    BY <2>1, <2>2
<1> HIDE DEF M
<1>3. \A k \in 0 .. n : k \in M
  BY <1>1, <1>2, UpTo
<1> QED
  BY <1>3 DEF M

(* ... so they end in the same number.                                     *)
LEMMA SumsEnd ==
    ASSUME NEW n \in Nat, NEW s, NEW t, Agree(s, t, n),
           NEW g, Sums(g, n, s), NEW h, Sums(h, n, t)
    PROVE  g[n] = h[n]
BY SumsSame, n \in 0 .. n

(* The total of a sequence in two parts is the sum of their totals.        *)
LEMMA TotalParts ==
    ASSUME NEW n \in Nat, NEW m \in Nat, NEW u \in [1 .. n -> Int], NEW v \in [1 .. m -> Int],
           NEW s \in [1 .. n + m -> Int],
           \A i \in 1 .. n : s[i] = u[i], \A i \in 1 .. m : s[n + i] = v[i]
    PROVE  Total(s) = Total(u) + Total(v)
<1>0. n + m \in Nat
  OBVIOUS
<1>1. PICK g : Sums(g, n + m, s) /\ Total(s) = g[n + m]
  BY <1>0, TotalIs
<1>2. PICK f : Sums(f, n, u) /\ Total(u) = f[n]
  BY TotalIs
<1>3. PICK h : Sums(h, m, v) /\ Total(v) = h[m]
  BY TotalIs
<1> DEFINE e == [k \in 0 .. n |-> g[k]]
<1>4. Sums(e, n, s) /\ e[n] = g[n]
  BY <1>1 DEF Sums
<1> HIDE DEF e
<1>5. g[n] = f[n]
  <2>1. Agree(s, u, n)
    BY DEF Agree
  <2>2. e[n] = f[n]
    BY <1>2, <1>4, <2>1, SumsEnd
  <2> QED
    BY <1>4, <2>2
<1> DEFINE M == {k \in 0 .. m : g[n + k] = f[n] + h[k]}
<1>6. 0 \in M
  BY <1>1, <1>2, <1>3, <1>5 DEF Sums
<1>7. \A k \in 0 .. (m - 1) : k \in M => k + 1 \in M
  <2> SUFFICES ASSUME NEW k \in 0 .. (m - 1), k \in M PROVE k + 1 \in M
    OBVIOUS
  <2>1. /\ k + 1 \in 1 .. m /\ (k + 1) - 1 = k
        /\ n + (k + 1) \in 1 .. n + m /\ (n + (k + 1)) - 1 = n + k
    OBVIOUS
  <2>2. g[n + (k + 1)] = g[n + k] + s[n + (k + 1)] /\ h[k + 1] = h[k] + v[k + 1]
    BY <1>1, <1>3, <2>1 DEF Sums
  <2>3. s[n + (k + 1)] = v[k + 1] /\ v[k + 1] \in Int /\ h[k] \in Int /\ f[n] \in Int
    BY <1>2, <1>3, <2>1 DEF Sums
  <2>4. g[n + k] = f[n] + h[k]
    OBVIOUS
  <2>5. g[n + (k + 1)] = f[n] + h[k + 1]
    BY <2>2, <2>3, <2>4
  <2> QED
    BY <2>1, <2>5
<1> HIDE DEF M
<1>8. \A k \in 0 .. m : k \in M
  BY <1>6, <1>7, UpTo
<1>9. m \in M
  BY <1>8
<1> QED
  BY <1>1, <1>2, <1>3, <1>9 DEF M

(* A total of natural numbers is one; the total of no numbers is 0.        *)
LEMMA TotalNat ==
    ASSUME NEW n \in Nat, NEW s \in [1 .. n -> Nat]
    PROVE  Total(s) \in Nat /\ (n = 0 => Total(s) = 0)
<1>1. s \in [1 .. n -> Int]
  OBVIOUS
<1>2. PICK g : Sums(g, n, s) /\ Total(s) = g[n]
  BY <1>1, TotalIs
<1> USE DEF Sums
<1> DEFINE M == {k \in 0 .. n : g[k] \in Nat}
<1>3. 0 \in M
  BY <1>2
<1>4. \A k \in 0 .. (n - 1) : k \in M => k + 1 \in M
  <2> SUFFICES ASSUME NEW k \in 0 .. (n - 1), k \in M PROVE k + 1 \in M
    OBVIOUS
  <2>1. k + 1 \in 1 .. n /\ (k + 1) - 1 = k
    OBVIOUS
  <2>2. g[k + 1] = g[k] + s[k + 1]
    BY <1>2, <2>1
  <2> QED
    BY <2>1, <2>2
<1> HIDE DEF M
<1>5. \A k \in 0 .. n : k \in M
  BY <1>3, <1>4, UpTo
<1>6. n \in M
  BY <1>5
<1> QED
  BY <1>2, <1>6 DEF M, Sums

-----------------------------------------------------------------------------
(* Two sequences, one behind the other.                                    *)

(* What \o makes of two sequences, element by element. *)
LEMMA JoinIs ==
    ASSUME NEW T, NEW s \in Seq(T), NEW t \in Seq(T)
    PROVE  /\ s \o t \in Seq(T) /\ Len(s \o t) = Len(s) + Len(t)
           /\ \A i \in 1 .. Len(s) : (s \o t)[i] = s[i]
           /\ \A i \in 1 .. Len(t) : (s \o t)[Len(s) + i] = t[i]
OBVIOUS

-----------------------------------------------------------------------------
(* Sequences of sequences.                                                 *)

(* The values of a fold over positions exist.                              *)
LEMMA PrefixesExist ==
    ASSUME NEW n \in Nat, NEW T, NEW base \in T, NEW st, Stepping(st, 1 .. n, T)
    PROVE  \E g : PrefixValues(g, n, T, base, st)
<1>1. PICK h : Folds(h, n, T, base, st)
  BY FoldExists
<1>2. h[{}] = base
  BY <1>1 DEF Folds
<1>3. ASSUME NEW k \in 1 .. n PROVE h[1 .. k] = st[<<k, h[1 .. (k - 1)]>>]
  <2>1. /\ 1 .. k \in SUBSET (1 .. n) /\ 1 .. k # {}
        /\ Max(1 .. k) = k /\ (1 .. k) \ {Max(1 .. k)} = 1 .. (k - 1)
    BY PrefixStep
  <2>2. h[1 .. k] = st[<<Max(1 .. k), h[(1 .. k) \ {Max(1 .. k)}]>>]
    BY <1>1, <2>1 DEF Folds
  <2> QED
    BY <2>1, <2>2
<1>4. StepsOn(h, n, T, base, st)
  BY <1>2, <1>3 DEF StepsOn
<1> QED
  BY <1>4, FoldPrefixes

(* What FlattenSeq has joined after k of n sequences.                      *)
Joins(g, n, T, seqs) ==
  /\ g \in [0 .. n -> Seq(T)] /\ g[0] = <<>>
  /\ \A k \in 1 .. n : g[k] = g[k - 1] \o seqs[k]

(* A list of sequences has its sequence of partial concatenations. *)
LEMMA JoinsExist ==
    ASSUME NEW T, NEW n \in Nat, NEW seqs \in [1 .. n -> Seq(T)]
    PROVE  \E g : Joins(g, n, T, seqs)
<1> DEFINE S == Seq(T)
<1> DEFINE st == [x \in (1 .. n) \X S |-> x[2] \o seqs[x[1]]]
<1>0. \A k \in 1 .. n, v \in S : st[<<k, v>>] = v \o seqs[k]
  OBVIOUS
<1>1. ASSUME NEW k \in 1 .. n, NEW v \in S PROVE v \o seqs[k] \in S
  OBVIOUS
<1>4. <<>> \in S
  OBVIOUS
<1>2. st = [x \in (1 .. n) \X S |-> st[x]]
  OBVIOUS
<1> HIDE DEF st, S
<1>6. ASSUME NEW x \in (1 .. n) \X S PROVE st[x] \in S
  <2>1. PICK k \in 1 .. n, v \in S : x = <<k, v>>
    OBVIOUS
  <2>2. st[x] = v \o seqs[k]
    BY <1>0, <2>1
  <2> QED
    BY <1>1, <2>2
<1>3. Stepping(st, 1 .. n, S)
  BY <1>2, <1>6 DEF Stepping
<1>5. PICK g : PrefixValues(g, n, S, <<>>, st)
  BY <1>3, <1>4, PrefixesExist
<1>7. \A k \in 1 .. n : g[k - 1] \in S
  BY <1>5 DEF PrefixValues
<1>8. Joins(g, n, T, seqs)
  BY <1>0, <1>5, <1>7 DEF PrefixValues, Joins, S
<1> QED
  BY <1>8

(* There is one such function.                                             *)
Flattens(h, n, seqs) ==
  /\ 1 \in 1 .. n => h[1] = seqs[1]
  /\ \A k \in 1 .. n : k # 1 => h[k] = h[k - 1] \o seqs[k]

(* The partial concatenations of a list are unique. *)
LEMMA JoinsSame ==
    ASSUME NEW T, NEW n \in Nat, NEW seqs \in [1 .. n -> Seq(T)],
           NEW g, Joins(g, n, T, seqs), NEW h, Flattens(h, n, seqs)
    PROVE  \A k \in 1 .. n : h[k] = g[k]
<1>1. \A k \in 1 .. n : g[k] = g[k - 1] \o seqs[k]
  BY DEF Joins
<1>2. \A k \in 1 .. n : k # 1 => h[k] = h[k - 1] \o seqs[k]
  BY DEF Flattens
<1>3. 1 \in 1 .. n => h[1] = g[1]
  <2> SUFFICES ASSUME 1 \in 1 .. n PROVE h[1] = g[1]
    OBVIOUS
  <2>1. g[1] = g[1 - 1] \o seqs[1] /\ 1 - 1 = 0
    BY <1>1
  <2>2. g[0] = <<>> /\ h[1] = seqs[1] /\ seqs[1] \in Seq(T)
    BY DEF Joins, Flattens
  <2> QED
    BY <2>1, <2>2
<1> DEFINE M == {k \in 0 .. n : k # 0 => h[k] = g[k]}
<1>4. 0 \in M
  OBVIOUS
<1>5. \A k \in 0 .. (n - 1) : k \in M => k + 1 \in M
  <2> SUFFICES ASSUME NEW k \in 0 .. (n - 1), k \in M PROVE k + 1 \in M
    OBVIOUS
  <2> DEFINE j == k + 1
  <2>2. k # 0 => h[k] = g[k]
    OBVIOUS
  <2> HIDE DEF M
  <2>1. j \in 1 .. n /\ j - 1 = k /\ (k # 0 <=> j # 1)
    OBVIOUS
  <2> HIDE DEF j
  <2>3. h[j] = g[j]
    <3>1. CASE k = 0
      BY <1>3, <2>1, <3>1
    <3>2. CASE k # 0
      <4>1. h[j] = h[j - 1] \o seqs[j] /\ g[j] = g[j - 1] \o seqs[j]
        BY <1>1, <1>2, <2>1, <3>2
      <4> QED
        BY <2>1, <2>2, <3>2, <4>1
    <3> QED
      BY <3>1, <3>2
  <2> QED
    BY <2>1, <2>3 DEF M, j
<1> HIDE DEF M
<1>6. \A k \in 0 .. n : k \in M
  BY <1>4, <1>5, UpTo
<1> QED
  BY <1>6 DEF M

(* FlattenSeq is the last of the partial concatenations. *)
LEMMA FlattenIs ==
    ASSUME NEW T, NEW n \in Nat, NEW seqs \in [1 .. n -> Seq(T)]
    PROVE  \E g : Joins(g, n, T, seqs) /\ FlattenSeq(seqs) = g[n]
<1>1. PICK g : Joins(g, n, T, seqs)
  BY JoinsExist
<1>2. Len(seqs) = n
  OBVIOUS
<1>3. CASE n = 0
  <2>1. seqs = <<>>
    BY <1>3
  <2> QED
    BY <1>1, <1>2, <1>3, <2>1 DEF FlattenSeq, Joins
<1>4. CASE n # 0
  <2> DEFINE Is(h) == h = [k \in 1 .. n |-> IF k = 1 THEN seqs[k] ELSE h[k - 1] \o seqs[k]]
  <2> DEFINE f == CHOOSE h : Is(h)
  <2>1. FlattenSeq(seqs) = f[n]
    BY <1>2, <1>4 DEF FlattenSeq
  <2> DEFINE e == [k \in 1 .. n |-> g[k]]
  <2>2. \A k \in 1 .. n : e[k] = IF k = 1 THEN seqs[k] ELSE e[k - 1] \o seqs[k]
    <3> SUFFICES ASSUME NEW k \in 1 .. n
                 PROVE  e[k] = IF k = 1 THEN seqs[k] ELSE e[k - 1] \o seqs[k]
      OBVIOUS
    <3>1. e[k] = g[k - 1] \o seqs[k]
      BY <1>1 DEF Joins
    <3>2. CASE k = 1
      <4>1. g[k - 1] = <<>> /\ seqs[k] \in Seq(T)
        BY <1>1, <3>2 DEF Joins
      <4>2. <<>> \o seqs[k] = seqs[k]
        BY <4>1
      <4> QED
        BY <3>1, <3>2, <4>1, <4>2
    <3>3. CASE k # 1
      <4>1. k - 1 \in 1 .. n
        BY <3>3
      <4> QED
        BY <3>1, <3>3, <4>1
    <3> QED
      BY <3>2, <3>3
  <2>3. e = [k \in 1 .. n |-> e[k]]
    OBVIOUS
  <2> HIDE DEF e
  <2>4. Is(e)
    BY <2>2, <2>3
  <2>5. Is(f)
    BY <2>4
  <2> HIDE DEF f
  <2>8. Flattens(f, n, seqs)
    BY <2>5 DEF Flattens
  <2>6. \A k \in 1 .. n : f[k] = g[k]
    BY SMTT(30), <1>1, <2>8, JoinsSame
  <2>7. n \in 1 .. n
    BY <1>4
  <2> QED
    BY <1>1, <2>1, <2>6, <2>7
<1> QED
  BY <1>3, <1>4

(* A longer sequence of sequences begins with what a shorter one joins.    *)
LEMMA JoinsAgree ==
    ASSUME NEW T, NEW n \in Nat, NEW m \in Nat, n <= m, NEW s, NEW t, Agree(s, t, n),
           NEW g, Joins(g, n, T, s), NEW h, Joins(h, m, T, t)
    PROVE  \A k \in 0 .. n : g[k] = h[k]
<1>1. \A k \in 1 .. n : g[k] = g[k - 1] \o s[k] /\ h[k] = h[k - 1] \o t[k] /\ s[k] = t[k]
  <2> SUFFICES ASSUME NEW k \in 1 .. n
               PROVE  g[k] = g[k - 1] \o s[k] /\ h[k] = h[k - 1] \o t[k] /\ s[k] = t[k]
    OBVIOUS
  <2>1. k \in 1 .. m
    OBVIOUS
  <2>2. g[k] = g[k - 1] \o s[k]
    BY DEF Joins
  <2>3. h[k] = h[k - 1] \o t[k]
    BY <2>1 DEF Joins
  <2>4. s[k] = t[k]
    BY DEF Agree
  <2> QED
    BY <2>2, <2>3, <2>4
<1> DEFINE M == {k \in 0 .. n : g[k] = h[k]}
<1>2. 0 \in M
  BY DEF Joins
<1>3. \A k \in 0 .. (n - 1) : k \in M => k + 1 \in M
  <2> SUFFICES ASSUME NEW k \in 0 .. (n - 1), k \in M PROVE k + 1 \in M
    OBVIOUS
  <2> DEFINE j == k + 1
  <2>1. g[k] = h[k]
    OBVIOUS
  <2> HIDE DEF M
  <2>2. j \in 1 .. n /\ j - 1 = k
    OBVIOUS
  <2> HIDE DEF j
  <2>3. g[j] = h[j]
    BY <1>1, <2>1, <2>2
  <2> QED
    BY <2>2, <2>3 DEF M, j
<1> HIDE DEF M
<1>4. \A k \in 0 .. n : k \in M
  BY <1>2, <1>3, UpTo
<1> QED
  BY <1>4 DEF M

IsList(s, n, T) == s \in [1 .. n -> T]

(* Nothing flattens to nothing. *)
LEMMA FlattenEmpty == FlattenSeq(<<>>) = <<>>
BY DEF FlattenSeq

(* Flattening one more sequence appends it. *)
LEMMA FlattenAppend ==
    ASSUME NEW T, NEW seqs \in Seq(Seq(T)), NEW s \in Seq(T)
    PROVE  FlattenSeq(Append(seqs, s)) = FlattenSeq(seqs) \o s
<1> DEFINE n == Len(seqs)
<1> DEFINE more == Append(seqs, s)
<1>1. n \in Nat /\ n + 1 \in Nat /\ n <= n + 1
  OBVIOUS
<1>2. seqs \in [1 .. n -> Seq(T)]
  OBVIOUS
<1>3. more \in [1 .. n + 1 -> Seq(T)]
  <2> DEFINE S == Seq(T)
  <2>1. Append(seqs, s) \in Seq(S) /\ Len(Append(seqs, s)) = n + 1
    BY SMT, AppendProperties
  <2> HIDE DEF S
  <2>2. more \in [1 .. n + 1 -> S]
    BY <2>1, LenProperties
  <2> QED
    BY <2>2 DEF S
<1>4. Agree(seqs, more, n) /\ more[n + 1] = s
  <2> HIDE DEF n
  <2> QED
    BY DEF Agree, n
<1> HIDE DEF more, n
<1>5. PICK g : Joins(g, n, T, seqs) /\ FlattenSeq(seqs) = g[n]
  BY <1>1, <1>2, FlattenIs
<1>6. PICK h : Joins(h, n + 1, T, more) /\ FlattenSeq(more) = h[n + 1]
  BY <1>1, <1>3, FlattenIs
<1>7. \A k \in 0 .. n : g[k] = h[k]
  BY <1>1, <1>4, <1>5, <1>6, JoinsAgree
<1>8. h[n] = g[n]
  BY <1>1, <1>7
<1>9. \A k \in 1 .. n + 1 : h[k] = h[k - 1] \o more[k]
  BY <1>6 DEF Joins
<1>10. n + 1 \in 1 .. n + 1 /\ (n + 1) - 1 = n
  BY <1>1
<1>11. h[n + 1] = h[n] \o s
  BY <1>4, <1>9, <1>10
<1> QED
  BY <1>5, <1>6, <1>8, <1>11 DEF more

(* What is joined is the elements of the sequences, and all of them.       *)
HasAllOf(all, seqs, n) ==
  /\ \A k \in 1 .. n : \A i \in 1 .. Len(seqs[k]) : \E j \in 1 .. Len(all) : all[j] = seqs[k][i]
  /\ \A j \in 1 .. Len(all) : \E k \in 1 .. n : \E i \in 1 .. Len(seqs[k]) : all[j] = seqs[k][i]

(* FlattenSeq keeps every element of every sequence and adds none. *)
LEMMA FlattenHas ==
    ASSUME NEW T, NEW n \in Nat, NEW seqs, IsList(seqs, n, Seq(T))
    PROVE  FlattenSeq(seqs) \in Seq(T) /\ HasAllOf(FlattenSeq(seqs), seqs, n)
<1> DEFINE Has(x, k) == \E i \in 1 .. Len(seqs[k]) : x = seqs[k][i]
<1> DEFINE In(x, s) == \E j \in 1 .. Len(s) : s[j] = x
<1>0. seqs \in [1 .. n -> Seq(T)]
  BY DEF IsList
<1>1. PICK g : Joins(g, n, T, seqs) /\ FlattenSeq(seqs) = g[n]
  BY <1>0, FlattenIs
<1>2. /\ \A k \in 0 .. n : g[k] \in Seq(T)
      /\ g[0] = <<>>
      /\ \A k \in 1 .. n : g[k] = g[k - 1] \o seqs[k]
  BY <1>1 DEF Joins
<1>3. ASSUME NEW s \in Seq(T), NEW t \in Seq(T), NEW x
      PROVE  In(x, s \o t) <=> In(x, s) \/ \E i \in 1 .. Len(t) : x = t[i]
  <2>1. /\ Len(s \o t) = Len(s) + Len(t) /\ Len(s) \in Nat /\ Len(t) \in Nat
        /\ \A j \in 1 .. Len(s) : (s \o t)[j] = s[j]
        /\ \A i \in 1 .. Len(t) : (s \o t)[Len(s) + i] = t[i]
    OBVIOUS
  <2>2. ASSUME In(x, s \o t) PROVE In(x, s) \/ \E i \in 1 .. Len(t) : x = t[i]
    <3>1. PICK j \in 1 .. Len(s) + Len(t) : (s \o t)[j] = x
      BY <2>1, <2>2
    <3>2. CASE j <= Len(s)
      <4>1. j \in 1 .. Len(s)
        BY <2>1, <3>1, <3>2
      <4> QED
        BY <2>1, <3>1, <4>1
    <3>3. CASE ~ (j <= Len(s))
      <4>1. j - Len(s) \in 1 .. Len(t) /\ Len(s) + (j - Len(s)) = j
        BY <2>1, <3>1, <3>3
      <4> QED
        BY <2>1, <3>1, <4>1
    <3> QED
      BY <3>2, <3>3
  <2>3. ASSUME In(x, s) PROVE In(x, s \o t)
    <3>1. PICK j \in 1 .. Len(s) : s[j] = x
      BY <2>3
    <3>2. j \in 1 .. Len(s \o t) /\ (s \o t)[j] = x
      BY <2>1, <3>1
    <3> QED
      BY <3>2
  <2>4. ASSUME NEW i \in 1 .. Len(t), x = t[i] PROVE In(x, s \o t)
    <3>1. Len(s) + i \in 1 .. Len(s \o t) /\ (s \o t)[Len(s) + i] = x
      BY <2>1, <2>4
    <3> QED
      BY <3>1
  <2> QED
    BY <2>2, <2>3, <2>4
<1> HIDE DEF In, Has
<1> DEFINE M == {k \in 0 .. n : \A x : In(x, g[k]) <=> \E j \in 1 .. k : Has(x, j)}
<1>4. 0 \in M
  <2>1. \A x : ~ In(x, g[0])
    BY <1>2 DEF In
  <2> QED
    BY <2>1
<1>5. \A k \in 0 .. (n - 1) : k \in M => k + 1 \in M
  <2> SUFFICES ASSUME NEW k \in 0 .. (n - 1), k \in M PROVE k + 1 \in M
    OBVIOUS
  <2>1. \A x : In(x, g[k]) <=> \E j \in 1 .. k : Has(x, j)
    OBVIOUS
  <2> HIDE DEF M
  <2>2. k \in 0 .. n /\ k + 1 \in 1 .. n /\ (k + 1) - 1 = k /\ 1 .. k + 1 = (1 .. k) \cup {k + 1}
    OBVIOUS
  <2>3. g[k] \in Seq(T) /\ seqs[k + 1] \in Seq(T) /\ g[k + 1] = g[k] \o seqs[k + 1]
    BY <1>0, <1>2, <2>2
  <2>4. \A x : In(x, g[k + 1]) <=> In(x, g[k]) \/ Has(x, k + 1)
    BY <1>3, <2>3 DEF Has
  <2>5. \A x : In(x, g[k + 1]) <=> \E j \in 1 .. k + 1 : Has(x, j)
    BY <2>1, <2>2, <2>4
  <2> QED
    BY <2>2, <2>5 DEF M
<1> HIDE DEF M
<1>6. \A k \in 0 .. n : k \in M
  BY <1>4, <1>5, UpTo
<1>7. \A x : In(x, g[n]) <=> \E j \in 1 .. n : Has(x, j)
  BY <1>6 DEF M
<1>8. g[n] \in Seq(T)
  BY <1>2
<1> QED
  BY <1>1, <1>7, <1>8 DEF In, Has, HasAllOf

-----------------------------------------------------------------------------
(* Lists of the members of a set, and their parts.                         *)

(* The sequence of a finite set has each member once.                      *)
LEMMA SetToSeqIs ==
    ASSUME NEW S, IsFiniteSet(S)
    PROVE  /\ Cardinality(S) \in Nat
           /\ SetToSeq(S) \in [1 .. Cardinality(S) -> S]
           /\ \A p, q \in 1 .. Cardinality(S) : SetToSeq(S)[p] = SetToSeq(S)[q] => p = q
           /\ \A x \in S : \E p \in 1 .. Cardinality(S) : SetToSeq(S)[p] = x
<1> DEFINE n == Cardinality(S)
<1> DEFINE s == SetToSeq(S)
<1>1. n \in Nat /\ ExistsBijection(1 .. n, S)
  BY FS_CardinalityType
<1>2. PICK f \in [1 .. n -> S] : IsInjective(f)
  BY <1>1 DEF ExistsBijection, Bijection, Injection
<1>3. s \in [1 .. n -> S] /\ IsInjective(s)
  BY <1>2 DEF SetToSeq
<1> HIDE DEF s
<1>4. IsFiniteSet(1 .. n) /\ Cardinality(1 .. n) = n
  BY <1>1, FS_Interval
<1>5. s \in Injection(1 .. n, S)
  BY <1>3 DEF Injection
<1>6. Cardinality(1 .. n) = Cardinality(S) <=> s \in Surjection(1 .. n, S)
  BY <1>5, FS_Injection
<1>7. s \in Surjection(1 .. n, S)
  BY <1>4, <1>6
<1>8. \A x \in S : \E p \in 1 .. n : s[p] = x
  BY <1>7 DEF Surjection
<1>9. \A p, q \in 1 .. n : s[p] = s[q] => p = q
  BY <1>3 DEF IsInjective
<1> QED
  BY <1>1, <1>3, <1>8, <1>9 DEF s

(* Before on keys of one number is <. *)
LEMMA BeforeOfOne ==
    ASSUME NEW a \in Int, NEW b \in Int
    PROVE  Before(<<a>>, <<b>>) <=> a < b
<1>1. DOMAIN <<a>> = {1} /\ <<a>>[1] = a /\ <<b>>[1] = b /\ 1 .. (1 - 1) = {}
  OBVIOUS
<1>2. Before(<<a>>, <<b>>) <=> \E i \in {1} : <<a>>[i] < <<b>>[i] /\ \A j \in 1 .. (i - 1) : <<a>>[j] = <<b>>[j]
  BY <1>1 DEF Before
<1> QED
  BY <1>1, <1>2

(* The members of a set of numbers from the least to the greatest.         *)
LEMMA AscendingIs ==
    ASSUME NEW S \in SUBSET Int, IsFiniteSet(S)
    PROVE  /\ Cardinality(S) \in Nat
           /\ Ascending(S) \in [1 .. Cardinality(S) -> S]
           /\ \A p, q \in 1 .. Cardinality(S) : p < q => Ascending(S)[p] < Ascending(S)[q]
           /\ \A x \in S : \E p \in 1 .. Cardinality(S) : Ascending(S)[p] = x
<1> DEFINE n == Cardinality(S)
<1> DEFINE s == SetToSeq(S)
<1> DEFINE keys == [i \in 1 .. n |-> <<s[i]>>]
<1> DEFINE order == SortingOf(keys)
<1>1. /\ n \in Nat /\ s \in [1 .. n -> S]
      /\ \A p, q \in 1 .. n : s[p] = s[q] => p = q
      /\ \A x \in S : \E p \in 1 .. n : s[p] = x
  BY SetToSeqIs
<1> HIDE DEF n, s
<1>2. keys \in [1 .. n -> Tuples(1)]
  <2>1. ASSUME NEW i \in 1 .. n PROVE <<s[i]>> \in Tuples(1)
    <3>1. s[i] \in Int
      BY <1>1
    <3>2. <<s[i]>> = [j \in 1 .. 1 |-> s[i]]
      OBVIOUS
    <3> QED
      BY <3>1, <3>2 DEF Tuples
  <2> QED
    BY <2>1
<1>3. \A i \in 1 .. n : keys[i] = <<s[i]>>
  OBVIOUS
<1>4. Ascending(S) = [p \in 1 .. n |-> s[order[p]]]
  BY <1>1 DEF Ascending, Sorted, s
<1> HIDE DEF keys
<1>5. /\ order \in [1 .. n -> 1 .. n]
      /\ \A i \in 1 .. n : \E p \in 1 .. n : order[p] = i
      /\ \A p, q \in 1 .. n : order[p] = order[q] => p = q
      /\ \A p, q \in 1 .. n : p < q <=> Precede(keys, order[p], order[q])
  BY <1>1, <1>2, SortingSorts, 1 \in Nat
<1>6. \A p, q \in 1 .. n : order[p] = order[q] => p = q
  BY <1>5
<1> HIDE DEF order
<1> DEFINE a == Ascending(S)
<1>7. a \in [1 .. n -> S] /\ \A p \in 1 .. n : a[p] = s[order[p]]
  BY <1>1, <1>4, <1>5
<1> HIDE DEF a
<1>8. ASSUME NEW p \in 1 .. n, NEW q \in 1 .. n, p < q
      PROVE  a[p] < a[q]
  <2>1. Precede(keys, order[p], order[q]) /\ order[p] \in 1 .. n /\ order[q] \in 1 .. n
    BY <1>5, <1>8
  <2>2. order[p] # order[q]
    BY <1>1, <1>6, <1>8
  <2>3. keys[order[p]] # keys[order[q]]
    BY <1>1, <1>3, <2>1, <2>2
  <2>4. Before(<<s[order[p]]>>, <<s[order[q]]>>)
    BY <1>3, <2>1, <2>3 DEF Precede
  <2>5. s[order[p]] \in Int /\ s[order[q]] \in Int
    BY <1>1, <2>1
  <2> QED
    BY <1>7, <2>4, <2>5, BeforeOfOne
<1>9. \A x \in S : \E p \in 1 .. n : a[p] = x
  BY <1>1, <1>5, <1>7
<1> QED
  BY <1>1, <1>7, <1>8, <1>9 DEF a, n

(* The first elements of a sequence.                                       *)
LEMMA FirstIs ==
    ASSUME NEW m \in Nat, NEW n \in Nat, NEW T, NEW s \in [1 .. n -> T]
    PROVE  /\ First(m, s) \in [1 .. Least(m, n) -> T]
           /\ Least(m, n) \in Nat /\ Least(m, n) <= n /\ Least(m, n) <= m
           /\ \A i \in 1 .. Least(m, n) : First(m, s)[i] = s[i]
<1>1. Len(s) = n
  OBVIOUS
<1>2. Least(m, n) \in Nat /\ Least(m, n) <= n /\ Least(m, n) <= m
  BY DEF Least
<1>3. First(m, s) = [i \in 1 .. Least(m, n) |-> s[i]]
  BY <1>1, <1>2 DEF First
<1> QED
  BY <1>2, <1>3

(* The same, for a sequence that is said to be one.                        *)
LEMMA FirstOfList ==
    ASSUME NEW m \in Nat, NEW n \in Nat, NEW T, NEW s, IsList(s, n, T)
    PROVE  /\ IsList(First(m, s), Least(m, n), T)
           /\ Least(m, n) \in Nat /\ Least(m, n) <= n /\ Least(m, n) <= m
           /\ \A i \in 1 .. Least(m, n) : First(m, s)[i] = s[i]
<1>1. s \in [1 .. n -> T] /\ Len(s) = n
  BY DEF IsList
<1>2. Least(m, n) \in Nat /\ Least(m, n) <= n /\ Least(m, n) <= m
  BY DEF Least
<1>3. First(m, s) = [i \in 1 .. Least(m, n) |-> s[i]]
  BY <1>1, <1>2 DEF First
<1> HIDE DEF Least, First
<1> QED
  BY <1>1, <1>2, <1>3 DEF IsList

(* There are not n different numbers up to k when k is less than n.        *)
LEMMA NoRoom ==
    ASSUME NEW n \in Nat, NEW k \in Nat, k < n, NEW f, IsList(f, n, 1 .. k)
    PROVE  \E i, j \in 1 .. n : i # j /\ f[i] = f[j]
<1>1. /\ IsFiniteSet(1 .. n) /\ Cardinality(1 .. n) = IF 1 > n THEN 0 ELSE n - 1 + 1
      /\ IsFiniteSet(1 .. k) /\ Cardinality(1 .. k) = IF 1 > k THEN 0 ELSE k - 1 + 1
  BY FS_Interval, 1 \in Int, n \in Int, k \in Int
<1>2. Cardinality(1 .. k) < Cardinality(1 .. n)
  BY <1>1
<1> DEFINE S == 1 .. n
<1> DEFINE T == 1 .. k
<1>3. f \in [S -> T]
  BY DEF IsList
<1>4. IsFiniteSet(S) /\ IsFiniteSet(T) /\ Cardinality(T) < Cardinality(S)
  BY <1>1, <1>2
<1> HIDE DEF S, T
<1>5. \E x, y \in S : x # y /\ f[x] = f[y]
  BY <1>3, <1>4, FS_PigeonHole
<1> QED
  BY <1>5 DEF S

(* A finite set with tuples as keys of its members, no two the same, has a *)
(* member whose key is before the others.                                  *)
LEMMA SmallestExists ==
    ASSUME NEW S, IsFiniteSet(S), S # {}, NEW w \in Nat, NEW key \in [S -> Tuples(w)],
           \A x, y \in S : key[x] = key[y] => x = y
    PROVE  \E x \in S : \A y \in S \ {x} : Before(key[x], key[y])
<1> DEFINE C == {A \in SUBSET S : A # {} => \E x \in A : \A y \in A \ {x} : Before(key[x], key[y])}
<1>0. \A x \in S : key[x] \in Tuples(w)
  OBVIOUS
<1>1. {} \in C
  OBVIOUS
<1>2. ASSUME NEW A \in SUBSET S, A \in C, NEW z \in S \ A PROVE A \cup {z} \in C
  <2>1. CASE A = {}
    BY <2>1
  <2>2. CASE A # {}
    <3>1. PICK x \in A : \A y \in A \ {x} : Before(key[x], key[y])
      BY <1>2, <2>2
    <3>2. x \in S /\ x # z /\ key[x] # key[z]
      BY <1>2
    <3> HIDE DEF C
    <3>3. Before(key[x], key[z]) \/ Before(key[z], key[x])
      BY <1>0, <3>2, BeforeTotal
    <3>4. \E v \in A \cup {z} : \A y \in (A \cup {z}) \ {v} : Before(key[v], key[y])
      <4>1. CASE Before(key[x], key[z])
        <5>1. \A y \in (A \cup {z}) \ {x} : Before(key[x], key[y])
          BY <3>1, <4>1
        <5> QED
          BY <5>1
      <4>2. CASE Before(key[z], key[x])
        <5>1. ASSUME NEW y \in A \ {x} PROVE Before(key[z], key[y])
          <6>1. Before(key[x], key[y]) /\ y \in S /\ z \in S
            BY <3>1
          <6> QED
            BY <1>0, <3>2, <4>2, <6>1, BeforeTransitive
        <5>2. \A y \in (A \cup {z}) \ {z} : Before(key[z], key[y])
          BY <4>2, <5>1
        <5> QED
          BY <5>2
      <4> QED
        BY <3>3, <4>1, <4>2
    <3> QED
      BY <3>4 DEF C
  <2> QED
    BY <2>1, <2>2
<1> HIDE DEF C
<1>3. S \in C
  BY <1>1, <1>2, FiniteInduction
<1> QED
  BY <1>3 DEF C

-----------------------------------------------------------------------------
(* A sequence without its repetitions.                                     *)

(* What Distinct has kept after k of n elements.                           *)
Kept(g, n, T, s) ==
  /\ g \in [0 .. n -> Seq(T)] /\ g[0] = <<>>
  /\ \A k \in 1 .. n :
       g[k] = IF Contains(g[k - 1], s[k]) THEN g[k - 1] ELSE Append(g[k - 1], s[k])

(* Distinct is the last of the prefixes it keeps. *)
LEMMA DistinctIs ==
    ASSUME NEW T, NEW n \in Nat, NEW s \in [1 .. n -> T]
    PROVE  \E g : Kept(g, n, T, s) /\ Distinct(s) = g[n]
<1> DEFINE Q == Seq(T)
<1> DEFINE step(k, v) == IF Contains(v, s[k]) THEN v ELSE Append(v, s[k])
<1> DEFINE st == [x \in (1 .. n) \X Q |-> step(x[1], x[2])]
<1> DEFINE Is(h) == h = [A \in SUBSET (1 .. n) |->
                           IF A = {} THEN <<>> ELSE step(Max(A), h[A \ {Max(A)}])]
<1> DEFINE it == CHOOSE h : Is(h)
<1>1. \A k \in 1 .. n, v \in Q : step(k, v) \in Q
  OBVIOUS
<1>2. \A k \in 1 .. n, v \in Q : st[<<k, v>>] = step(k, v)
  OBVIOUS
<1>3. \A x \in (1 .. n) \X Q : x[1] \in 1 .. n /\ x[2] \in Q
  OBVIOUS
<1>4. <<>> \in Q
  OBVIOUS
<1>5. Distinct(s) = it[1 .. n]
  <2>1. DOMAIN s = 1 .. n
    OBVIOUS
  <2> QED
    BY <2>1 DEF Distinct, FoldLeft, MapThenFoldSet
<1> HIDE DEF Q, step
<1>6. st \in [(1 .. n) \X Q -> Q]
  BY <1>1, <1>3
<1> HIDE DEF st
<1>7. Stepping(st, 1 .. n, Q)
  BY <1>6 DEF Stepping
<1>8. \E h : Is(h)
  <2>1. PICK h : Folds(h, n, Q, <<>>, st)
    BY <1>4, <1>7, FoldExists
  <2>2. ASSUME NEW A \in SUBSET (1 .. n), A # {}
        PROVE  st[<<Max(A), h[A \ {Max(A)}]>>] = step(Max(A), h[A \ {Max(A)}])
    <3>1. Max(A) \in 1 .. n
      BY <2>2, MaxMinIn, 1 \in Int, n \in Int
    <3>2. h[A \ {Max(A)}] \in Q
      BY <2>1 DEF Folds
    <3> QED
      BY <1>2, <3>1, <3>2
  <2>3. h = [A \in SUBSET (1 .. n) |-> IF A = {} THEN <<>> ELSE step(Max(A), h[A \ {Max(A)}])]
    BY <2>1, <2>2 DEF Folds
  <2> QED
    BY <2>3
<1>9. Is(it)
  BY <1>8
<1> HIDE DEF it
<1>10. it[{}] = <<>>
  BY <1>9
<1>11. \A k \in 1 .. n : it[1 .. k] = step(k, it[1 .. (k - 1)])
  BY ZenonT(60), <1>9, PrefixStep
<1>12. StepsOn(it, n, Q, <<>>, st)
  BY <1>2, <1>10, <1>11 DEF StepsOn
<1>13. PICK g : PrefixValues(g, n, Q, <<>>, st) /\ g[n] = it[1 .. n]
  BY <1>4, <1>7, <1>12, FoldPrefixes
<1>14. /\ g \in [0 .. n -> Q] /\ g[0] = <<>>
       /\ \A k \in 1 .. n : g[k] = st[<<k, g[k - 1]>>]
  BY <1>13 DEF PrefixValues
<1>15. \A k \in 1 .. n : g[k - 1] \in Q
  BY <1>14
<1>16. \A k \in 1 .. n : g[k] = step(k, g[k - 1])
  BY <1>2, <1>14, <1>15
<1>17. Kept(g, n, T, s)
  BY <1>14, <1>16 DEF Kept, Q, step
<1> QED
  BY <1>5, <1>13, <1>17

(* It has the elements of the sequence, each once.                         *)
EachOnce(d, s, n) ==
  /\ \A i \in 1 .. n : \E j \in 1 .. Len(d) : d[j] = s[i]
  /\ \A j \in 1 .. Len(d) : \E i \in 1 .. n : d[j] = s[i]
  /\ \A i, j \in 1 .. Len(d) : d[i] = d[j] => i = j

(* Distinct keeps each element once, at its first place in order. *)
LEMMA DistinctHas ==
    ASSUME NEW T, NEW n \in Nat, NEW s, IsList(s, n, T)
    PROVE  Distinct(s) \in Seq(T) /\ EachOnce(Distinct(s), s, n)
<1>0. s \in [1 .. n -> T]
  BY DEF IsList
<1>1. PICK g : Kept(g, n, T, s) /\ Distinct(s) = g[n]
  BY <1>0, DistinctIs
<1>2. /\ \A k \in 0 .. n : g[k] \in Seq(T)
      /\ g[0] = <<>>
      /\ \A k \in 1 .. n :
           g[k] = IF Contains(g[k - 1], s[k]) THEN g[k - 1] ELSE Append(g[k - 1], s[k])
  BY <1>1 DEF Kept
<1> DEFINE Lists(v, k) == /\ \A x : Contains(v, x) <=> \E i \in 1 .. k : x = s[i]
                          /\ \A i, j \in 1 .. Len(v) : v[i] = v[j] => i = j
<1>3. Lists(<<>>, 0)
  BY DEF Contains
<1>4. ASSUME NEW k \in 0 .. (n - 1), NEW v \in Seq(T), Lists(v, k),
             NEW w \in Seq(T), w = IF Contains(v, s[k + 1]) THEN v ELSE Append(v, s[k + 1])
      PROVE  Lists(w, k + 1)
  <2>1. 1 .. k + 1 = (1 .. k) \cup {k + 1} /\ k + 1 \in 1 .. n
    OBVIOUS
  <2>2. CASE Contains(v, s[k + 1])
    BY <1>4, <2>1, <2>2
  <2>3. CASE ~ Contains(v, s[k + 1])
    <3>1. w = Append(v, s[k + 1]) /\ s[k + 1] \in T
      BY <1>0, <1>4, <2>1, <2>3
    <3>2. /\ Len(w) = Len(v) + 1 /\ Len(v) \in Nat
          /\ \A i \in 1 .. Len(v) : w[i] = v[i]
          /\ w[Len(v) + 1] = s[k + 1]
      BY <3>1
    <3>3. 1 .. Len(w) = (1 .. Len(v)) \cup {Len(v) + 1}
      BY <3>2
    <3>4. \A x : Contains(w, x) <=> Contains(v, x) \/ x = s[k + 1]
      BY <3>2, <3>3 DEF Contains
    <3>5. \A x : Contains(w, x) <=> \E i \in 1 .. k + 1 : x = s[i]
      BY <1>4, <2>1, <3>4
    <3>6. \A i \in 1 .. Len(v) : v[i] # s[k + 1]
      BY <2>3 DEF Contains
    <3>7. \A i, j \in 1 .. Len(w) : w[i] = w[j] => i = j
      BY <1>4, <3>2, <3>3, <3>6
    <3> QED
      BY <3>5, <3>7
  <2> QED
    BY <2>2, <2>3
<1> HIDE DEF Lists
<1> DEFINE M == {k \in 0 .. n : Lists(g[k], k)}
<1>5. 0 \in M
  BY <1>2, <1>3
<1>6. \A k \in 0 .. (n - 1) : k \in M => k + 1 \in M
  <2> SUFFICES ASSUME NEW k \in 0 .. (n - 1), k \in M PROVE k + 1 \in M
    OBVIOUS
  <2>1. Lists(g[k], k)
    OBVIOUS
  <2> HIDE DEF M
  <2>2. k \in 0 .. n /\ k + 1 \in 0 .. n /\ k + 1 \in 1 .. n /\ (k + 1) - 1 = k
    OBVIOUS
  <2>3. /\ g[k] \in Seq(T) /\ g[k + 1] \in Seq(T)
        /\ g[k + 1] = IF Contains(g[k], s[k + 1]) THEN g[k] ELSE Append(g[k], s[k + 1])
    BY <1>2, <2>2
  <2>4. Lists(g[k + 1], k + 1)
    BY <1>4, <2>1, <2>3
  <2> QED
    BY <2>2, <2>4 DEF M
<1> HIDE DEF M
<1>7. \A k \in 0 .. n : k \in M
  BY <1>5, <1>6, UpTo
<1>8. Lists(g[n], n)
  BY <1>7 DEF M
<1>9. g[n] \in Seq(T)
  BY <1>2
<1> QED
  BY <1>1, <1>8, <1>9 DEF Lists, Contains, EachOnce

-----------------------------------------------------------------------------
(* Shares.                                                                 *)

(* A family of subsets with the empty set that has each set of which it    *)
(* has the rest after a chosen member has the whole of a finite set.       *)
LEMMA ByChoice ==
    ASSUME NEW S, IsFiniteSet(S), NEW c, Chooses(c, S), NEW C, {} \in C,
           \A A \in SUBSET S : A # {} /\ A \ {c[A]} \in C => A \in C
    PROVE  S \in C
<1> DEFINE P == SUBSET S
<1> DEFINE N == Cardinality(S)
<1> DEFINE M == {k \in 0 .. N : \A A \in P : Cardinality(A) <= k => A \in C}
<1>1. ASSUME NEW A \in P
      PROVE  /\ Cardinality(A) \in Nat /\ Cardinality(A) <= N
             /\ Cardinality(A) = 0 <=> A = {}
             /\ A # {} => Cardinality(A \ {c[A]}) = Cardinality(A) - 1 /\ A \ {c[A]} \in P
  <2>1. IsFiniteSet(A) /\ Cardinality(A) <= N
    BY FS_Subset
  <2>2. Cardinality(A) \in Nat /\ (Cardinality(A) = 0 <=> A = {})
    BY <2>1, FS_CardinalityType, FS_EmptySet
  <2>3. A # {} => Cardinality(A \ {c[A]}) = Cardinality(A) - 1 /\ A \ {c[A]} \in P
    BY <2>1, FS_RemoveElement DEF Chooses
  <2> QED
    BY <2>1, <2>2, <2>3
<1>2. N \in Nat /\ S \in P
  BY FS_CardinalityType
<1>3. \A A \in P : A # {} /\ A \ {c[A]} \in C => A \in C
  OBVIOUS
<1> HIDE DEF P, N
<1>4. 0 \in M
  <2>1. ASSUME NEW A \in P, Cardinality(A) <= 0 PROVE A \in C
    <3>1. Cardinality(A) \in Nat /\ (Cardinality(A) = 0 <=> A = {})
      BY <1>1
    <3>2. A = {}
      BY <2>1, <3>1
    <3> QED
      BY <3>2
  <2> QED
    BY <1>2, <2>1
<1>5. \A k \in 0 .. (N - 1) : k \in M => k + 1 \in M
  <2> SUFFICES ASSUME NEW k \in 0 .. (N - 1), k \in M PROVE k + 1 \in M
    OBVIOUS
  <2>1. k + 1 \in 0 .. N /\ k \in Nat
    BY <1>2
  <2>2. ASSUME NEW A \in P, Cardinality(A) <= k + 1 PROVE A \in C
    <3>1. CASE A = {}
      BY <3>1
    <3>2. CASE A # {}
      <4>1. Cardinality(A \ {c[A]}) = Cardinality(A) - 1 /\ A \ {c[A]} \in P /\ Cardinality(A) \in Nat
        BY <1>1, <3>2
      <4>2. Cardinality(A \ {c[A]}) <= k
        BY <2>1, <2>2, <4>1
      <4>3. A \ {c[A]} \in C
        BY <4>1, <4>2
      <4> QED
        BY <1>3, <3>2, <4>3
    <3> QED
      BY <3>1, <3>2
  <2> QED
    BY <2>1, <2>2
<1> HIDE DEF M
<1>6. \A k \in 0 .. N : k \in M
  BY <1>2, <1>4, <1>5, UpTo
<1>7. N \in M
  BY <1>2, <1>6
<1> QED
  BY <1>2, <1>7 DEF M, N

(* The same, from all sets with one member less.                           *)
LEMMA BySmaller ==
    ASSUME NEW S, IsFiniteSet(S), NEW C,
           \A A \in SUBSET S : (\A x \in A : A \ {x} \in C) => A \in C
    PROVE  S \in C
<1> DEFINE P == SUBSET S
<1> DEFINE N == Cardinality(S)
<1> DEFINE M == {k \in 0 .. N : \A A \in P : Cardinality(A) <= k => A \in C}
<1>1. ASSUME NEW A \in P
      PROVE  /\ Cardinality(A) \in Nat /\ Cardinality(A) <= N
             /\ Cardinality(A) = 0 <=> A = {}
             /\ \A x \in A : Cardinality(A \ {x}) = Cardinality(A) - 1 /\ A \ {x} \in P
  <2>1. IsFiniteSet(A) /\ Cardinality(A) <= N
    BY FS_Subset
  <2>2. Cardinality(A) \in Nat /\ (Cardinality(A) = 0 <=> A = {})
    BY <2>1, FS_CardinalityType, FS_EmptySet
  <2>3. \A x \in A : Cardinality(A \ {x}) = Cardinality(A) - 1 /\ A \ {x} \in P
    BY <2>1, FS_RemoveElement
  <2> QED
    BY <2>1, <2>2, <2>3
<1>2. N \in Nat /\ S \in P
  BY FS_CardinalityType
<1>3. \A A \in P : (\A x \in A : A \ {x} \in C) => A \in C
  OBVIOUS
<1> HIDE DEF P, N
<1>4. 0 \in M
  <2>1. ASSUME NEW A \in P, Cardinality(A) <= 0 PROVE A \in C
    <3>1. Cardinality(A) \in Nat /\ (Cardinality(A) = 0 <=> A = {})
      BY <1>1
    <3>2. A = {}
      BY <2>1, <3>1
    <3> QED
      BY <1>3, <3>2
  <2> QED
    BY <1>2, <2>1
<1>5. \A k \in 0 .. (N - 1) : k \in M => k + 1 \in M
  <2> SUFFICES ASSUME NEW k \in 0 .. (N - 1), k \in M PROVE k + 1 \in M
    OBVIOUS
  <2>1. k + 1 \in 0 .. N /\ k \in Nat
    BY <1>2
  <2>2. ASSUME NEW A \in P, Cardinality(A) <= k + 1 PROVE A \in C
    <3>1. ASSUME NEW x \in A PROVE A \ {x} \in C
      <4>1. Cardinality(A \ {x}) = Cardinality(A) - 1 /\ A \ {x} \in P /\ Cardinality(A) \in Nat
        BY <1>1
      <4>2. Cardinality(A \ {x}) <= k
        BY <2>1, <2>2, <4>1
      <4> QED
        BY <4>1, <4>2
    <3> QED
      BY <1>3, <3>1
  <2> QED
    BY <2>1, <2>2
<1> HIDE DEF M
<1>6. \A k \in 0 .. N : k \in M
  BY <1>2, <1>4, <1>5, UpTo
<1>7. N \in M
  BY <1>2, <1>6
<1> QED
  BY <1>2, <1>7 DEF M, N

(* The products of k + r over the sets of numbers r in S.                  *)
Multiplies(h, k, S) ==
  /\ h \in [SUBSET S -> Nat]
  /\ \A A \in SUBSET S :
       h[A] = IF A = {} THEN 1
              ELSE h[A \ {CHOOSE x \in A : TRUE}] * (k + (CHOOSE x \in A : TRUE))

(* A share is one of them: that over all the other ranks.                  *)
LEMMA ShareIs ==
    ASSUME NEW k \in Nat, NEW rank
    PROVE  \E h : /\ Multiplies(h, k, (1 .. RankDepth) \ {rank})
                 /\ Share(k, rank) = h[(1 .. RankDepth) \ {rank}]
<1> DEFINE S == (1 .. RankDepth) \ {rank}
<1> DEFINE c == [A \in SUBSET S |-> CHOOSE x \in A : TRUE]
<1> DEFINE st == [x \in S \X Nat |-> x[2] * (k + x[1])]
<1> DEFINE Is(h) == h = [A \in SUBSET S |->
                           IF A = {} THEN 1
                           ELSE h[A \ {CHOOSE x \in A : TRUE}] * (k + (CHOOSE x \in A : TRUE))]
<1> DEFINE it == CHOOSE h : Is(h)
<1>1. S \subseteq Nat /\ IsFiniteSet(S)
  <2>1. RankDepth \in Int /\ 1 \in Int
    BY RankingAssumption
  <2>2. IsFiniteSet(1 .. RankDepth)
    BY <2>1, FS_Interval
  <2> QED
    BY <2>1, <2>2, FS_Subset
<1>2. Share(k, rank) = it[S]
  BY DEF Share, FoldSet, MapThenFoldSet
<1> HIDE DEF S
<1>3. Chooses(c, S)
  BY DEF Chooses
<1>4. \A x \in S, v \in Nat : st[<<x, v>>] = v * (k + x) /\ v * (k + x) \in Nat
  <2> SUFFICES ASSUME NEW x \in S, NEW v \in Nat
               PROVE  st[<<x, v>>] = v * (k + x) /\ v * (k + x) \in Nat
    OBVIOUS
  <2>1. st[<<x, v>>] = v * (k + x)
    OBVIOUS
  <2>2. k + x \in Nat
    BY <1>1
  <2>3. \A a, b \in Nat : a * b \in Nat
    OBVIOUS
  <2> QED
    BY <2>1, <2>2, <2>3
<1>5. Stepping(st, S, Nat)
  <2>1. ASSUME NEW x \in S \X Nat PROVE st[x] \in Nat
    <3>1. x[1] \in S /\ x[2] \in Nat /\ x = <<x[1], x[2]>>
      OBVIOUS
    <3> HIDE DEF st
    <3> QED
      BY <1>4, <3>1
  <2>2. st = [x \in S \X Nat |-> st[x]]
    OBVIOUS
  <2> HIDE DEF st
  <2> QED
    BY <2>1, <2>2 DEF Stepping
<1>6. \A A \in SUBSET S : c[A] = CHOOSE x \in A : TRUE
  OBVIOUS
<1> HIDE DEF c, st
<1>7. PICK h : Iterates(h, S, Nat, c, 1, st)
  BY <1>1, <1>3, <1>5, Iteration, 1 \in Nat
<1>8. /\ h \in [SUBSET S -> Nat]
      /\ \A A \in SUBSET S : h[A] = IF A = {} THEN 1 ELSE st[<<c[A], h[A \ {c[A]}]>>]
  BY <1>7 DEF Iterates
<1>9. ASSUME NEW A \in SUBSET S, A # {}
      PROVE  st[<<c[A], h[A \ {c[A]}]>>] = h[A \ {c[A]}] * (k + c[A])
  <2>1. c[A] \in S /\ h[A \ {c[A]}] \in Nat
    BY <1>3, <1>8, <1>9 DEF Chooses
  <2> QED
    BY <1>4, <2>1
<1>10. \A A \in SUBSET S : h[A] = IF A = {} THEN 1
         ELSE h[A \ {CHOOSE x \in A : TRUE}] * (k + (CHOOSE x \in A : TRUE))
  BY <1>6, <1>8, <1>9
<1>11. \E f : Is(f)
  <2>1. h = [A \in SUBSET S |-> h[A]]
    BY <1>8
  <2>2. Is(h)
    BY <1>10, <2>1
  <2> QED
    BY <2>2
<1>12. Is(it)
  BY <1>11
<1> HIDE DEF it
<1> DEFINE C == {A \in SUBSET S : it[A] = h[A]}
<1>13. \A A \in SUBSET S : A # {} => /\ it[A] = it[A \ {c[A]}] * (k + c[A])
                                     /\ h[A] = h[A \ {c[A]}] * (k + c[A])
  BY <1>6, <1>10, <1>12
<1>14. {} \in C
  BY <1>10, <1>12
<1>15. ASSUME NEW A \in SUBSET S, A # {}, A \ {c[A]} \in C PROVE A \in C
  BY <1>13, <1>15
<1> HIDE DEF C
<1>16. S \in C
  BY <1>1, <1>3, <1>14, <1>15, ByChoice
<1>17. Share(k, rank) = h[S]
  BY <1>2, <1>16 DEF C
<1>18. Multiplies(h, k, S)
  BY <1>8, <1>10 DEF Multiplies
<1> QED
  BY <1>17, <1>18 DEF S

(* A share of a rank is a natural number.                                  *)
LEMMA ShareNat ==
    ASSUME NEW k \in Nat, NEW rank
    PROVE  Share(k, rank) \in Nat
<1>1. PICK h : /\ Multiplies(h, k, (1 .. RankDepth) \ {rank})
              /\ Share(k, rank) = h[(1 .. RankDepth) \ {rank}]
  BY ShareIs
<1> QED
  BY <1>1 DEF Multiplies

(* The order of the factors does not matter.                               *)
LEMMA ProductOf ==
    ASSUME NEW k \in Nat, NEW S \in SUBSET Nat, IsFiniteSet(S), NEW h, Multiplies(h, k, S)
    PROVE  \A x \in S : h[S] = h[S \ {x}] * (k + x)
<1> DEFINE c == [A \in SUBSET S |-> CHOOSE x \in A : TRUE]
<1>1. /\ \A A \in SUBSET S : h[A] \in Nat
      /\ \A A \in SUBSET S : A # {} => c[A] \in A /\ h[A] = h[A \ {c[A]}] * (k + c[A])
  BY DEF Multiplies
<1> HIDE DEF c
<1> DEFINE C == {A \in SUBSET S : \A x \in A : h[A] = h[A \ {x}] * (k + x)}
<1>2. ASSUME NEW A \in SUBSET S, \A x \in A : A \ {x} \in C, NEW x \in A
      PROVE  h[A] = h[A \ {x}] * (k + x)
  <2> DEFINE y == c[A]
  <2>1. y \in A /\ h[A] = h[A \ {y}] * (k + y)
    BY <1>1
  <2> HIDE DEF y
  <2>2. CASE x = y
    BY <2>1, <2>2
  <2>3. CASE x # y
    <3> DEFINE B == (A \ {x}) \ {y}
    <3>1. B \in SUBSET S /\ B = (A \ {y}) \ {x} /\ x \in A \ {y} /\ y \in A \ {x}
      BY <2>1, <2>3
    <3>2. h[A \ {y}] = h[(A \ {y}) \ {x}] * (k + x)
      BY <1>2, <2>1, <3>1
    <3>3. h[A \ {x}] = h[(A \ {x}) \ {y}] * (k + y)
      BY <1>2, <3>1
    <3>4. h[A \ {y}] = h[B] * (k + x) /\ h[A \ {x}] = h[B] * (k + y)
      BY <3>1, <3>2, <3>3
    <3>5. h[B] \in Nat /\ k + x \in Nat /\ k + y \in Nat
      <4>1. x \in Nat /\ y \in Nat
        BY <2>1
      <4>2. h[B] \in Nat
        BY <1>1, <3>1
      <4> QED
        BY <4>1, <4>2
    <3>6. \A a, b, d \in Nat : (a * b) * d = (a * d) * b
      OBVIOUS
    <3>7. (h[B] * (k + x)) * (k + y) = (h[B] * (k + y)) * (k + x)
      BY <3>5, <3>6
    <3> QED
      BY <2>1, <3>4, <3>7
  <2> QED
    BY <2>2, <2>3
<1>3. \A A \in SUBSET S : (\A x \in A : A \ {x} \in C) => A \in C
  BY <1>2
<1> HIDE DEF C
<1>4. S \in C
  BY <1>3, BySmaller
<1> QED
  BY <1>4 DEF C

(* Products of the members of a part of the set.                           *)
LEMMA ProductOfPart ==
    ASSUME NEW k \in Nat, NEW S \in SUBSET Nat, IsFiniteSet(S), NEW A \in SUBSET S,
           NEW h, Multiplies(h, k, S), NEW g, Multiplies(g, k, A)
    PROVE  h[A] = g[A]
<1> DEFINE c == [B \in SUBSET A |-> CHOOSE x \in B : TRUE]
<1>1. \A B \in SUBSET A : /\ B = {} => h[B] = 1 /\ g[B] = 1
                         /\ B # {} => /\ c[B] \in B
                                      /\ h[B] = h[B \ {c[B]}] * (k + c[B])
                                      /\ g[B] = g[B \ {c[B]}] * (k + c[B])
  BY DEF Multiplies
<1>2. Chooses(c, A) /\ IsFiniteSet(A)
  BY FS_Subset DEF Chooses
<1> HIDE DEF c
<1> DEFINE C == {B \in SUBSET A : h[B] = g[B]}
<1>3. {} \in C
  <2>1. {} \in SUBSET A
    OBVIOUS
  <2>2. {} \in SUBSET S
    OBVIOUS
  <2>3. h[{}] = 1
    BY <2>2 DEF Multiplies
  <2>4. g[{}] = 1
    BY <2>1 DEF Multiplies
  <2> QED
    BY <2>1, <2>3, <2>4
<1>4. ASSUME NEW B \in SUBSET A, B # {}, B \ {c[B]} \in C PROVE B \in C
  BY <1>1, <1>4
<1> HIDE DEF C
<1>5. A \in C
  BY <1>2, <1>3, <1>4, ByChoice
<1> QED
  BY <1>5 DEF C

(* What multiplies for a set does for its parts.                           *)
PartOf(g, h, A) == g = [B \in SUBSET A |-> h[B]]

(* A product over a set restricts to a product over a part of it. *)
LEMMA PartMultiplies ==
    ASSUME NEW k, NEW S, NEW A \in SUBSET S, NEW h, Multiplies(h, k, S),
           NEW g, PartOf(g, h, A)
    PROVE  Multiplies(g, k, A)
<1> USE DEF PartOf
<1>1. \A B \in SUBSET A : B \in SUBSET S /\ B \ {CHOOSE x \in B : TRUE} \in SUBSET A
  OBVIOUS
<1>2. g \in [SUBSET A -> Nat]
  BY <1>1 DEF Multiplies
<1>3. \A B \in SUBSET A : g[B] = h[B] /\ g[B \ {CHOOSE x \in B : TRUE}] = h[B \ {CHOOSE x \in B : TRUE}]
  BY <1>1
<1> QED
  BY <1>1, <1>2, <1>3 DEF Multiplies

(* The product of the k + rank of a finite set is positive. *)
LEMMA ProductPositive ==
    ASSUME NEW k \in Nat \ {0}, NEW S \in SUBSET Nat, IsFiniteSet(S), NEW h, Multiplies(h, k, S)
    PROVE  h[S] \in Nat \ {0}
<1> DEFINE c == [A \in SUBSET S |-> CHOOSE x \in A : TRUE]
<1>1. /\ \A A \in SUBSET S : h[A] \in Nat
      /\ \A A \in SUBSET S : A # {} => c[A] \in A /\ h[A] = h[A \ {c[A]}] * (k + c[A])
  BY DEF Multiplies
<1>2. h[{}] = 1
  <2>1. {} \in SUBSET S
    OBVIOUS
  <2> QED
    BY <2>1 DEF Multiplies
<1>3. Chooses(c, S)
  BY DEF Chooses
<1> HIDE DEF c
<1> DEFINE C == {A \in SUBSET S : h[A] # 0}
<1>4. {} \in C
  BY <1>2
<1>5. ASSUME NEW A \in SUBSET S, A # {}, A \ {c[A]} \in C PROVE A \in C
  <2> DEFINE a == h[A \ {c[A]}]
  <2> DEFINE b == k + c[A]
  <2>1. c[A] \in Nat /\ h[A] = a * b
    <3>1. c[A] \in A /\ h[A] = h[A \ {c[A]}] * (k + c[A])
      BY <1>1, <1>5
    <3> QED
      BY <3>1
  <2>2. a \in Nat /\ a # 0
    BY <1>1, <1>5
  <2>3. b \in Nat /\ b # 0
    BY <2>1
  <2> HIDE DEF a, b
  <2>4. a * b # 0
    BY <2>2, <2>3
  <2> QED
    BY <2>1, <2>4
<1> HIDE DEF C
<1>6. S \in C
  BY <1>3, <1>4, <1>5, ByChoice
<1> QED
  BY <1>1, <1>6 DEF C

(* The better the rank, the greater the share.                             *)
LEMMA SharesDecrease ==
    ASSUME NEW k \in Nat \ {0}, NEW r \in 1 .. RankDepth, NEW s \in 1 .. RankDepth, r < s
    PROVE  Share(k, s) < Share(k, r) /\ Share(k, s) \in Nat \ {0}
<1> DEFINE T == 1 .. RankDepth
<1> DEFINE R == T \ {r}
<1> DEFINE S == T \ {s}
<1> DEFINE C == R \ {s}
<1>1. T \in SUBSET Nat /\ IsFiniteSet(T) /\ r \in T /\ s \in T /\ r \in Nat /\ s \in Nat
  <2>1. RankDepth \in Int /\ 1 \in Int
    BY RankingAssumption
  <2>2. IsFiniteSet(1 .. RankDepth)
    BY <2>1, FS_Interval
  <2> QED
    BY <2>1, <2>2
<1>2. PICK h : Multiplies(h, k, R) /\ Share(k, r) = h[R]
  BY ShareIs
<1>3. PICK g : Multiplies(g, k, S) /\ Share(k, s) = g[S]
  BY ShareIs
<1> HIDE DEF T
<1>4. /\ R \in SUBSET Nat /\ S \in SUBSET Nat /\ C \in SUBSET R /\ C \in SUBSET S /\ C \in SUBSET Nat
      /\ S \ {r} = C /\ s \in R /\ r \in S
  BY <1>1
<1>5. IsFiniteSet(R) /\ IsFiniteSet(S) /\ IsFiniteSet(C)
  BY <1>1, FS_Subset
<1>6. R \ {s} = C
  OBVIOUS
<1> HIDE DEF R, S, C
<1>7. h[R] = h[C] * (k + s) /\ g[S] = g[C] * (k + r)
  <2>1. h[R] = h[R \ {s}] * (k + s)
    BY <1>2, <1>4, <1>5, ProductOf
  <2>2. g[S] = g[S \ {r}] * (k + r)
    BY <1>3, <1>4, <1>5, ProductOf
  <2> QED
    BY <1>4, <1>6, <2>1, <2>2
<1> DEFINE f == [B \in SUBSET C |-> h[B]]
<1>8. Multiplies(f, k, C) /\ f[C] = h[C]
  <2>1. f[C] = h[C]
    OBVIOUS
  <2> DEFINE ff == f
  <2>2. PartOf(ff, h, C)
    BY DEF PartOf
  <2> HIDE DEF ff
  <2>3. Multiplies(ff, k, C)
    BY <1>2, <1>4, <2>2, PartMultiplies
  <2> QED
    BY <2>1, <2>3 DEF ff
<1> HIDE DEF f
<1>9. g[C] = f[C]
  BY <1>3, <1>4, <1>5, <1>8, ProductOfPart
<1>10. f[C] \in Nat \ {0}
  BY <1>4, <1>5, <1>8, ProductPositive
<1> DEFINE m == h[C]
<1>11. m \in Nat /\ m # 0 /\ h[R] = m * (k + s) /\ g[S] = m * (k + r)
  BY <1>7, <1>8, <1>9, <1>10
<1> HIDE DEF m
<1>12. k + r \in Nat /\ k + s \in Nat /\ k + r < k + s /\ k + r # 0
  BY <1>1
<1> DEFINE a == k + r
<1> DEFINE b == k + s
<1> HIDE DEF a, b
<1>13. \A x \in Nat \ {0}, y, z \in Nat : y < z => x * y < x * z
  OBVIOUS
<1>14. \A x \in Nat \ {0}, y \in Nat \ {0} : x * y \in Nat \ {0}
  OBVIOUS
<1>15. m * a < m * b /\ m * a \in Nat \ {0}
  BY <1>11, <1>12, <1>13, <1>14 DEF a, b
<1> QED
  BY <1>2, <1>3, <1>11, <1>15 DEF a, b

-----------------------------------------------------------------------------
(* The scan.                                                               *)

Hits == [row : Int, score : Int]
Scored(score, E) == \A row \in E : score[row] \in Int
Better(score, a, b) == score[a] > score[b] \/ (score[a] = score[b] /\ a < b)

(* best is the limit best rows of E, from the best one on.                 *)
Top(best, E, score, limit) ==
  /\ best \in Seq(Hits)
  /\ \A i \in 1 .. Len(best) : best[i].row \in E /\ best[i].score = score[best[i].row]
  /\ \A i, j \in 1 .. Len(best) : i < j => Better(score, best[i].row, best[j].row)
  /\ Len(best) = Least(limit, Cardinality(E))
  /\ \A row \in E \ {best[i].row : i \in 1 .. Len(best)} :
       Len(best) = limit /\ \A i \in 1 .. Len(best) : Better(score, best[i].row, row)

(* The order of the scan is a strict total order on rows. *)
LEMMA BetterOrders ==
    ASSUME NEW S \in SUBSET Int, NEW score, Scored(score, S), NEW a \in S, NEW b \in S
    PROVE  /\ ~ Better(score, a, a)
           /\ a # b => Better(score, a, b) \/ Better(score, b, a)
           /\ Better(score, a, b) => ~ Better(score, b, a)
           /\ \A c \in S : Better(score, a, b) /\ Better(score, b, c) => Better(score, a, c)
<1>1. /\ a \in Int /\ b \in Int /\ score[a] \in Int /\ score[b] \in Int
      /\ \A c \in S : c \in Int /\ score[c] \in Int
  BY DEF Scored
<1> QED
  BY <1>1 DEF Better

(* The sort key of the scan orders hits as Better does. *)
LEMMA BeforeOfHits ==
    ASSUME NEW score, NEW a \in Int, NEW b \in Int, score[a] \in Int, score[b] \in Int
    PROVE  Before(<<- score[a], a>>, <<- score[b], b>>) <=> Better(score, a, b)
<1> DEFINE k == <<- score[a], a>>
<1> DEFINE l == <<- score[b], b>>
<1>1. DOMAIN k = {1, 2} /\ k[1] = - score[a] /\ k[2] = a /\ l[1] = - score[b] /\ l[2] = b
  OBVIOUS
<1>2. 1 .. (1 - 1) = {} /\ 1 .. (2 - 1) = {1}
  OBVIOUS
<1> HIDE DEF k, l
<1>3. Before(k, l) <=> k[1] < l[1] \/ (k[2] < l[2] /\ k[1] = l[1])
  BY <1>1, <1>2 DEF Before
<1>4. Better(score, a, b) <=> k[1] < l[1] \/ (k[2] < l[2] /\ k[1] = l[1])
  BY <1>1 DEF Better
<1> QED
  BY <1>3, <1>4 DEF k, l

(* Hits sorted by ScanKey.                                                 *)
HitsOfRows(s, n, S, score) ==
  /\ \A i \in 1 .. n : s[i].row \in S /\ s[i].score = score[s[i].row]
  /\ \A i, j \in 1 .. n : i # j => s[i].row # s[j].row
SortsHits(order, s, n, score) ==
  /\ order \in [1 .. n -> 1 .. n]
  /\ Sorted(s, ScanKey) = [p \in 1 .. n |-> s[order[p]]]
  /\ \A i \in 1 .. n : \E p \in 1 .. n : order[p] = i
  /\ \A p, q \in 1 .. n : p < q => Better(score, s[order[p]].row, s[order[q]].row)

(* The hits of a set of rows can be put in order, best first. *)
LEMMA HitsSorted ==
    ASSUME NEW S \in SUBSET Int, NEW score, Scored(score, S), NEW n \in Nat,
           NEW s \in [1 .. n -> Hits], HitsOfRows(s, n, S, score)
    PROVE  \E order : SortsHits(order, s, n, score)
<1> USE DEF HitsOfRows, SortsHits
<1> DEFINE keys == [i \in 1 .. n |-> <<- s[i].score, s[i].row>>]
<1> DEFINE order == SortingOf(keys)
<1>1. \A i \in 1 .. n : s[i].row \in Int /\ s[i].score \in Int
  BY DEF Hits
<1>2. keys \in [1 .. n -> Tuples(2)]
  <2>1. ASSUME NEW i \in 1 .. n PROVE <<- s[i].score, s[i].row>> \in Tuples(2)
    <3>1. s[i].row \in Int /\ - s[i].score \in Int
      BY <1>1
    <3> QED
      BY <3>1 DEF Tuples
  <2> QED
    BY <2>1
<1>3. \A i \in 1 .. n : keys[i] = <<- s[i].score, s[i].row>>
  OBVIOUS
<1>4. Sorted(s, ScanKey) = [p \in 1 .. n |-> s[order[p]]]
  BY DEF Sorted, ScanKey
<1> HIDE DEF keys
<1>5. /\ order \in [1 .. n -> 1 .. n]
      /\ \A i \in 1 .. n : \E p \in 1 .. n : order[p] = i
      /\ \A p, q \in 1 .. n : order[p] = order[q] => p = q
      /\ \A p, q \in 1 .. n : p < q <=> Precede(keys, order[p], order[q])
  BY <1>2, SortingSorts, 2 \in Nat
<1>6. \A p, q \in 1 .. n : order[p] = order[q] => p = q
  BY <1>5
<1> HIDE DEF order
<1>7. ASSUME NEW p \in 1 .. n, NEW q \in 1 .. n, p < q
      PROVE  Better(score, s[order[p]].row, s[order[q]].row)
  <2> DEFINE i == order[p]
  <2> DEFINE j == order[q]
  <2>1. Precede(keys, i, j) /\ i \in 1 .. n /\ j \in 1 .. n
    BY <1>5, <1>7
  <2>2. i # j
    BY <1>6, <1>7
  <2> HIDE DEF i, j
  <2> DEFINE a == s[i].row
  <2> DEFINE b == s[j].row
  <2>3. /\ a \in Int /\ b \in Int /\ s[i].score = score[a] /\ s[j].score = score[b] /\ a # b
        /\ score[a] \in Int /\ score[b] \in Int
    BY <1>1, <2>1, <2>2
  <2>4. keys[i] = <<- score[a], a>> /\ keys[j] = <<- score[b], b>>
    BY <1>3, <2>1, <2>3
  <2> HIDE DEF a, b
  <2>5. keys[i] # keys[j]
    BY <2>3, <2>4
  <2>6. Before(<<- score[a], a>>, <<- score[b], b>>)
    BY <2>1, <2>4, <2>5 DEF Precede
  <2>7. Better(score, a, b)
    BY <2>3, <2>6, BeforeOfHits
  <2> QED
    BY <2>7 DEF a, b, i, j
<1> QED
  BY <1>4, <1>5, <1>7

(* The rows of a block join the best rows so far.                          *)
LEMMA ScanBlockKeeps ==
    ASSUME NEW E \in SUBSET Int, IsFiniteSet(E), NEW F \in SUBSET Int, IsFiniteSet(F), E \cap F = {},
           NEW score, Scored(score, E \cup F), NEW limit \in Nat,
           NEW best, Top(best, E, score, limit),
           NEW block, NEW eligible, block \cap eligible = F
    PROVE  Top(ScanBlock(best, block, eligible, score, limit), E \cup F, score, limit)
<1> DEFINE S == E \cup F
<1> DEFINE n == Len(best)
<1> DEFINE m == Cardinality(F)
<1> DEFINE rows == Ascending(F)
<1> DEFINE hits == [i \in DOMAIN rows |-> [row |-> rows[i], score |-> score[rows[i]]]]
<1> DEFINE H == best \o hits
<1> DEFINE res == First(limit, Sorted(H, ScanKey))
<1>1. ScanBlock(best, block, eligible, score, limit) = IF rows = <<>> THEN best ELSE res
  BY DEF ScanBlock
<1>2. /\ m \in Nat /\ rows \in [1 .. m -> F]
      /\ \A p, q \in 1 .. m : p < q => rows[p] < rows[q]
      /\ \A x \in F : \E p \in 1 .. m : rows[p] = x
  BY AscendingIs
<1>3. \A p, q \in 1 .. m : p # q => rows[p] # rows[q]
  <2>1. \A p \in 1 .. m : rows[p] \in Int
    BY <1>2
  <2>2. \A p, q \in 1 .. m : p < q \/ q < p \/ p = q
    OBVIOUS
  <2> HIDE DEF rows, m
  <2> QED
    BY <1>2, <2>1, <2>2
<1> HIDE DEF rows
<1>4. S \in SUBSET Int /\ Scored(score, S)
  OBVIOUS
<1>5. CASE rows = <<>>
  <2>1. F = {}
    <3>1. m = 0
      BY <1>2, <1>5
    <3> QED
      BY <1>2, <3>1
  <2>2. E \cup F = E
    BY <2>1
  <2> QED
    BY <1>1, <1>5, <2>2
<1>6. CASE rows # <<>>
  <2>1. /\ best \in Seq(Hits) /\ n \in Nat
        /\ \A i \in 1 .. n : best[i].row \in E /\ best[i].score = score[best[i].row]
        /\ \A i, j \in 1 .. n : i < j => Better(score, best[i].row, best[j].row)
        /\ n = Least(limit, Cardinality(E))
        /\ \A row \in E \ {best[i].row : i \in 1 .. n} :
             n = limit /\ \A i \in 1 .. n : Better(score, best[i].row, row)
    BY DEF Top
  <2>2. /\ hits \in Seq(Hits) /\ Len(hits) = m
        /\ \A i \in 1 .. m : hits[i].row = rows[i] /\ hits[i].score = score[rows[i]]
    <3>1. DOMAIN rows = 1 .. m
      BY <1>2
    <3>2. ASSUME NEW i \in 1 .. m PROVE [row |-> rows[i], score |-> score[rows[i]]] \in Hits
      <4>1. rows[i] \in F
        BY <1>2
      <4>2. rows[i] \in Int /\ score[rows[i]] \in Int
        BY <4>1 DEF Scored
      <4> QED
        BY <4>2 DEF Hits
    <3>3. hits \in [1 .. m -> Hits]
      BY <3>1, <3>2
    <3>4. \A i \in 1 .. m : hits[i].row = rows[i] /\ hits[i].score = score[rows[i]]
      BY <3>1
    <3> HIDE DEF hits, m
    <3> QED
      BY <1>2, <3>3, <3>4
  <2>3. best \in Seq(Hits) /\ hits \in Seq(Hits)
    BY <2>1, <2>2
  <2> HIDE DEF hits, n, m
  <2>4. /\ best \o hits \in Seq(Hits) /\ Len(best \o hits) = Len(best) + Len(hits)
        /\ \A i \in 1 .. Len(best) : (best \o hits)[i] = best[i]
        /\ \A i \in 1 .. Len(hits) : (best \o hits)[Len(best) + i] = hits[i]
    BY <2>3, JoinIs
  <2>5. /\ H \in Seq(Hits) /\ Len(H) = n + m
        /\ \A i \in 1 .. n : H[i] = best[i]
        /\ \A i \in 1 .. m : H[n + i] = hits[i]
    BY <2>2, <2>4 DEF n
  <2> HIDE DEF H
  <2> DEFINE N == n + m
  <2>6. N \in Nat /\ H \in [1 .. N -> Hits]
    BY <1>2, <2>1, <2>5
  <2>7. \A i \in 1 .. N : i \in 1 .. n \/ (i - n \in 1 .. m /\ n + (i - n) = i)
    BY <1>2, <2>1
  <2>8. \A i \in 1 .. m : /\ H[n + i].row = rows[i] /\ rows[i] \in F
                          /\ H[n + i].score = score[H[n + i].row]
    BY <1>2, <2>2, <2>5
  <2>9. \A i \in 1 .. n : H[i].row = best[i].row /\ H[i].row \in E /\ H[i].score = score[H[i].row]
    BY <2>1, <2>5
  <2>10. \A i \in 1 .. N : H[i].row \in S /\ H[i].score = score[H[i].row]
    BY <2>7, <2>8, <2>9
  <2>11. \A i, j \in 1 .. n : i # j => H[i].row # H[j].row
    <3>1. \A i, j \in 1 .. n : i # j => Better(score, best[i].row, best[j].row)
                                          \/ Better(score, best[j].row, best[i].row)
      BY <2>1
    <3>2. \A x \in S : ~ Better(score, x, x)
      BY <1>4, BetterOrders
    <3> QED
      BY <2>1, <2>9, <3>1, <3>2
  <2>12. ASSUME NEW i \in 1 .. N, NEW j \in 1 .. N, i # j
         PROVE  H[i].row # H[j].row
    <3>1. CASE i \in 1 .. n /\ j \in 1 .. n
      BY <2>11, <2>12, <3>1
    <3>2. CASE i \in 1 .. n /\ j \notin 1 .. n
      <4>1. H[i].row \in E
        BY <2>9, <3>2
      <4>2. H[j].row \in F
        BY <2>7, <2>8, <3>2
      <4> QED
        BY <4>1, <4>2
    <3>3. CASE i \notin 1 .. n /\ j \in 1 .. n
      <4>1. H[j].row \in E
        BY <2>9, <3>3
      <4>2. H[i].row \in F
        BY <2>7, <2>8, <3>3
      <4> QED
        BY <4>1, <4>2
    <3>4. CASE i \notin 1 .. n /\ j \notin 1 .. n
      <4>1. /\ i - n \in 1 .. m /\ j - n \in 1 .. m
            /\ n + (i - n) = i /\ n + (j - n) = j
        BY <2>7, <3>4
      <4>2. i - n # j - n
        BY <2>12, <4>1
      <4>3. H[i].row = rows[i - n] /\ H[j].row = rows[j - n]
        BY <2>8, <4>1
      <4> QED
        BY <1>3, <4>1, <4>2, <4>3
    <3> QED
      BY <3>1, <3>2, <3>3, <3>4
  <2> HIDE DEF S, N
  <2>23. HitsOfRows(H, N, S, score)
    BY <2>10, <2>12 DEF HitsOfRows
  <2>24. PICK order : SortsHits(order, H, N, score)
    BY <1>4, <2>6, <2>23, HitsSorted
  <2>13. /\ order \in [1 .. N -> 1 .. N]
         /\ Sorted(H, ScanKey) = [p \in 1 .. N |-> H[order[p]]]
         /\ \A i \in 1 .. N : \E p \in 1 .. N : order[p] = i
         /\ \A p, q \in 1 .. N : p < q => Better(score, H[order[p]].row, H[order[q]].row)
    BY <2>24 DEF SortsHits
  <2> DEFINE sorted == Sorted(H, ScanKey)
  <2> DEFINE L == Least(limit, N)
  <2>14. sorted \in [1 .. N -> Hits] /\ \A p \in 1 .. N : sorted[p] = H[order[p]]
    BY <2>6, <2>13
  <2> HIDE DEF sorted
  <2>25. N \in Nat /\ sorted \in [1 .. N -> Hits]
    BY <2>6, <2>14
  <2>15. /\ First(limit, sorted) \in [1 .. Least(limit, N) -> Hits]
         /\ Least(limit, N) \in Nat /\ Least(limit, N) <= N /\ Least(limit, N) <= limit
         /\ \A i \in 1 .. Least(limit, N) : First(limit, sorted)[i] = sorted[i]
    <3>1. IsList(sorted, N, Hits)
      BY <2>25 DEF IsList
    <3> HIDE DEF N
    <3>2. /\ IsList(First(limit, sorted), Least(limit, N), Hits)
          /\ Least(limit, N) \in Nat /\ Least(limit, N) <= N /\ Least(limit, N) <= limit
          /\ \A i \in 1 .. Least(limit, N) : First(limit, sorted)[i] = sorted[i]
      BY <2>25, <3>1, FirstOfList
    <3> QED
      BY <3>2 DEF IsList
  <2>16. /\ res \in [1 .. L -> Hits] /\ L \in Nat /\ L <= N /\ L <= limit
         /\ \A p \in 1 .. L : p \in 1 .. N /\ res[p] = H[order[p]] /\ order[p] \in 1 .. N
    <3>1. res = First(limit, sorted)
      BY DEF sorted
    <3>2. L \in Nat /\ L <= N /\ L <= limit
      BY <2>15
    <3>3. \A p \in 1 .. L : p \in 1 .. N
      BY <2>6, <3>2
    <3> HIDE DEF res
    <3> QED
      BY <2>13, <2>14, <2>15, <3>1, <3>2, <3>3
  <2> HIDE DEF res
  <2>17. res \in Seq(Hits) /\ Len(res) = L
    <3> HIDE DEF L
    <3> QED
      BY <2>16
  <2>18. \A i \in 1 .. L : res[i].row \in S /\ res[i].score = score[res[i].row]
    BY <2>10, <2>16
  <2>19. \A i, j \in 1 .. L : i < j => Better(score, res[i].row, res[j].row)
    <3>1. \A p, q \in 1 .. N : p < q => Better(score, H[order[p]].row, H[order[q]].row)
      BY <2>13
    <3>2. \A p \in 1 .. L : p \in 1 .. N /\ res[p] = H[order[p]]
      BY <2>16
    <3> HIDE DEF L
    <3> QED
      BY <3>1, <3>2
  <2>20. L = Least(limit, Cardinality(S))
    <3>1. Cardinality(E) \in Nat /\ Cardinality(S) = Cardinality(E) + m
      <4>1. Cardinality(E \cap F) = 0
        BY FS_EmptySet
      <4>2. Cardinality(E) \in Nat
        BY FS_CardinalityType
      <4>3. Cardinality(E \cup F) = Cardinality(E) + Cardinality(F) - Cardinality(E \cap F)
        BY FS_Union
      <4>4. Cardinality(F) \in Nat
        BY FS_CardinalityType
      <4> QED
        BY <4>1, <4>2, <4>3, <4>4 DEF S, m
    <3> QED
      BY <1>2, <2>1, <3>1 DEF Least, N
  <2>21. ASSUME NEW row \in S \ {res[i].row : i \in 1 .. L}
         PROVE  L = limit /\ \A i \in 1 .. L : Better(score, res[i].row, row)
    <3>1. CASE row \in {H[i].row : i \in 1 .. N}
      <4>1. PICK k \in 1 .. N : row = H[k].row
        BY <3>1
      <4>2. PICK p \in 1 .. N : order[p] = k
        BY <2>13
      <4>3. p \notin 1 .. L
        BY <2>16, <2>21, <4>1, <4>2
      <4>4. L < p /\ \A i \in 1 .. L : i < p
        BY <2>6, <2>16, <4>3
      <4>5. L = limit
        BY <2>6, <2>16, <4>4 DEF Least
      <4> QED
        BY <2>13, <2>16, <4>1, <4>2, <4>4, <4>5
    <3>2. CASE row \notin {H[i].row : i \in 1 .. N}
      <4>1. row \notin F
        <5>1. ASSUME row \in F PROVE FALSE
          <6>1. PICK p \in 1 .. m : rows[p] = row
            BY <1>2, <5>1
          <6>2. n + p \in 1 .. N /\ H[n + p].row = row
            BY <1>2, <2>1, <2>8, <6>1 DEF N
          <6> QED
            BY <3>2, <6>2
        <5> QED
          BY <5>1
      <4>2. row \in E /\ row \notin {best[i].row : i \in 1 .. n}
        <5>1. \A i \in 1 .. n : i \in 1 .. N
          BY <1>2, <2>1 DEF N
        <5> QED
          BY <2>9, <2>21, <3>2, <4>1, <5>1 DEF S
      <4>3. n = limit /\ \A i \in 1 .. n : Better(score, H[i].row, row)
        BY <2>1, <2>9, <4>2
      <4>4. L = limit
        BY <1>2, <4>3 DEF L, Least, N
      <4>5. ASSUME NEW r \in 1 .. L PROVE Better(score, res[r].row, row)
        <5> DEFINE x == res[r].row
        <5>1. x \in S /\ row \in S /\ r \in 1 .. N /\ x = H[order[r]].row
          BY <2>16, <2>18
        <5>2. x # row
          BY <2>21
        <5> HIDE DEF x
        <5>3. ASSUME ~ Better(score, x, row) PROVE FALSE
          <6>1. Better(score, row, x)
            BY <1>4, <5>1, <5>2, <5>3, BetterOrders
          <6>2. \A i \in 1 .. n : H[i].row \in S
            BY <2>9 DEF S
          <6>3. \A i \in 1 .. n : Better(score, H[i].row, x)
            <7> SUFFICES ASSUME NEW i \in 1 .. n PROVE Better(score, H[i].row, x)
              OBVIOUS
            <7> DEFINE y == H[i].row
            <7>1. y \in S /\ Better(score, y, row)
              BY <4>3, <6>2
            <7> HIDE DEF y
            <7>2. Better(score, y, x)
              BY <1>4, <5>1, <6>1, <7>1, BetterOrders
            <7> QED
              BY <7>2 DEF y
          <6> DEFINE f == [i \in 1 .. n |-> CHOOSE p \in 1 .. N : order[p] = i]
          <6>4. \A i \in 1 .. n : f[i] \in 1 .. N /\ order[f[i]] = i
            <7>1. \A i \in 1 .. n : i \in 1 .. N
              BY <1>2, <2>1 DEF N
            <7> QED
              BY <2>13, <7>1
          <6>5. f = [i \in 1 .. n |-> f[i]]
            OBVIOUS
          <6> HIDE DEF f
          <6>6. \A i \in 1 .. n : f[i] < r
            <7> SUFFICES ASSUME NEW i \in 1 .. n PROVE f[i] < r
              OBVIOUS
            <7>1. f[i] \in 1 .. N /\ order[f[i]] = i /\ Better(score, H[i].row, x) /\ H[i].row \in S
              BY <6>2, <6>3, <6>4
            <7> DEFINE y == H[i].row
            <7>5. y \in S /\ Better(score, y, x)
              BY <7>1
            <7> HIDE DEF y
            <7>6. ~ Better(score, x, y) /\ ~ Better(score, x, x)
              BY <1>4, <5>1, <7>5, BetterOrders
            <7>2. ~ Better(score, x, H[i].row) /\ ~ Better(score, x, x)
              BY <7>6 DEF y
            <7>3. f[i] # r
              BY <5>1, <7>1, <7>2
            <7>4. ~ (r < f[i])
              BY <2>13, <5>1, <7>1, <7>2
            <7> QED
              BY <5>1, <7>1, <7>3, <7>4
          <6>7. f \in [1 .. n -> 1 .. (r - 1)]
            <7>1. \A i \in 1 .. n : f[i] \in 1 .. (r - 1)
              BY <5>1, <6>4, <6>6
            <7> QED
              BY <6>5, <7>1
          <6>10. PICK i \in 1 .. n, j \in 1 .. n : i # j /\ f[i] = f[j]
            <7> DEFINE k == r - 1
            <7>1. k \in Nat /\ k < n /\ n \in Nat
              BY <2>1, <4>3, <4>4, <5>1
            <7>2. IsList(f, n, 1 .. k)
              BY <6>7 DEF IsList
            <7> HIDE DEF k
            <7> QED
              BY <7>1, <7>2, NoRoom
          <6> QED
            BY <6>4, <6>10
        <5> QED
          BY <5>3 DEF x
      <4> QED
        BY <4>4, <4>5
    <3> QED
      BY <3>1, <3>2
  <2>22. Top(res, S, score, limit)
    <3> HIDE DEF L
    <3> QED
      BY <2>17, <2>18, <2>19, <2>20, <2>21 DEF Top
  <2> QED
    BY <1>1, <1>6, <2>22 DEF S, res
<1> QED
  BY <1>5, <1>6

-----------------------------------------------------------------------------
(* Finite sets.                                                            *)

(* The image of a finite set is finite. *)
LEMMA ImageFinite ==
    ASSUME NEW S, IsFiniteSet(S), NEW f
    PROVE  IsFiniteSet({f[x] : x \in S})
<1> DEFINE C == {A \in SUBSET S : IsFiniteSet({f[x] : x \in A})}
<1>1. {} \in C
  <2>1. {f[x] : x \in {}} = {}
    OBVIOUS
  <2> QED
    BY <2>1, FS_EmptySet
<1>2. ASSUME NEW A \in SUBSET S, A \in C, NEW z \in S \ A PROVE A \cup {z} \in C
  <2>1. IsFiniteSet({f[x] : x \in A})
    BY <1>2
  <2>2. {f[x] : x \in A \cup {z}} = {f[x] : x \in A} \cup {f[z]}
    OBVIOUS
  <2>3. IsFiniteSet({f[x] : x \in A} \cup {f[z]})
    BY <2>1, FS_AddElement
  <2> QED
    BY <2>2, <2>3
<1> HIDE DEF C
<1>3. S \in C
  BY <1>1, <1>2, FiniteInduction
<1> QED
  BY <1>3 DEF C

(* The positions in the parts 1 .. n, f[p] those of part p.                *)
Positions(f, n) == UNION {{p} \X f[p] : p \in 1 .. n}
Intervals(f, n) == \A p \in 1 .. n : f[p] \in SUBSET Int /\ IsFiniteSet(f[p])

(* The words of finitely many intervals are finitely many pairs. *)
LEMMA PositionsFinite ==
    ASSUME NEW n \in Nat, NEW f, Intervals(f, n)
    PROVE  IsFiniteSet(Positions(f, n)) /\ Positions(f, n) \in SUBSET Tuples(2)
<1> USE DEF Intervals
<1> DEFINE g == [p \in 1 .. n |-> {p} \X f[p]]
<1> DEFINE G == {g[p] : p \in 1 .. n}
<1>1. IsFiniteSet(1 .. n)
  BY FS_Interval, 1 \in Int, n \in Int
<1>2. \A p \in 1 .. n : g[p] = {p} \X f[p]
  OBVIOUS
<1>3. \A p \in 1 .. n : IsFiniteSet({p} \X f[p])
  BY FS_Singleton, FS_Product
<1>4. Positions(f, n) = UNION G
  BY DEF Positions
<1> HIDE DEF g
<1>5. IsFiniteSet(G)
  BY <1>1, ImageFinite
<1>6. \A T \in G : IsFiniteSet(T)
  BY <1>2, <1>3
<1> HIDE DEF G
<1>7. IsFiniteSet(UNION G)
  BY <1>5, <1>6, FS_UNION
<1>8. Positions(f, n) \in SUBSET Tuples(2)
  <2> SUFFICES ASSUME NEW p \in 1 .. n, NEW x \in {p} \X f[p] PROVE x \in Tuples(2)
    BY DEF Positions
  <2>1. PICK i \in f[p] : x = <<p, i>>
    OBVIOUS
  <2>2. p \in Int /\ i \in Int
    OBVIOUS
  <2> QED
    BY <2>1, <2>2 DEF Tuples
<1> QED
  BY <1>4, <1>7, <1>8

(* The first of some positions.                                            *)
LEMMA SmallestIs ==
    ASSUME NEW w \in Nat, NEW S \in SUBSET Tuples(w), IsFiniteSet(S), S # {}
    PROVE  /\ SmallestBy(S, LAMBDA x : x) \in S
           /\ \A y \in S : y = SmallestBy(S, LAMBDA x : x) \/ Before(SmallestBy(S, LAMBDA x : x), y)
<1> DEFINE key == [x \in S |-> x]
<1>1. key \in [S -> Tuples(w)] /\ \A x \in S : key[x] = x
  OBVIOUS
<1>2. \A x, y \in S : key[x] = key[y] => x = y
  OBVIOUS
<1> HIDE DEF key
<1>3. \E x \in S : \A y \in S \ {x} : Before(key[x], key[y])
  BY <1>1, <1>2, SmallestExists
<1>4. \E x \in S : \A y \in S \ {x} : Before(x, y)
  BY <1>1, <1>3
<1> QED
  BY <1>4 DEF SmallestBy

(* A sequence with one element more.                                       *)
LEMMA AppendIs ==
    ASSUME NEW T, NEW s \in Seq(T), NEW x \in T
    PROVE  /\ Append(s, x) \in Seq(T) /\ Len(Append(s, x)) = Len(s) + 1 /\ Len(s) \in Nat
           /\ \A i \in 1 .. Len(s) : Append(s, x)[i] = s[i]
           /\ Append(s, x)[Len(s) + 1] = x
           /\ \A i \in 1 .. Len(s) + 1 : i = Len(s) + 1 \/ i \in 1 .. Len(s)
OBVIOUS

-----------------------------------------------------------------------------
(* Sorting by tuples.                                                      *)

(* order is the order of the positions 1 .. n by their keys.               *)
SortsBy(order, n, keys) ==
  /\ order \in [1 .. n -> 1 .. n]
  /\ \A i \in 1 .. n : \E p \in 1 .. n : order[p] = i
  /\ \A p, q \in 1 .. n : order[p] = order[q] => p = q
  /\ \A p, q \in 1 .. n : p < q <=> Precede(keys, order[p], order[q])

(* SortingOf is a permutation that puts the keys in order. *)
LEMMA SortingIs ==
    ASSUME NEW n \in Nat, NEW w \in Nat, NEW keys, IsList(keys, n, Tuples(w))
    PROVE  SortsBy(SortingOf(keys), n, keys)
<1>1. keys \in [1 .. n -> Tuples(w)]
  BY DEF IsList
<1>2. /\ SortingOf(keys) \in [1 .. n -> 1 .. n]
      /\ \A i \in 1 .. n : \E p \in 1 .. n : SortingOf(keys)[p] = i
      /\ \A p, q \in 1 .. n : SortingOf(keys)[p] = SortingOf(keys)[q] => p = q
      /\ \A p, q \in 1 .. n : p < q <=> Precede(keys, SortingOf(keys)[p], SortingOf(keys)[q])
  BY <1>1, SortingSorts
<1> QED
  BY <1>2 DEF SortsBy

(* The members of a set in the order of themselves.                        *)
LEMMA CollapsedIs ==
    ASSUME NEW w \in Nat, NEW S \in SUBSET Tuples(w), IsFiniteSet(S)
    PROVE  /\ Sorted(SetToSeq(S), LAMBDA x : x) \in [1 .. Cardinality(S) -> S]
           /\ Cardinality(S) \in Nat
           /\ \A x \in S : \E p \in 1 .. Cardinality(S) :
                Sorted(SetToSeq(S), LAMBDA y : y)[p] = x
<1> DEFINE n == Cardinality(S)
<1> DEFINE s == SetToSeq(S)
<1> DEFINE keys == [i \in 1 .. n |-> s[i]]
<1> DEFINE order == SortingOf(keys)
<1> DEFINE out == Sorted(s, LAMBDA x : x)
<1>1. /\ n \in Nat /\ s \in [1 .. n -> S]
      /\ \A p, q \in 1 .. n : s[p] = s[q] => p = q
      /\ \A x \in S : \E p \in 1 .. n : s[p] = x
  BY SetToSeqIs
<1> HIDE DEF n, s
<1>2. DOMAIN s = 1 .. n
  BY <1>1
<1>3. out = [p \in 1 .. n |-> s[order[p]]]
  BY <1>2 DEF Sorted
<1>4. IsList(keys, n, Tuples(w))
  BY <1>1 DEF IsList
<1> HIDE DEF keys
<1>5. SortsBy(order, n, keys)
  BY <1>1, <1>4, SortingIs
<1> HIDE DEF order, out
<1>6. /\ order \in [1 .. n -> 1 .. n]
      /\ \A i \in 1 .. n : \E p \in 1 .. n : order[p] = i
  BY <1>5 DEF SortsBy
<1>7. out \in [1 .. n -> S]
  BY <1>1, <1>3, <1>6
<1>8. \A x \in S : \E p \in 1 .. n : out[p] = x
  BY <1>1, <1>3, <1>6
<1> QED
  BY <1>1, <1>7, <1>8 DEF n, s, out

(* One tuple behind another.                                               *)
LEMMA TupleJoin ==
    ASSUME NEW a \in Nat, NEW b \in Nat, NEW s \in Tuples(a), NEW t \in Tuples(b)
    PROVE  s \o t \in Tuples(a + b)
<1>1. s \in Seq(Int) /\ t \in Seq(Int) /\ Len(s) = a /\ Len(t) = b
  BY DEF Tuples
<1> DEFINE u == s \o t
<1>2. u \in Seq(Int) /\ Len(u) = a + b
  BY <1>1
<1> HIDE DEF u
<1>3. u \in [1 .. Len(u) -> Int]
  BY <1>2
<1>4. u \in [1 .. a + b -> Int]
  BY <1>2, <1>3
<1> QED
  BY <1>4 DEF Tuples, u

-----------------------------------------------------------------------------
(* The hits of a channel for a chunk.                                      *)

LexicalHitsOf(C) == [chunk : C, rank : Int]
SemanticHitsOf(C, S) == [chunk : C, span : S, rank : Int]

(* The hits of a chunk, and the chunks of a list of hits, are finite. *)
LEMMA HitsOfFinite ==
    ASSUME NEW n \in Nat, NEW hits, DOMAIN hits = 1 .. n, NEW chunk
    PROVE  IsFiniteSet(HitsOf(hits, chunk)) /\ IsFiniteSet(ChunksOf(hits))
<1>1. IsFiniteSet(1 .. n)
  BY FS_Interval, 1 \in Int, n \in Int
<1>2. IsFiniteSet({hits[i] : i \in 1 .. n})
  BY <1>1, ImageFinite
<1>3. HitsOf(hits, chunk) \subseteq {hits[i] : i \in 1 .. n}
  BY DEF HitsOf, ToSet
<1>4. IsFiniteSet(HitsOf(hits, chunk))
  BY <1>2, <1>3, FS_Subset
<1> DEFINE f == [i \in 1 .. n |-> hits[i].chunk]
<1>5. IsFiniteSet({f[i] : i \in 1 .. n})
  BY <1>1, ImageFinite
<1>6. ChunksOf(hits) = {f[i] : i \in 1 .. n}
  BY DEF ChunksOf
<1> QED
  BY <1>4, <1>5, <1>6

(* The lexical representative of a chunk is its hit of least rank. *)
LEMMA LexicalRepresentativeIs ==
    ASSUME NEW C, NEW n \in Nat, NEW hits \in [1 .. n -> LexicalHitsOf(C)],
           NEW chunk \in ChunksOf(hits)
    PROVE  /\ LexicalRepresentative(hits, chunk) \in HitsOf(hits, chunk)
           /\ LexicalRepresentative(hits, chunk).rank \in Int
           /\ \A h \in HitsOf(hits, chunk) : LexicalRepresentative(hits, chunk).rank <= h.rank
<1> DEFINE S == HitsOf(hits, chunk)
<1> DEFINE key == [h \in S |-> <<h.rank>>]
<1> DEFINE best == LexicalRepresentative(hits, chunk)
<1>1. DOMAIN hits = 1 .. n /\ \A i \in 1 .. n : hits[i] \in LexicalHitsOf(C)
  BY Zenon
<1>2. IsFiniteSet(S)
  BY <1>1, HitsOfFinite
<1>3. S # {}
  <2>1. PICK i \in 1 .. n : chunk = hits[i].chunk
    BY <1>1 DEF ChunksOf
  <2> QED
    BY <1>1, <2>1 DEF HitsOf, ToSet
<1>4. \A h \in S : h \in LexicalHitsOf(C) /\ h.chunk = chunk
  BY <1>1 DEF HitsOf, ToSet
<1>5. best = CHOOSE x \in S : \A y \in S \ {x} : Before(<<x.rank>>, <<y.rank>>)
  BY DEF LexicalRepresentative, SmallestBy
<1> HIDE DEF S, best
<1>6. \A h \in S : h.rank \in Int /\ h = [chunk |-> chunk, rank |-> h.rank]
  BY <1>4 DEF LexicalHitsOf
<1>7. \A h \in S : key[h] = <<h.rank>>
  OBVIOUS
<1>8. key \in [S -> Tuples(1)]
  <2>1. ASSUME NEW h \in S PROVE <<h.rank>> \in Tuples(1)
    <3> DEFINE r == h.rank
    <3>1. r \in Int
      BY <1>6
    <3> HIDE DEF r
    <3>2. <<r>> = [j \in 1 .. 1 |-> r]
      OBVIOUS
    <3>3. <<r>> \in Tuples(1)
      BY <3>1, <3>2 DEF Tuples
    <3> QED
      BY <3>3 DEF r
  <2> QED
    BY <2>1
<1>9. \A x, y \in S : key[x] = key[y] => x = y
  <2> SUFFICES ASSUME NEW x \in S, NEW y \in S, key[x] = key[y] PROVE x = y
    OBVIOUS
  <2>1. x.rank = y.rank
    BY <1>7
  <2> QED
    BY <1>6, <2>1
<1> HIDE DEF key
<1>10. \E x \in S : \A y \in S \ {x} : Before(key[x], key[y])
  BY <1>2, <1>3, <1>8, <1>9, SmallestExists, 1 \in Nat
<1>11. \E x \in S : \A y \in S \ {x} : Before(<<x.rank>>, <<y.rank>>)
  BY <1>7, <1>10
<1>12. best \in S /\ \A y \in S \ {best} : Before(<<best.rank>>, <<y.rank>>)
  BY <1>5, <1>11
<1>13. \A h \in S : best.rank <= h.rank
  <2> SUFFICES ASSUME NEW h \in S, h # best PROVE best.rank <= h.rank
    BY <1>6, <1>12
  <2> DEFINE a == best.rank
  <2> DEFINE b == h.rank
  <2>1. a \in Int /\ b \in Int /\ Before(<<a>>, <<b>>)
    BY <1>6, <1>12
  <2> HIDE DEF a, b
  <2>2. a < b
    BY <2>1, BeforeOfOne
  <2> QED
    BY <2>1, <2>2 DEF a, b
<1> QED
  BY <1>6, <1>12, <1>13 DEF S, best

(* The semantic representative of a chunk is its hit of least rank. *)
LEMMA SemanticRepresentativeIs ==
    ASSUME NEW C, NEW S \in SUBSET Int, NEW n \in Nat, NEW hits \in [1 .. n -> SemanticHitsOf(C, S)],
           NEW chunk \in ChunksOf(hits)
    PROVE  /\ SemanticRepresentative(hits, chunk) \in HitsOf(hits, chunk)
           /\ SemanticRepresentative(hits, chunk).rank \in Int
           /\ SemanticRepresentative(hits, chunk).span \in S
           /\ \A h \in HitsOf(hits, chunk) : SemanticRepresentative(hits, chunk).rank <= h.rank
<1> DEFINE H == HitsOf(hits, chunk)
<1> DEFINE key == [h \in H |-> <<h.rank, h.span>>]
<1> DEFINE best == SemanticRepresentative(hits, chunk)
<1>1. DOMAIN hits = 1 .. n /\ \A i \in 1 .. n : hits[i] \in SemanticHitsOf(C, S)
  BY Zenon
<1>2. IsFiniteSet(H)
  BY <1>1, HitsOfFinite
<1>3. H # {}
  <2>1. PICK i \in 1 .. n : chunk = hits[i].chunk
    BY <1>1 DEF ChunksOf
  <2> QED
    BY <1>1, <2>1 DEF HitsOf, ToSet
<1>4. \A h \in H : h \in SemanticHitsOf(C, S) /\ h.chunk = chunk
  BY <1>1 DEF HitsOf, ToSet
<1>5. best = CHOOSE x \in H : \A y \in H \ {x} : Before(<<x.rank, x.span>>, <<y.rank, y.span>>)
  BY DEF SemanticRepresentative, SmallestBy
<1> HIDE DEF H, best
<1>6. \A h \in H : /\ h.rank \in Int /\ h.span \in S /\ h.span \in Int
                   /\ h = [chunk |-> chunk, span |-> h.span, rank |-> h.rank]
  BY <1>4 DEF SemanticHitsOf
<1>7. \A h \in H : key[h] = <<h.rank, h.span>>
  OBVIOUS
<1>8. key \in [H -> Tuples(2)]
  <2>1. ASSUME NEW h \in H PROVE <<h.rank, h.span>> \in Tuples(2)
    <3> DEFINE r == h.rank
    <3> DEFINE q == h.span
    <3>1. r \in Int /\ q \in Int
      BY <1>6
    <3> HIDE DEF r, q
    <3>2. <<r, q>> = [j \in 1 .. 2 |-> IF j = 1 THEN r ELSE q]
      OBVIOUS
    <3>3. <<r, q>> \in Tuples(2)
      BY <3>1, <3>2 DEF Tuples
    <3> QED
      BY <3>3 DEF r, q
  <2> QED
    BY <2>1
<1>9. \A x, y \in H : key[x] = key[y] => x = y
  <2> SUFFICES ASSUME NEW x \in H, NEW y \in H, key[x] = key[y] PROVE x = y
    OBVIOUS
  <2>1. <<x.rank, x.span>> = <<y.rank, y.span>>
    BY <1>7
  <2>2. x.rank = y.rank /\ x.span = y.span
    BY <2>1
  <2> QED
    BY <1>6, <2>2
<1> HIDE DEF key
<1>10. \E x \in H : \A y \in H \ {x} : Before(key[x], key[y])
  BY <1>2, <1>3, <1>8, <1>9, SmallestExists, 2 \in Nat
<1>11. \E x \in H : \A y \in H \ {x} : Before(<<x.rank, x.span>>, <<y.rank, y.span>>)
  BY <1>7, <1>10
<1>12. best \in H /\ \A y \in H \ {best} : Before(<<best.rank, best.span>>, <<y.rank, y.span>>)
  BY <1>5, <1>11
<1>13. \A h \in H : best.rank <= h.rank
  <2> SUFFICES ASSUME NEW h \in H, h # best PROVE best.rank <= h.rank
    BY <1>6, <1>12
  <2> DEFINE a == best.rank
  <2> DEFINE b == h.rank
  <2> DEFINE k == <<a, best.span>>
  <2> DEFINE l == <<b, h.span>>
  <2>1. a \in Int /\ b \in Int /\ Before(k, l)
    BY <1>6, <1>12
  <2>2. k[1] = a /\ l[1] = b /\ DOMAIN k = 1 .. 2
    OBVIOUS
  <2> HIDE DEF a, b, k, l
  <2>3. PICK i \in 1 .. 2 : k[i] < l[i] /\ \A j \in 1 .. (i - 1) : k[j] = l[j]
    BY <2>1, <2>2 DEF Before
  <2>4. CASE i = 1
    BY <2>1, <2>2, <2>3, <2>4 DEF a, b
  <2>5. CASE i = 2
    <3>1. 1 \in 1 .. (i - 1)
      BY <2>5
    <3>2. k[1] = l[1]
      BY <2>3, <3>1
    <3> QED
      BY <2>1, <2>2, <3>2 DEF a, b
  <2> QED
    BY <2>4, <2>5
<1> QED
  BY <1>6, <1>12, <1>13 DEF H, best

(* A candidate of the fusion.                                              *)
Candidates(C, S) == [chunk : C, lexical : Int, semantic : Int, span : Int]

CandidateOK(c, S) == c.semantic # Missing => c.span \in S

(* The fused candidate of a chunk has that chunk, and a channel that gave it. *)
LEMMA CandidateForIs ==
    ASSUME NEW C, NEW S \in SUBSET Int, NEW n \in Nat, NEW m \in Nat,
           NEW lexical, IsList(lexical, n, LexicalHitsOf(C)),
           NEW semantic, IsList(semantic, m, SemanticHitsOf(C, S)),
           NEW chunk \in C
    PROVE  /\ CandidateFor(chunk, lexical, semantic) \in Candidates(C, S)
           /\ CandidateOK(CandidateFor(chunk, lexical, semantic), S)
           /\ CandidateFor(chunk, lexical, semantic).chunk = chunk
<1> DEFINE inLexical == chunk \in ChunksOf(lexical)
<1> DEFINE inSemantic == chunk \in ChunksOf(semantic)
<1> DEFINE best == SemanticRepresentative(semantic, chunk)
<1> DEFINE l == IF inLexical THEN LexicalRepresentative(lexical, chunk).rank ELSE Missing
<1> DEFINE s == IF inSemantic THEN best.rank ELSE Missing
<1> DEFINE p == IF inSemantic THEN best.span ELSE 0
<1> DEFINE c == CandidateFor(chunk, lexical, semantic)
<1>0. lexical \in [1 .. n -> LexicalHitsOf(C)] /\ semantic \in [1 .. m -> SemanticHitsOf(C, S)]
  BY DEF IsList
<1>1. c = [chunk |-> chunk, lexical |-> l, semantic |-> s, span |-> p]
  BY DEF CandidateFor
<1>2. inLexical => LexicalRepresentative(lexical, chunk).rank \in Int
  BY <1>0, LexicalRepresentativeIs
<1>3. inSemantic => best.rank \in Int /\ best.span \in S
  BY <1>0, SemanticRepresentativeIs
<1>4. l \in Int /\ s \in Int /\ p \in Int /\ (s # Missing => p \in S)
  <2> DEFINE x == LexicalRepresentative(lexical, chunk).rank
  <2> DEFINE y == best.rank
  <2> DEFINE z == best.span
  <2>1. inLexical => x \in Int
    BY <1>2
  <2>2. inSemantic => y \in Int /\ z \in S /\ z \in Int
    BY <1>3
  <2> HIDE DEF inLexical, inSemantic, best, x, y, z
  <2>3. Missing \in Int /\ 0 \in Int
    BY DEF Missing
  <2>4. l = (IF inLexical THEN x ELSE Missing) /\ s = (IF inSemantic THEN y ELSE Missing)
        /\ p = (IF inSemantic THEN z ELSE 0)
    BY DEF x, y, z
  <2> HIDE DEF l, s, p
  <2> QED
    BY <2>1, <2>2, <2>3, <2>4
<1> HIDE DEF l, s, p, c
<1>5. c.chunk = chunk /\ c.semantic = s /\ c.span = p
  BY <1>1
<1>6. c \in Candidates(C, S)
  BY <1>1, <1>4 DEF Candidates
<1>7. CandidateOK(c, S)
  BY <1>4, <1>5 DEF CandidateOK
<1> QED
  BY <1>5, <1>6, <1>7 DEF c

(* The final order key of a candidate is a tuple of fixed length. *)
LEMMA FinalOrderKeyIs ==
    ASSUME NEW w \in Nat, NEW C \in SUBSET Tuples(w), NEW S, NEW c \in Candidates(C, S)
    PROVE  FinalOrderKey(c) \in Tuples(5 + w)
<1> DEFINE a == Shares(c)
<1> DEFINE b == Channels(c)
<1> DEFINE l == c.lexical
<1> DEFINE s == c.semantic
<1> DEFINE k == <<- a, Least(l, s), - b, l, s>>
<1>1. FinalOrderKey(c) = k \o c.chunk
  BY DEF FinalOrderKey
<1>2. l \in Int /\ s \in Int /\ c.chunk \in C
  BY DEF Candidates
<1>3. a \in Nat
  <2>1. \A r : Share(FusionK, r) \in Nat
    BY ShareNat DEF FusionK
  <2> QED
    BY <2>1 DEF Shares
<1>4. b \in Nat
  <2>1. IsFiniteSet({"lexical", "semantic"})
    <3>1. IsFiniteSet({"lexical"})
      BY FS_Singleton
    <3>2. IsFiniteSet({"lexical"} \cup {"semantic"})
      BY <3>1, FS_AddElement
    <3>3. {"lexical"} \cup {"semantic"} = {"lexical", "semantic"}
      OBVIOUS
    <3> QED
      BY <3>2, <3>3
  <2>2. IsFiniteSet({f \in {"lexical", "semantic"} : c[f] # Missing})
    BY <2>1, FS_Subset
  <2> QED
    BY <2>2, FS_CardinalityType DEF Channels
<1>5. c.chunk \in Tuples(w)
  BY <1>2
<1> HIDE DEF a, b
<1>6. k \in Tuples(5)
  <2>1. \A x, y \in Int : Least(x, y) \in Int
    BY DEF Least
  <2>2. Least(l, s) \in Int
    BY <1>2, <2>1
  <2> DEFINE m == Least(l, s)
  <2> HIDE DEF m, l, s
  <2>3. - a \in Int /\ - b \in Int /\ m \in Int /\ l \in Int /\ s \in Int
    BY <1>2, <1>3, <1>4, <2>2 DEF m
  <2>4. <<- a, m, - b, l, s>> \in Tuples(5)
    BY <2>3 DEF Tuples
  <2> QED
    BY <2>4 DEF m
<1> HIDE DEF k
<1> QED
  BY <1>1, <1>5, <1>6, TupleJoin, 5 \in Nat

(* What the fusion returns: candidates of the chunks of either channel.    *)
Fused(C, S) == {c \in Candidates(C, S) : CandidateOK(c, S)}

(* The candidates of all the chunks, in their order.                       *)
AllPending(pending, k, lexical, semantic) ==
  /\ \A i \in 1 .. k : \E c \in ChunksOf(lexical) \cup ChunksOf(semantic) :
       pending[i] = CandidateFor(c, lexical, semantic)
  /\ \A c \in ChunksOf(lexical) \cup ChunksOf(semantic) :
       \E i \in 1 .. k : pending[i] = CandidateFor(c, lexical, semantic)
IsRead(out, s, order, k) == out = [p \in 1 .. k |-> s[order[p]]]
KeysOf(keys, pending, k) == keys = [i \in 1 .. k |-> FinalOrderKey(pending[i])]
FusesAs(out, k, pending, keys, order, lexical, semantic, T, w) ==
  /\ IsList(pending, k, T) /\ AllPending(pending, k, lexical, semantic)
  /\ KeysOf(keys, pending, k) /\ IsList(keys, k, Tuples(w)) /\ SortsBy(order, k, keys)
  /\ IsRead(out, pending, order, k)
FusesFrom(lexical, semantic, limit, T, w) ==
  \E k \in Nat : \E out, pending, keys, order :
    /\ FusesAs(out, k, pending, keys, order, lexical, semantic, T, w)
    /\ FuseCandidates(lexical, semantic, limit) = First(limit, out)

(* Fusion takes the first of the candidates in the order of their keys. *)
LEMMA FuseSorts ==
    ASSUME NEW w \in Nat, NEW C \in SUBSET Tuples(w), NEW S \in SUBSET Int,
           NEW n \in Nat, NEW m \in Nat,
           NEW lexical, IsList(lexical, n, LexicalHitsOf(C)),
           NEW semantic, IsList(semantic, m, SemanticHitsOf(C, S)), NEW limit \in Nat
    PROVE  FusesFrom(lexical, semantic, limit, Fused(C, S), 5 + w)
<1> DEFINE A == ChunksOf(lexical)
<1> DEFINE B == ChunksOf(semantic) \ ChunksOf(lexical)
<1> DEFINE a == Sorted(SetToSeq(A), LAMBDA x : x)
<1> DEFINE b == Sorted(SetToSeq(B), LAMBDA x : x)
<1> DEFINE chunks == a \o b
<1> DEFINE pending == [i \in DOMAIN chunks |-> CandidateFor(chunks[i], lexical, semantic)]
<1> DEFINE out == Sorted(pending, FinalOrderKey)
<1>1. FuseCandidates(lexical, semantic, limit) = First(limit, out)
  BY DEF FuseCandidates
<1>2. /\ lexical \in [1 .. n -> LexicalHitsOf(C)] /\ DOMAIN lexical = 1 .. n
      /\ semantic \in [1 .. m -> SemanticHitsOf(C, S)] /\ DOMAIN semantic = 1 .. m
  BY DEF IsList
<1>3. IsFiniteSet(ChunksOf(lexical)) /\ IsFiniteSet(ChunksOf(semantic))
  BY <1>2, HitsOfFinite
<1>4. ChunksOf(lexical) \in SUBSET C /\ ChunksOf(semantic) \in SUBSET C
  <2>1. \A h \in LexicalHitsOf(C) : h.chunk \in C
    BY DEF LexicalHitsOf
  <2>2. \A h \in SemanticHitsOf(C, S) : h.chunk \in C
    BY DEF SemanticHitsOf
  <2> QED
    BY <1>2, <2>1, <2>2 DEF ChunksOf
<1>5. /\ IsFiniteSet(A) /\ IsFiniteSet(B) /\ A \in SUBSET C /\ B \in SUBSET C
      /\ A \in SUBSET Tuples(w) /\ B \in SUBSET Tuples(w)
  <2>1. IsFiniteSet(B)
    BY <1>3, FS_Subset
  <2> QED
    BY <1>3, <1>4, <2>1
<1> HIDE DEF A, B
<1>6. /\ a \in [1 .. Cardinality(A) -> A] /\ Cardinality(A) \in Nat
      /\ \A x \in A : \E p \in 1 .. Cardinality(A) : a[p] = x
  BY <1>5, CollapsedIs
<1>7. /\ b \in [1 .. Cardinality(B) -> B] /\ Cardinality(B) \in Nat
      /\ \A x \in B : \E p \in 1 .. Cardinality(B) : b[p] = x
  BY <1>5, CollapsedIs
<1> HIDE DEF a, b
<1>8. chunks \in Seq(C)
  <2>1. a \in Seq(C) /\ b \in Seq(C)
    BY SMTT(30), <1>5, <1>6, <1>7
  <2> QED
    BY <2>1
<1> HIDE DEF chunks
<1> DEFINE k == Len(chunks)
<1>9. k \in Nat /\ DOMAIN chunks = 1 .. k /\ \A i \in 1 .. k : chunks[i] \in C
  BY <1>8
<1> HIDE DEF k
<1> DEFINE P == Fused(C, S)
<1>20. \A c \in ChunksOf(lexical) \cup ChunksOf(semantic) : \E i \in 1 .. k : chunks[i] = c
  <2> SUFFICES ASSUME NEW c \in ChunksOf(lexical) \cup ChunksOf(semantic)
               PROVE  \E i \in 1 .. k : chunks[i] = c
    OBVIOUS
  <2> DEFINE x == Cardinality(A)
  <2> DEFINE y == Cardinality(B)
  <2>1. x \in Nat /\ y \in Nat /\ a \in [1 .. x -> A] /\ b \in [1 .. y -> B]
    BY <1>6, <1>7
  <2>2. c \in A => \E i \in 1 .. x : a[i] = c
    BY <1>6
  <2>3. c \in B => \E i \in 1 .. y : b[i] = c
    BY <1>7
  <2>4. c \in A \/ c \in B
    BY DEF A, B
  <2> HIDE DEF x, y
  <2>5. a \in Seq(A) /\ b \in Seq(B) /\ Len(a) = x /\ Len(b) = y
    BY <2>1
  <2>6. k = x + y /\ (\A i \in 1 .. x : chunks[i] = a[i]) /\ \A i \in 1 .. y : chunks[x + i] = b[i]
    BY <2>1, <2>5 DEF chunks, k
  <2>7. CASE c \in A
    <3>1. PICK i \in 1 .. x : a[i] = c
      BY <2>2, <2>7
    <3> QED
      BY <2>1, <2>6, <3>1
  <2>8. CASE c \in B
    <3>1. PICK i \in 1 .. y : b[i] = c
      BY <2>3, <2>8
    <3>2. x + i \in 1 .. k /\ chunks[x + i] = c
      BY <2>1, <2>6, <3>1
    <3> QED
      BY <3>2
  <2> QED
    BY <2>4, <2>7, <2>8
<1>21. \A i \in 1 .. k : chunks[i] \in ChunksOf(lexical) \cup ChunksOf(semantic)
  <2> DEFINE U == ChunksOf(lexical) \cup ChunksOf(semantic)
  <2>1. A \subseteq U /\ B \subseteq U
    BY DEF A, B
  <2> HIDE DEF U
  <2>2. a \in Seq(U) /\ b \in Seq(U)
    BY <1>6, <1>7, <2>1
  <2>3. chunks \in Seq(U)
    BY <2>2 DEF chunks
  <2>4. \A i \in 1 .. k : chunks[i] \in U
    BY <2>3 DEF k
  <2> QED
    BY <2>4 DEF U
<1>10. \A c \in C : CandidateFor(c, lexical, semantic) \in P
  <2>1. ASSUME NEW c \in C
        PROVE  /\ CandidateFor(c, lexical, semantic) \in Candidates(C, S)
               /\ CandidateOK(CandidateFor(c, lexical, semantic), S)
               /\ CandidateFor(c, lexical, semantic).chunk = c
    BY CandidateForIs
  <2> QED
    BY <2>1 DEF Fused
<1>11. /\ pending \in [1 .. k -> P] /\ DOMAIN pending = 1 .. k
       /\ \A i \in 1 .. k : pending[i] = CandidateFor(chunks[i], lexical, semantic)
  BY <1>9, <1>10
<1> HIDE DEF pending
<1>22. AllPending(pending, k, lexical, semantic)
  BY <1>11, <1>20, <1>21 DEF AllPending
<1> DEFINE keys == [i \in 1 .. k |-> FinalOrderKey(pending[i])]
<1>12. out = [p \in 1 .. k |-> pending[SortingOf(keys)[p]]]
  BY <1>11 DEF Sorted
<1>13. IsList(keys, k, Tuples(5 + w))
  <2>1. \A c \in P : FinalOrderKey(c) \in Tuples(5 + w)
    <3>1. ASSUME NEW c \in Candidates(C, S) PROVE FinalOrderKey(c) \in Tuples(5 + w)
      BY FinalOrderKeyIs
    <3> QED
      BY <3>1 DEF Fused
  <2> HIDE DEF P
  <2>2. keys \in [1 .. k -> Tuples(5 + w)]
    BY <1>11, <2>1
  <2> QED
    BY <2>2 DEF IsList
<1> HIDE DEF keys, P
<1> DEFINE v == 5 + w
<1>14. SortsBy(SortingOf(keys), k, keys)
  <2>1. v \in Nat /\ IsList(keys, k, Tuples(v))
    BY <1>13
  <2> HIDE DEF v
  <2> QED
    BY <1>9, <2>1, SortingIs
<1>15. KeysOf(keys, pending, k)
  BY DEF keys, KeysOf
<1>16. IsRead(out, pending, SortingOf(keys), k)
  BY <1>12 DEF IsRead
<1> HIDE DEF out
<1>17. IsList(pending, k, P)
  BY <1>11 DEF IsList
<1>18. FusesAs(out, k, pending, keys, SortingOf(keys), lexical, semantic, P, 5 + w)
  BY <1>13, <1>14, <1>15, <1>16, <1>17, <1>22 DEF FusesAs
<1> QED
  BY <1>1, <1>9, <1>18 DEF P, FusesFrom

(* Fusion returns candidates of the chunks and spans it was given. *)
LEMMA FuseIs ==
    ASSUME NEW w \in Nat, NEW C \in SUBSET Tuples(w), NEW S \in SUBSET Int,
           NEW n \in Nat, NEW m \in Nat,
           NEW lexical, IsList(lexical, n, LexicalHitsOf(C)),
           NEW semantic, IsList(semantic, m, SemanticHitsOf(C, S)), NEW limit \in Nat
    PROVE  \E k \in Nat : IsList(FuseCandidates(lexical, semantic, limit), k, Fused(C, S))
<1> DEFINE P == Fused(C, S)
<1>1. FusesFrom(lexical, semantic, limit, P, 5 + w)
  BY FuseSorts
<1>2. PICK k \in Nat : \E out, pending, keys, order :
        /\ FusesAs(out, k, pending, keys, order, lexical, semantic, P, 5 + w)
        /\ FuseCandidates(lexical, semantic, limit) = First(limit, out)
  BY <1>1 DEF FusesFrom
<1>3. PICK out, pending, keys, order :
        /\ FusesAs(out, k, pending, keys, order, lexical, semantic, P, 5 + w)
        /\ FuseCandidates(lexical, semantic, limit) = First(limit, out)
  BY <1>2
<1> HIDE DEF P
<1>4. order \in [1 .. k -> 1 .. k] /\ pending \in [1 .. k -> P] /\ out = [p \in 1 .. k |-> pending[order[p]]]
  BY <1>3 DEF FusesAs, SortsBy, IsList, IsRead
<1>5. IsList(out, k, P)
  BY <1>4 DEF IsList
<1>6. IsList(First(limit, out), Least(limit, k), P) /\ Least(limit, k) \in Nat
  BY <1>5, FirstOfList
<1> QED
  BY <1>3, <1>6 DEF P

(* The merge of branches is by a tuple of integers, and has their chunks.  *)
LEMMA MergeKeyIs ==
    ASSUME NEW w \in Nat, NEW C \in SUBSET Tuples(w), NEW n \in Nat, NEW branches,
           IsList(branches, n, Seq(C)), NEW chunk \in C,
           \E b \in 1 .. n : \E i \in 1 .. Len(branches[b]) : branches[b][i] = chunk
    PROVE  MergeKey(branches, chunk) \in Tuples(4 + w)
<1> DEFINE S == {b \in DOMAIN branches : Contains(branches[b], chunk)}
<1> DEFINE found == Ascending(S)
<1> DEFINE ranks == [i \in DOMAIN found |-> RankIn(branches[found[i]], chunk)]
<1> DEFINE best == Min(ToSet(ranks))
<1> DEFINE sum == Total([i \in DOMAIN ranks |-> Share(MergeK, ranks[i])])
<1> DEFINE J == {j \in DOMAIN ranks : ranks[j] = best}
<1> DEFINE F == {found[i] : i \in J}
<1> DEFINE first == Min(F)
<1> DEFINE count == Len(found)
<1> DEFINE k == <<- sum, best, - count, first>>
<1>1. MergeKey(branches, chunk) = k \o chunk
  BY DEF MergeKey
<1> HIDE DEF k
<1>2. DOMAIN branches = 1 .. n /\ \A b \in 1 .. n : branches[b] \in Seq(C)
  BY DEF IsList
<1>3. S \in SUBSET (1 .. n) /\ S # {}
  BY <1>2 DEF Contains
<1>4. \A b \in S : \E i \in DOMAIN branches[b] : branches[b][i] = chunk
  <2> SUFFICES ASSUME NEW b \in S PROVE \E i \in DOMAIN branches[b] : branches[b][i] = chunk
    OBVIOUS
  <2>1. b \in 1 .. n /\ Contains(branches[b], chunk)
    BY <1>3
  <2>2. PICK i \in 1 .. Len(branches[b]) : branches[b][i] = chunk
    BY <2>1 DEF Contains
  <2>3. branches[b] \in Seq(C)
    BY <1>2, <2>1
  <2>4. DOMAIN branches[b] = 1 .. Len(branches[b])
    BY <2>3
  <2> QED
    BY <2>2, <2>4
<1> HIDE DEF S
<1>5. IsFiniteSet(S) /\ S \in SUBSET Int
  <2>1. IsFiniteSet(1 .. n)
    BY FS_Interval, 1 \in Int, n \in Int
  <2>2. S \in SUBSET Int
    BY <1>3
  <2> QED
    BY <1>3, <2>1, <2>2, FS_Subset
<1> DEFINE m == Cardinality(S)
<1>6. /\ m \in Nat /\ found \in [1 .. m -> S]
      /\ \A x \in S : \E p \in 1 .. m : found[p] = x
  BY <1>5, AscendingIs
<1> HIDE DEF m, found
<1>7. DOMAIN found = 1 .. m /\ m # 0 /\ 1 \in 1 .. m /\ count = m
  <2>1. m # 0
    <3>1. PICK x \in S : TRUE
      BY <1>3
    <3>2. PICK p \in 1 .. m : found[p] = x
      BY <1>6
    <3> QED
      BY <1>6, <3>2
  <2>2. found \in Seq(S) /\ Len(found) = m
    BY <1>6
  <2> QED
    BY <1>6, <2>1, <2>2
<1> HIDE DEF count
<1>8. \A b \in S : RankIn(branches[b], chunk) \in DOMAIN branches[b]
  BY <1>4 DEF RankIn
<1>9. \A b \in S : RankIn(branches[b], chunk) \in Int
  <2> SUFFICES ASSUME NEW b \in S PROVE RankIn(branches[b], chunk) \in Int
    OBVIOUS
  <2>1. branches[b] \in Seq(C)
    BY <1>2, <1>3
  <2>2. DOMAIN branches[b] \in SUBSET Int
    BY <2>1
  <2> QED
    BY <1>8, <2>2
<1>10. ranks \in [1 .. m -> Int]
  BY <1>6, <1>7, <1>9
<1>11. DOMAIN ranks = 1 .. m
  BY <1>7
<1> HIDE DEF ranks
<1>12. ToSet(ranks) = {ranks[i] : i \in 1 .. m}
  BY <1>11 DEF ToSet
<1> DEFINE R == ToSet(ranks)
<1>13. R \in SUBSET Int /\ IsFiniteSet(R) /\ R # {}
  <2>1. IsFiniteSet(1 .. m)
    BY <1>6, FS_Interval, 1 \in Int, m \in Int
  <2>2. IsFiniteSet({ranks[i] : i \in 1 .. m})
    BY <2>1, ImageFinite
  <2> QED
    BY <1>7, <1>10, <1>12, <2>2
<1> HIDE DEF R
<1>14. Min(R) \in R
  BY <1>13, MaxMinAre
<1>15. best \in Int /\ best \in R
  BY <1>13, <1>14 DEF R
<1> HIDE DEF best
<1>16. PICK j \in 1 .. m : ranks[j] = best
  BY <1>12, <1>15 DEF R
<1>17. F \in SUBSET S /\ F # {}
  BY <1>6, <1>7, <1>11, <1>16
<1> HIDE DEF F, J
<1>18. IsFiniteSet(F) /\ F \in SUBSET Int
  BY <1>5, <1>17, FS_Subset
<1>19. Min(F) \in F
  BY <1>17, <1>18, MaxMinAre
<1>20. first \in Int
  BY <1>18, <1>19
<1> HIDE DEF first
<1>21. sum \in Nat
  <2> DEFINE s == [i \in DOMAIN ranks |-> Share(MergeK, ranks[i])]
  <2>1. \A r : Share(MergeK, r) \in Nat
    BY ShareNat DEF MergeK
  <2>2. s \in [1 .. m -> Nat]
    BY <1>11, <2>1
  <2> HIDE DEF s
  <2>3. Total(s) \in Nat
    BY <1>6, <2>2, TotalNat
  <2> QED
    BY <2>3 DEF s
<1> HIDE DEF sum
<1>22. k \in Tuples(4)
  <2>1. - sum \in Int /\ - count \in Int
    BY <1>6, <1>7, <1>21
  <2>2. <<- sum, best, - count, first>> \in Tuples(4)
    BY <1>15, <1>20, <2>1 DEF Tuples
  <2> QED
    BY <2>2 DEF k
<1>23. chunk \in Tuples(w)
  OBVIOUS
<1> QED
  BY <1>1, <1>22, <1>23, TupleJoin, 4 \in Nat

(* The merge is of all the chunks of the branches, and sorts them.         *)
AllOfBranches(chunks, k, branches, n) ==
  /\ \A j \in 1 .. k : \E b \in 1 .. n : \E i \in 1 .. Len(branches[b]) : branches[b][i] = chunks[j]
  /\ \A b \in 1 .. n : \A i \in 1 .. Len(branches[b]) : \E j \in 1 .. k : chunks[j] = branches[b][i]
MergeKeys(keys, chunks, k, branches) == keys = [i \in 1 .. k |-> MergeKey(branches, chunks[i])]
RankedAs(result, merged) == result = [r \in DOMAIN merged |-> [chunk |-> merged[r], rank |-> r]]
MergesAs(out, k, chunks, keys, order, branches, n, C, w) ==
  /\ IsList(chunks, k, C) /\ AllOfBranches(chunks, k, branches, n)
  /\ MergeKeys(keys, chunks, k, branches) /\ IsList(keys, k, Tuples(w)) /\ SortsBy(order, k, keys)
  /\ IsRead(out, chunks, order, k)
MergesFrom(branches, limit, n, C, w) ==
  \E k \in Nat : \E out, chunks, keys, order :
    /\ MergesAs(out, k, chunks, keys, order, branches, n, C, w)
    /\ RankedAs(MergeBranches(branches, limit), First(limit, out))

(* The merge takes the first of the chunks in the order of their keys. *)
LEMMA MergeSorts ==
    ASSUME NEW w \in Nat, NEW C \in SUBSET Tuples(w), NEW n \in Nat, NEW branches,
           IsList(branches, n, Seq(C)), NEW limit \in Nat
    PROVE  MergesFrom(branches, limit, n, C, 4 + w)
<1> DEFINE all == FlattenSeq(branches)
<1> DEFINE chunks == Distinct(all)
<1> DEFINE out == Sorted(chunks, LAMBDA c : MergeKey(branches, c))
<1> DEFINE merged == First(limit, out)
<1>1. RankedAs(MergeBranches(branches, limit), merged)
  BY DEF MergeBranches, RankedAs
<1>2. branches \in [1 .. n -> Seq(C)]
  BY DEF IsList
<1>3. all \in Seq(C) /\ HasAllOf(all, branches, n)
  BY FlattenHas
<1> HIDE DEF all
<1> DEFINE a == Len(all)
<1>4. a \in Nat /\ IsList(all, a, C)
  BY <1>3 DEF IsList
<1> HIDE DEF a
<1>5. chunks \in Seq(C) /\ EachOnce(chunks, all, a)
  BY <1>4, DistinctHas
<1> HIDE DEF chunks
<1> DEFINE k == Len(chunks)
<1>6. k \in Nat /\ chunks \in [1 .. k -> C] /\ DOMAIN chunks = 1 .. k
  BY <1>5
<1>7. \A j \in 1 .. k : \E b \in 1 .. n : \E i \in 1 .. Len(branches[b]) : branches[b][i] = chunks[j]
  <2> SUFFICES ASSUME NEW j \in 1 .. k
               PROVE  \E b \in 1 .. n : \E i \in 1 .. Len(branches[b]) : branches[b][i] = chunks[j]
    OBVIOUS
  <2>1. PICK i \in 1 .. Len(all) : chunks[j] = all[i]
    BY <1>5 DEF a, EachOnce
  <2> QED
    BY <1>3, <2>1 DEF HasAllOf
<1>14. \A b \in 1 .. n : \A i \in 1 .. Len(branches[b]) : \E j \in 1 .. k : chunks[j] = branches[b][i]
  <2> SUFFICES ASSUME NEW b \in 1 .. n, NEW i \in 1 .. Len(branches[b])
               PROVE  \E j \in 1 .. k : chunks[j] = branches[b][i]
    OBVIOUS
  <2>1. PICK q \in 1 .. Len(all) : all[q] = branches[b][i]
    BY <1>3 DEF HasAllOf
  <2>2. \E j \in 1 .. Len(chunks) : chunks[j] = all[q]
    BY <1>5, <2>1 DEF a, EachOnce
  <2> QED
    BY <2>1, <2>2
<1>15. AllOfBranches(chunks, k, branches, n)
  BY <1>7, <1>14 DEF AllOfBranches
<1> HIDE DEF k
<1> DEFINE keys == [i \in 1 .. k |-> MergeKey(branches, chunks[i])]
<1>8. out = [p \in 1 .. k |-> chunks[SortingOf(keys)[p]]]
  BY <1>6 DEF Sorted
<1> DEFINE v == 4 + w
<1>9. IsList(keys, k, Tuples(v))
  <2>1. ASSUME NEW j \in 1 .. k PROVE MergeKey(branches, chunks[j]) \in Tuples(4 + w)
    <3> DEFINE c == chunks[j]
    <3>1. c \in C /\ \E b \in 1 .. n : \E i \in 1 .. Len(branches[b]) : branches[b][i] = c
      BY <1>6, <1>7
    <3> HIDE DEF c
    <3>2. MergeKey(branches, c) \in Tuples(4 + w)
      BY <3>1, MergeKeyIs
    <3> QED
      BY <3>2 DEF c
  <2>2. keys \in [1 .. k -> Tuples(v)]
    BY <2>1
  <2> QED
    BY <2>2 DEF IsList
<1>10. v \in Nat
  OBVIOUS
<1>12. MergeKeys(keys, chunks, k, branches)
  BY DEF MergeKeys
<1> HIDE DEF keys
<1>13. IsRead(out, chunks, SortingOf(keys), k)
  BY <1>8 DEF IsRead
<1> HIDE DEF v, out
<1>11. SortsBy(SortingOf(keys), k, keys)
  BY <1>6, <1>9, <1>10, SortingIs
<1>16. IsList(chunks, k, C)
  BY <1>6 DEF IsList
<1>17. MergesAs(out, k, chunks, keys, SortingOf(keys), branches, n, C, v)
  BY <1>9, <1>11, <1>12, <1>13, <1>15, <1>16 DEF MergesAs
<1>18. MergesFrom(branches, limit, n, C, v)
  BY <1>1, <1>6, <1>17 DEF MergesFrom
<1> QED
  BY <1>18 DEF v

(* The merge returns chunks of the branches it was given. *)
LEMMA MergeIs ==
    ASSUME NEW w \in Nat, NEW C \in SUBSET Tuples(w), NEW n \in Nat, NEW branches,
           IsList(branches, n, Seq(C)), NEW limit \in Nat
    PROVE  \E k \in Nat : IsList(MergeBranches(branches, limit), k, LexicalHitsOf(C))
<1>1. MergesFrom(branches, limit, n, C, 4 + w)
  BY MergeSorts
<1>2. PICK k \in Nat : \E out, chunks, keys, order :
        /\ MergesAs(out, k, chunks, keys, order, branches, n, C, 4 + w)
        /\ RankedAs(MergeBranches(branches, limit), First(limit, out))
  BY <1>1 DEF MergesFrom
<1>3. PICK out, chunks, keys, order :
        /\ MergesAs(out, k, chunks, keys, order, branches, n, C, 4 + w)
        /\ RankedAs(MergeBranches(branches, limit), First(limit, out))
  BY <1>2
<1>4. /\ order \in [1 .. k -> 1 .. k] /\ chunks \in [1 .. k -> C]
      /\ out = [p \in 1 .. k |-> chunks[order[p]]]
  BY <1>3 DEF MergesAs, SortsBy, IsList, IsRead
<1>5. IsList(out, k, C)
  BY <1>4 DEF IsList
<1> DEFINE merged == First(limit, out)
<1> DEFINE m == Least(limit, k)
<1>6. IsList(merged, m, C) /\ m \in Nat
  BY <1>5, FirstOfList
<1> HIDE DEF merged, m
<1>7. merged \in [1 .. m -> C] /\ DOMAIN merged = 1 .. m
  BY <1>6 DEF IsList
<1>8. [r \in DOMAIN merged |-> [chunk |-> merged[r], rank |-> r]] \in [1 .. m -> LexicalHitsOf(C)]
  BY <1>6, <1>7 DEF LexicalHitsOf
<1>9. MergeBranches(branches, limit) = [r \in DOMAIN merged |-> [chunk |-> merged[r], rank |-> r]]
  BY <1>3 DEF RankedAs, merged
<1> QED
  BY ZenonT(60), <1>6, <1>8, <1>9 DEF IsList

-----------------------------------------------------------------------------
(* Dominance: what every channel ranks better has the greater share.       *)

(* A position with a smaller key than the one placed at p is placed before *)
(* p.                                                                      *)
LEMMA SmallerIsEarlier ==
    ASSUME NEW n \in Nat, NEW keys, NEW order, SortsBy(order, n, keys),
           NEW p \in 1 .. n, NEW i \in 1 .. n, Before(keys[i], keys[order[p]])
    PROVE  \E q \in 1 .. (p - 1) : order[q] = i
<1>1. PICK q \in 1 .. n : order[q] = i
  BY DEF SortsBy
<1>2. Precede(keys, order[q], order[p])
  BY <1>1 DEF Precede
<1>3. q < p
  BY <1>2 DEF SortsBy
<1> QED
  BY <1>1, <1>3

(* A tuple whose first number is smaller is before the other.              *)
LEMMA SmallerFirst ==
    ASSUME NEW n \in Nat \ {0}, NEW k \in Tuples(n), NEW l \in Tuples(n), k[1] < l[1]
    PROVE  Before(k, l)
<1>1. 1 \in DOMAIN k /\ 1 .. (1 - 1) = {}
  BY DEF Tuples
<1> QED
  BY <1>1 DEF Before

(* The first number of a tuple behind which another is put.                *)
LEMMA FirstOfJoin ==
    ASSUME NEW s \in Seq(Int), Len(s) > 0, NEW n \in Nat, NEW t \in Tuples(n)
    PROVE  (s \o t)[1] = s[1]
<1>1. t \in Seq(Int)
  BY DEF Tuples
<1> QED
  BY <1>1

(* The share of a rank is positive, that of a missing rank is none.        *)
Ranks == (1 .. RankDepth) \cup {Missing}
ShareOf(k, rank) == IF rank = Missing THEN 0 ELSE Share(k, rank)

(* The share of a rank in the fused score is positive. *)
LEMMA SharePositive ==
    ASSUME NEW k \in Nat \ {0}, NEW r \in 1 .. RankDepth
    PROVE  Share(k, r) \in Nat \ {0}
<1> DEFINE S == (1 .. RankDepth) \ {r}
<1>1. PICK h : Multiplies(h, k, S) /\ Share(k, r) = h[S]
  BY ShareIs
<1>2. S \in SUBSET Nat /\ IsFiniteSet(S)
  <2>1. RankDepth \in Int /\ 1 \in Int
    BY RankingAssumption
  <2>2. IsFiniteSet(1 .. RankDepth)
    BY <2>1, FS_Interval
  <2>3. IsFiniteSet(S)
    BY <2>2, FS_Subset
  <2> QED
    BY <2>1, <2>3
<1> HIDE DEF S
<1>3. h[S] \in Nat \ {0}
  BY <1>1, <1>2, ProductPositive
<1> QED
  BY <1>1, <1>3

(* A better rank has a larger share, an absent one the smallest. *)
LEMMA ShareOfDecreases ==
    ASSUME NEW k \in Nat \ {0}, NEW a \in Ranks, NEW b \in Ranks
    PROVE  /\ a \in Int /\ b \in Int /\ ShareOf(k, a) \in Nat /\ ShareOf(k, b) \in Nat
           /\ a < b => ShareOf(k, b) < ShareOf(k, a)
<1>1. RankDepth \in Nat /\ RankDepth < Missing /\ Missing \in Int
  BY RankingAssumption DEF Missing
<1>2. a \in Int /\ b \in Int
  BY <1>1 DEF Ranks
<1>3. \A r \in 1 .. RankDepth : r # Missing /\ r < Missing
  BY <1>1
<1>4. \A r \in 1 .. RankDepth : Share(k, r) \in Nat \ {0}
  BY SharePositive
<1>5. ShareOf(k, a) \in Nat /\ ShareOf(k, b) \in Nat
  BY <1>3, <1>4 DEF ShareOf, Ranks
<1>6. ASSUME a < b PROVE ShareOf(k, b) < ShareOf(k, a)
  <2>1. a \in 1 .. RankDepth
    BY <1>1, <1>2, <1>3, <1>6 DEF Ranks
  <2>2. ShareOf(k, a) = Share(k, a) /\ Share(k, a) \in Nat \ {0}
    BY <1>3, <1>4, <2>1 DEF ShareOf
  <2>3. CASE b = Missing
    BY <2>2, <2>3 DEF ShareOf
  <2>4. CASE b # Missing
    <3>1. b \in 1 .. RankDepth
      BY <2>4 DEF Ranks
    <3>2. Share(k, b) < Share(k, a) /\ Share(k, b) \in Nat \ {0}
      BY <1>6, <2>1, <3>1, SharesDecrease
    <3> QED
      BY <2>2, <2>4, <3>2 DEF ShareOf
  <2> QED
    BY <2>3, <2>4
<1> QED
  BY <1>2, <1>5, <1>6

(* Of two pairs of ranks the one that is not worse in either, and better   *)
(* in one, has the greater sum of shares.                                  *)
Worse(a, b, c, d) == c <= a /\ d <= b /\ (c # a \/ d # b)

(* No worse in both channels and better in one has the larger score. *)
LEMMA BetterHasMore ==
    ASSUME NEW k \in Nat \ {0}, NEW a \in Ranks, NEW b \in Ranks, NEW c \in Ranks, NEW d \in Ranks,
           Worse(a, b, c, d)
    PROVE  ShareOf(k, a) + ShareOf(k, b) < ShareOf(k, c) + ShareOf(k, d)
<1> DEFINE w == ShareOf(k, a)
<1> DEFINE x == ShareOf(k, b)
<1> DEFINE y == ShareOf(k, c)
<1> DEFINE z == ShareOf(k, d)
<1>1. a \in Int /\ c \in Int /\ w \in Nat /\ y \in Nat /\ (c < a => w < y)
  BY ShareOfDecreases
<1>2. b \in Int /\ d \in Int /\ x \in Nat /\ z \in Nat /\ (d < b => x < z)
  BY ShareOfDecreases
<1>3. c = a => w = y
  OBVIOUS
<1>4. d = b => x = z
  OBVIOUS
<1> HIDE DEF w, x, y, z
<1>5. w + x < y + z
  BY <1>1, <1>2, <1>3, <1>4 DEF Worse
<1> QED
  BY <1>5 DEF w, x, y, z

(* The fusion compares by the shares first.                                *)
LEMMA FinalOrderKeyFirst ==
    ASSUME NEW w \in Nat, NEW C \in SUBSET Tuples(w), NEW S, NEW c \in Candidates(C, S)
    PROVE  /\ FinalOrderKey(c)[1] = - Shares(c) /\ Shares(c) \in Nat
           /\ Shares(c) = ShareOf(FusionK, c.lexical) + ShareOf(FusionK, c.semantic)
<1> DEFINE a == Shares(c)
<1> DEFINE b == Channels(c)
<1> DEFINE l == c.lexical
<1> DEFINE s == c.semantic
<1> DEFINE k == <<- a, Least(l, s), - b, l, s>>
<1>1. FinalOrderKey(c) = k \o c.chunk
  BY DEF FinalOrderKey
<1>2. l \in Int /\ s \in Int /\ c.chunk \in C
  BY DEF Candidates
<1>3. a \in Nat
  <2>1. \A r : Share(FusionK, r) \in Nat
    BY ShareNat DEF FusionK
  <2> QED
    BY <2>1 DEF Shares
<1>4. b \in Nat
  <2>1. IsFiniteSet({"lexical", "semantic"})
    <3>1. IsFiniteSet({"lexical"})
      BY FS_Singleton
    <3>2. IsFiniteSet({"lexical"} \cup {"semantic"})
      BY <3>1, FS_AddElement
    <3>3. {"lexical"} \cup {"semantic"} = {"lexical", "semantic"}
      OBVIOUS
    <3> QED
      BY <3>2, <3>3
  <2>2. IsFiniteSet({f \in {"lexical", "semantic"} : c[f] # Missing})
    BY <2>1, FS_Subset
  <2> QED
    BY <2>2, FS_CardinalityType DEF Channels
<1>5. c.chunk \in Tuples(w)
  BY <1>2
<1>6. a = ShareOf(FusionK, c.lexical) + ShareOf(FusionK, c.semantic)
  BY DEF Shares, ShareOf
<1> HIDE DEF a, b
<1>7. k \in Seq(Int) /\ Len(k) = 5 /\ k[1] = - a
  <2>1. \A x, y \in Int : Least(x, y) \in Int
    BY DEF Least
  <2>2. Least(l, s) \in Int
    BY <1>2, <2>1
  <2> DEFINE m == Least(l, s)
  <2> HIDE DEF m, l, s
  <2>3. - a \in Int /\ - b \in Int /\ m \in Int /\ l \in Int /\ s \in Int
    BY <1>2, <1>3, <1>4, <2>2 DEF m
  <2> DEFINE t == <<- a, m, - b, l, s>>
  <2>4. t \in Seq(Int) /\ Len(t) = 5 /\ t[1] = - a
    BY <2>3
  <2> QED
    BY <2>4 DEF m
<1> HIDE DEF k
<1> DEFINE t == c.chunk
<1>9. t \in Tuples(w) /\ Len(k) > 0
  BY <1>5, <1>7
<1> HIDE DEF t
<1>8. (k \o t)[1] = k[1]
  BY <1>7, <1>9, FirstOfJoin
<1> QED
  BY <1>1, <1>3, <1>6, <1>7, <1>8 DEF a, t

(* Ranks of a list of results.                                             *)
RankedIn(hits, n) == \A i \in 1 .. n : hits[i].rank \in 1 .. RankDepth

(* The ranks of a candidate are ranks of the channels or Missing. *)
LEMMA CandidateRanks ==
    ASSUME NEW C, NEW S \in SUBSET Int, NEW n \in Nat, NEW m \in Nat,
           NEW lexical, IsList(lexical, n, LexicalHitsOf(C)), RankedIn(lexical, n),
           NEW semantic, IsList(semantic, m, SemanticHitsOf(C, S)), RankedIn(semantic, m),
           NEW chunk
    PROVE  /\ CandidateFor(chunk, lexical, semantic).lexical \in Ranks
           /\ CandidateFor(chunk, lexical, semantic).semantic \in Ranks
<1>1. /\ lexical \in [1 .. n -> LexicalHitsOf(C)] /\ DOMAIN lexical = 1 .. n
      /\ semantic \in [1 .. m -> SemanticHitsOf(C, S)] /\ DOMAIN semantic = 1 .. m
  BY DEF IsList
<1>2. ASSUME chunk \in ChunksOf(lexical)
      PROVE  LexicalRepresentative(lexical, chunk).rank \in Ranks
  <2>1. LexicalRepresentative(lexical, chunk) \in HitsOf(lexical, chunk)
    BY <1>1, <1>2, LexicalRepresentativeIs
  <2> QED
    BY <1>1, <2>1 DEF HitsOf, ToSet, RankedIn, Ranks
<1>3. ASSUME chunk \in ChunksOf(semantic)
      PROVE  SemanticRepresentative(semantic, chunk).rank \in Ranks
  <2>1. SemanticRepresentative(semantic, chunk) \in HitsOf(semantic, chunk)
    BY <1>1, <1>3, SemanticRepresentativeIs
  <2> QED
    BY <1>1, <2>1 DEF HitsOf, ToSet, RankedIn, Ranks
<1>4. Missing \in Ranks
  BY DEF Ranks
<1> QED
  BY <1>2, <1>3, <1>4 DEF CandidateFor

(* What the fusion returns is behind every candidate that it dominates.    *)
Fuses(F, lexical, semantic, limit) == F = FuseCandidates(lexical, semantic, limit)

(* Fusion puts what both channels rank better before what they rank worse. *)
LEMMA FusionKeepsDominance ==
    ASSUME NEW w \in Nat, NEW C \in SUBSET Tuples(w), NEW S \in SUBSET Int,
           NEW n \in Nat, NEW m \in Nat,
           NEW lexical, IsList(lexical, n, LexicalHitsOf(C)), RankedIn(lexical, n),
           NEW semantic, IsList(semantic, m, SemanticHitsOf(C, S)), RankedIn(semantic, m),
           NEW limit \in Nat, NEW F, Fuses(F, lexical, semantic, limit),
           NEW i \in DOMAIN F, NEW c \in ChunksOf(lexical) \cup ChunksOf(semantic),
           NEW d, d = CandidateFor(c, lexical, semantic),
           Worse(F[i].lexical, F[i].semantic, d.lexical, d.semantic)
    PROVE  \E j \in 1 .. (i - 1) : F[j] = d
<1> DEFINE P == Fused(C, S)
<1> DEFINE v == 5 + w
<1>1. FusesFrom(lexical, semantic, limit, P, v)
  BY FuseSorts
<1>2. v \in Nat \ {0}
  OBVIOUS
<1>3. \A x \in P : x \in Candidates(C, S)
  BY DEF Fused
<1> HIDE DEF P, v
<1>4. PICK k \in Nat : \E out, pending, keys, order :
        /\ FusesAs(out, k, pending, keys, order, lexical, semantic, P, v)
        /\ FuseCandidates(lexical, semantic, limit) = First(limit, out)
  BY <1>1 DEF FusesFrom
<1>5. PICK out, pending, keys, order :
        /\ FusesAs(out, k, pending, keys, order, lexical, semantic, P, v)
        /\ FuseCandidates(lexical, semantic, limit) = First(limit, out)
  BY <1>4
<1>6. /\ pending \in [1 .. k -> P] /\ out = [p \in 1 .. k |-> pending[order[p]]]
      /\ \A p \in 1 .. k : keys[p] = FinalOrderKey(pending[p])
      /\ keys \in [1 .. k -> Tuples(v)] /\ SortsBy(order, k, keys) /\ order \in [1 .. k -> 1 .. k]
      /\ AllPending(pending, k, lexical, semantic)
  BY <1>5 DEF FusesAs, IsList, IsRead, KeysOf, SortsBy
<1>7. IsList(out, k, P)
  BY <1>6 DEF IsList
<1> DEFINE l == Least(limit, k)
<1>8. /\ IsList(First(limit, out), l, P) /\ l \in Nat /\ l <= k
      /\ \A p \in 1 .. l : First(limit, out)[p] = out[p]
  BY <1>7, FirstOfList
<1>9. F = First(limit, out)
  BY <1>5 DEF Fuses
<1> HIDE DEF l
<1>10. DOMAIN F = 1 .. l /\ \A p \in 1 .. l : F[p] = pending[order[p]]
  <2>1. DOMAIN F = 1 .. l
    BY <1>8, <1>9 DEF IsList
  <2>2. \A p \in 1 .. l : p \in 1 .. k
    BY <1>8
  <2> QED
    BY <1>6, <1>8, <1>9, <2>1, <2>2
<1>11. PICK q \in 1 .. k : pending[q] = d
  BY <1>6 DEF AllPending
<1>12. i \in 1 .. l /\ i \in 1 .. k /\ order[i] \in 1 .. k /\ F[i] = pending[order[i]]
  BY <1>6, <1>8, <1>10
<1> DEFINE e == F[i]
<1>13. e \in P /\ d \in P /\ e \in Candidates(C, S) /\ d \in Candidates(C, S)
  BY <1>3, <1>6, <1>11, <1>12
<1>14. PICK x \in ChunksOf(lexical) \cup ChunksOf(semantic) : e = CandidateFor(x, lexical, semantic)
  BY <1>6, <1>12 DEF AllPending
<1>15. e.lexical \in Ranks /\ e.semantic \in Ranks
  BY <1>14, CandidateRanks
<1>16. d.lexical \in Ranks /\ d.semantic \in Ranks
  BY CandidateRanks
<1> HIDE DEF e
<1>17. FusionK \in Nat \ {0}
  BY DEF FusionK
<1>18. Worse(e.lexical, e.semantic, d.lexical, d.semantic)
  BY DEF e
<1>19. ShareOf(FusionK, e.lexical) + ShareOf(FusionK, e.semantic)
         < ShareOf(FusionK, d.lexical) + ShareOf(FusionK, d.semantic)
  BY <1>15, <1>16, <1>17, <1>18, BetterHasMore
<1>20. /\ FinalOrderKey(d)[1] = - Shares(d) /\ Shares(d) \in Nat
       /\ Shares(d) = ShareOf(FusionK, d.lexical) + ShareOf(FusionK, d.semantic)
  BY <1>13, FinalOrderKeyFirst
<1>21. /\ FinalOrderKey(e)[1] = - Shares(e) /\ Shares(e) \in Nat
       /\ Shares(e) = ShareOf(FusionK, e.lexical) + ShareOf(FusionK, e.semantic)
  BY <1>13, FinalOrderKeyFirst
<1>22. Shares(e) < Shares(d)
  BY <1>19, <1>20, <1>21
<1>23. FinalOrderKey(d)[1] < FinalOrderKey(e)[1]
  BY <1>20, <1>21, <1>22
<1> DEFINE kd == keys[q]
<1> DEFINE ke == keys[order[i]]
<1>24. kd = FinalOrderKey(d) /\ ke = FinalOrderKey(e) /\ kd \in Tuples(v) /\ ke \in Tuples(v)
  BY <1>6, <1>11, <1>12 DEF e
<1>25. kd[1] < ke[1]
  BY <1>23, <1>24
<1> HIDE DEF kd, ke
<1>26. Before(kd, ke)
  BY <1>2, <1>24, <1>25, SmallerFirst
<1>28. Before(keys[q], keys[order[i]]) /\ SortsBy(order, k, keys)
  BY <1>6, <1>26 DEF kd, ke
<1>27. \E j \in 1 .. (i - 1) : order[j] = q
  BY <1>12, <1>28, SmallerIsEarlier
<1>29. PICK j \in 1 .. (i - 1) : order[j] = q
  BY <1>27
<1>30. j \in 1 .. l
  BY <1>8, <1>12
<1> QED
  BY <1>10, <1>11, <1>29, <1>30

(* Totals of one and of two numbers.                                       *)
LEMMA TotalOfFew ==
    ASSUME NEW n \in {1, 2}, NEW s \in [1 .. n -> Int]
    PROVE  Total(s) = IF n = 1 THEN s[1] ELSE s[1] + s[2]
<1>1. PICK g : Sums(g, n, s) /\ Total(s) = g[n]
  BY TotalIs
<1>2. /\ g[0] = 0 /\ \A k \in 1 .. n : g[k] = g[k - 1] + s[k]
  BY <1>1 DEF Sums
<1>3. g[1] = s[1]
  <2>1. 1 \in 1 .. n /\ 1 - 1 = 0
    OBVIOUS
  <2>2. g[1] = g[0] + s[1] /\ s[1] \in Int
    BY <1>2, <2>1
  <2> QED
    BY <1>2, <2>2
<1>4. n = 2 => g[2] = g[1] + s[2]
  <2>1. n = 2 => 2 \in 1 .. n /\ 2 - 1 = 1
    OBVIOUS
  <2> QED
    BY <1>2, <2>1
<1> QED
  BY <1>1, <1>3, <1>4

(* Numbers behind which a tuple is put.                                    *)
LEMMA FirstOfFour ==
    ASSUME NEW a, NEW b, NEW c, NEW d, NEW n \in Nat, NEW t \in Tuples(n)
    PROVE  (<<a, b, c, d>> \o t)[1] = a
<1> DEFINE U == {a, b, c, d} \cup Int
<1> DEFINE s == <<a, b, c, d>>
<1>1. t \in Seq(U)
  BY DEF Tuples
<1>2. a \in U /\ b \in U /\ c \in U /\ d \in U
  OBVIOUS
<1> HIDE DEF U
<1>3. s \in Seq(U) /\ Len(s) = 4 /\ s[1] = a
  BY <1>2
<1> HIDE DEF s
<1>4. \A x, y \in Seq(U) : Len(x) > 0 => (x \o y)[1] = x[1]
  OBVIOUS
<1>5. (s \o t)[1] = s[1]
  BY <1>1, <1>3, <1>4
<1> QED
  BY <1>3, <1>5 DEF s

(* The rank of a chunk in a branch.                                        *)
InBranch(branches, b, chunk) ==
  IF Contains(branches[b], chunk) THEN RankIn(branches[b], chunk) ELSE Missing

ShortBranches(branches, n) == \A b \in 1 .. n : Len(branches[b]) <= RankDepth

(* The rank of a chunk in a branch it is in is at most RankDepth. *)
LEMMA InBranchIs ==
    ASSUME NEW C, NEW branch \in Seq(C), Len(branch) <= RankDepth, NEW chunk, Contains(branch, chunk)
    PROVE  RankIn(branch, chunk) \in 1 .. RankDepth
<1>1. DOMAIN branch = 1 .. Len(branch) /\ Len(branch) \in Nat /\ RankDepth \in Nat
  BY RankingAssumption
<1>2. \E r \in DOMAIN branch : branch[r] = chunk
  BY <1>1 DEF Contains
<1>3. RankIn(branch, chunk) \in DOMAIN branch
  BY <1>2 DEF RankIn
<1> QED
  BY <1>1, <1>3

(* The merge of two branches compares by the shares first.                 *)
LEMMA MergeKeyFirst ==
    ASSUME NEW w \in Nat, NEW C \in SUBSET Tuples(w), NEW branches,
           IsList(branches, 2, Seq(C)), ShortBranches(branches, 2), NEW chunk \in C
    PROVE  /\ InBranch(branches, 1, chunk) \in Ranks /\ InBranch(branches, 2, chunk) \in Ranks
           /\ \/ InBranch(branches, 1, chunk) # Missing
              \/ InBranch(branches, 2, chunk) # Missing
              => MergeKey(branches, chunk)[1] =
                   - (ShareOf(MergeK, InBranch(branches, 1, chunk)) + ShareOf(MergeK, InBranch(branches, 2, chunk)))
<1> DEFINE S == {b \in DOMAIN branches : Contains(branches[b], chunk)}
<1> DEFINE found == Ascending(S)
<1> DEFINE ranks == [i \in DOMAIN found |-> RankIn(branches[found[i]], chunk)]
<1> DEFINE best == Min(ToSet(ranks))
<1> DEFINE shares == [i \in DOMAIN ranks |-> Share(MergeK, ranks[i])]
<1> DEFINE sum == Total(shares)
<1> DEFINE first == Min({found[i] : i \in {j \in DOMAIN ranks : ranks[j] = best}})
<1> DEFINE count == - Len(found)
<1>1. MergeKey(branches, chunk) = <<- sum, best, count, first>> \o chunk
  BY DEF MergeKey
<1>2. DOMAIN branches = 1 .. 2 /\ \A b \in 1 .. 2 : branches[b] \in Seq(C) /\ Len(branches[b]) <= RankDepth
  BY DEF IsList, ShortBranches
<1>3. \A b \in 1 .. 2 : b \in S => RankIn(branches[b], chunk) \in 1 .. RankDepth
  BY <1>2, InBranchIs
<1>4. \A r \in 1 .. RankDepth : r # Missing /\ r \in Ranks
  BY RankingAssumption DEF Ranks, Missing
<1>5. \A b \in 1 .. 2 : b \in S => /\ InBranch(branches, b, chunk) = RankIn(branches[b], chunk)
                                   /\ InBranch(branches, b, chunk) # Missing
                                   /\ InBranch(branches, b, chunk) \in Ranks
  BY <1>2, <1>3, <1>4 DEF InBranch
<1>30. \A b \in 1 .. 2 : b \notin S => InBranch(branches, b, chunk) = Missing
  BY <1>2 DEF InBranch
<1>6. InBranch(branches, 1, chunk) \in Ranks /\ InBranch(branches, 2, chunk) \in Ranks
  <2>1. Missing \in Ranks
    BY DEF Ranks
  <2>2. ASSUME NEW b \in 1 .. 2 PROVE InBranch(branches, b, chunk) \in Ranks
    <3> HIDE DEF S
    <3>1. CASE b \in S
      BY <1>5, <3>1
    <3>2. CASE b \notin S
      BY <1>30, <2>1, <3>2
    <3> QED
      BY <3>1, <3>2
  <2> QED
    BY <2>2
<1>7. S \in SUBSET {1, 2} /\ S \in SUBSET Int /\ IsFiniteSet(S)
  <2>1. S \in SUBSET (1 .. 2)
    BY <1>2
  <2>2. IsFiniteSet(1 .. 2)
    BY FS_Interval, 1 \in Int, 2 \in Int
  <2>3. IsFiniteSet(S)
    BY <2>1, <2>2, FS_Subset
  <2> QED
    BY <2>1, <2>3
<1> HIDE DEF S
<1> DEFINE m == Cardinality(S)
<1>8. /\ m \in Nat /\ found \in [1 .. m -> S]
      /\ \A p, q \in 1 .. m : p < q => found[p] < found[q]
      /\ \A x \in S : \E p \in 1 .. m : found[p] = x
  BY <1>7, AscendingIs
<1> HIDE DEF m, found
<1>9. DOMAIN found = 1 .. m /\ DOMAIN ranks = 1 .. m
  BY <1>8
<1>10. \A i \in 1 .. m : shares[i] = Share(MergeK, RankIn(branches[found[i]], chunk))
  BY <1>9
<1>11. shares \in [1 .. m -> Int]
  <2>1. \A r : Share(MergeK, r) \in Nat
    BY ShareNat DEF MergeK
  <2> QED
    BY <1>9, <2>1
<1> HIDE DEF shares
<1> DEFINE s1 == Share(MergeK, RankIn(branches[1], chunk))
<1> DEFINE s2 == Share(MergeK, RankIn(branches[2], chunk))
<1>12. s1 \in Nat /\ s2 \in Nat
  BY ShareNat DEF MergeK
<1> HIDE DEF s1, s2
<1>20. ASSUME S # {}
       PROVE  sum = ShareOf(MergeK, InBranch(branches, 1, chunk)) + ShareOf(MergeK, InBranch(branches, 2, chunk))
  <2>1. /\ ShareOf(MergeK, InBranch(branches, 1, chunk)) = IF 1 \in S THEN s1 ELSE 0
        /\ ShareOf(MergeK, InBranch(branches, 2, chunk)) = IF 2 \in S THEN s2 ELSE 0
    <3>1. ASSUME NEW b \in 1 .. 2
          PROVE  ShareOf(MergeK, InBranch(branches, b, chunk)) =
                   IF b \in S THEN Share(MergeK, RankIn(branches[b], chunk)) ELSE 0
      <4>1. CASE b \in S
        BY <1>5, <4>1 DEF ShareOf
      <4>2. CASE b \notin S
        BY <1>30, <4>2 DEF ShareOf
      <4> QED
        BY <4>1, <4>2
    <3> QED
      BY <3>1 DEF s1, s2
  <2>2. S = {1} \/ S = {2} \/ S = {1, 2}
    BY <1>7, <1>20
  <2>3. CASE S = {1}
    <3>1. m = 1
      BY <2>3, FS_Singleton DEF m
    <3>2. found[1] = 1
      BY <1>8, <2>3, <3>1
    <3>3. shares[1] = s1
      BY <1>10, <3>1, <3>2 DEF s1
    <3>4. sum = shares[1]
      BY <1>11, <3>1, TotalOfFew
    <3> QED
      BY <1>12, <2>1, <2>3, <3>3, <3>4
  <2>4. CASE S = {2}
    <3>1. m = 1
      BY <2>4, FS_Singleton DEF m
    <3>2. found[1] = 2
      BY <1>8, <2>4, <3>1
    <3>3. shares[1] = s2
      BY <1>10, <3>1, <3>2 DEF s2
    <3>4. sum = shares[1]
      BY <1>11, <3>1, TotalOfFew
    <3> QED
      BY <1>12, <2>1, <2>4, <3>3, <3>4
  <2>5. CASE S = {1, 2}
    <3>1. m = 2
      <4>1. IsFiniteSet({1}) /\ Cardinality({1}) = 1
        BY FS_Singleton
      <4>2. Cardinality({1} \cup {2}) = 2
        BY <4>1, FS_AddElement, 2 \notin {1}, 1 + 1 = 2
      <4>3. {1} \cup {2} = {1, 2}
        OBVIOUS
      <4> QED
        BY <2>5, <4>2, <4>3 DEF m
    <3>2. found[1] = 1 /\ found[2] = 2
      <4>1. found[1] \in {1, 2} /\ found[2] \in {1, 2} /\ found[1] < found[2]
        BY <1>8, <2>5, <3>1
      <4> QED
        BY <4>1
    <3>3. shares[1] = s1 /\ shares[2] = s2
      BY <1>10, <3>1, <3>2 DEF s1, s2
    <3>4. sum = shares[1] + shares[2]
      BY <1>11, <3>1, TotalOfFew
    <3> QED
      BY <2>1, <2>5, <3>3, <3>4
  <2> QED
    BY <2>2, <2>3, <2>4, <2>5
<1>21. \/ InBranch(branches, 1, chunk) # Missing
       \/ InBranch(branches, 2, chunk) # Missing
       => S # {}
  <2>1. 1 \in 1 .. 2 /\ 2 \in 1 .. 2
    OBVIOUS
  <2> QED
    BY <1>30, <2>1
<1> HIDE DEF sum, best, first, count
<1> DEFINE minus == - sum
<1>22. (<<minus, best, count, first>> \o chunk)[1] = minus
  BY FirstOfFour
<1> QED
  BY <1>1, <1>6, <1>20, <1>21, <1>22

(* What the merge returns is behind every chunk that it dominates.         *)
Merges(F, branches, limit) == F = MergeBranches(branches, limit)
FromBranches(branches, d) == \E b \in 1 .. 2 : \E r \in 1 .. Len(branches[b]) : branches[b][r] = d
WorseIn(branches, e, d) ==
  Worse(InBranch(branches, 1, e), InBranch(branches, 2, e),
        InBranch(branches, 1, d), InBranch(branches, 2, d))

(* The merge puts what both branches rank better before what they rank worse. *)
LEMMA MergeKeepsDominance ==
    ASSUME NEW w \in Nat, NEW C \in SUBSET Tuples(w), NEW branches,
           IsList(branches, 2, Seq(C)), ShortBranches(branches, 2), NEW limit \in Nat,
           NEW F, Merges(F, branches, limit), NEW i \in DOMAIN F,
           NEW d, FromBranches(branches, d), WorseIn(branches, F[i].chunk, d)
    PROVE  \E j \in 1 .. (i - 1) : F[j].chunk = d
<1> DEFINE v == 4 + w
<1> DEFINE e == F[i].chunk
<1>0. Worse(InBranch(branches, 1, e), InBranch(branches, 2, e),
            InBranch(branches, 1, d), InBranch(branches, 2, d))
  BY DEF WorseIn
<1>a. PICK b \in 1 .. 2 : \E r \in 1 .. Len(branches[b]) : branches[b][r] = d
  BY DEF FromBranches
<1>b. PICK r \in 1 .. Len(branches[b]) : branches[b][r] = d
  BY <1>a
<1>c. e = F[i].chunk
  OBVIOUS
<1> HIDE DEF e
<1>1. MergesFrom(branches, limit, 2, C, v)
  BY MergeSorts, 2 \in Nat
<1>2. v \in Nat \ {0}
  OBVIOUS
<1> HIDE DEF v
<1>4. PICK k \in Nat : \E out, chunks, keys, order :
        /\ MergesAs(out, k, chunks, keys, order, branches, 2, C, v)
        /\ RankedAs(MergeBranches(branches, limit), First(limit, out))
  BY <1>1 DEF MergesFrom
<1>5. PICK out, chunks, keys, order :
        /\ MergesAs(out, k, chunks, keys, order, branches, 2, C, v)
        /\ RankedAs(MergeBranches(branches, limit), First(limit, out))
  BY <1>4
<1>6. /\ chunks \in [1 .. k -> C] /\ out = [p \in 1 .. k |-> chunks[order[p]]]
      /\ \A p \in 1 .. k : keys[p] = MergeKey(branches, chunks[p])
      /\ keys \in [1 .. k -> Tuples(v)] /\ SortsBy(order, k, keys) /\ order \in [1 .. k -> 1 .. k]
      /\ AllOfBranches(chunks, k, branches, 2)
  BY <1>5 DEF MergesAs, IsList, IsRead, MergeKeys, SortsBy
<1>7. IsList(out, k, C)
  BY <1>6 DEF IsList
<1> DEFINE l == Least(limit, k)
<1> DEFINE merged == First(limit, out)
<1>8. /\ IsList(First(limit, out), l, C) /\ l \in Nat /\ l <= k
      /\ \A p \in 1 .. l : First(limit, out)[p] = out[p]
  BY <1>7, FirstOfList
<1> HIDE DEF l, merged
<1>9. DOMAIN merged = 1 .. l /\ \A p \in 1 .. l : merged[p] = out[p]
  BY <1>8 DEF IsList, merged
<1>10. F = [p \in 1 .. l |-> [chunk |-> merged[p], rank |-> p]]
  BY <1>5, <1>9 DEF Merges, RankedAs, merged
<1>11. DOMAIN F = 1 .. l /\ \A p \in 1 .. l : F[p].chunk = chunks[order[p]]
  <2>1. \A p \in 1 .. l : p \in 1 .. k
    BY <1>8
  <2> QED
    BY <1>6, <1>9, <1>10, <2>1
<1>12. i \in 1 .. l /\ i \in 1 .. k /\ order[i] \in 1 .. k /\ e = chunks[order[i]]
  BY <1>6, <1>8, <1>11, <1>c
<1>13. PICK q \in 1 .. k : chunks[q] = d
  BY <1>6, <1>b DEF AllOfBranches
<1>14. d \in C /\ e \in C
  BY <1>6, <1>12, <1>13
<1> DEFINE e1 == InBranch(branches, 1, e)
<1> DEFINE e2 == InBranch(branches, 2, e)
<1> DEFINE d1 == InBranch(branches, 1, d)
<1> DEFINE d2 == InBranch(branches, 2, d)
<1>15. /\ e1 \in Ranks /\ e2 \in Ranks
       /\ \/ e1 # Missing \/ e2 # Missing
          => MergeKey(branches, e)[1] = - (ShareOf(MergeK, e1) + ShareOf(MergeK, e2))
  BY <1>14, MergeKeyFirst
<1>16. /\ d1 \in Ranks /\ d2 \in Ranks
       /\ \/ d1 # Missing \/ d2 # Missing
          => MergeKey(branches, d)[1] = - (ShareOf(MergeK, d1) + ShareOf(MergeK, d2))
  BY <1>14, MergeKeyFirst
<1>17. \A c : (\E a \in 1 .. 2 : \E p \in 1 .. Len(branches[a]) : branches[a][p] = c)
         => InBranch(branches, 1, c) # Missing \/ InBranch(branches, 2, c) # Missing
  <2> SUFFICES ASSUME NEW c, NEW a \in 1 .. 2, NEW p \in 1 .. Len(branches[a]), branches[a][p] = c
               PROVE  InBranch(branches, 1, c) # Missing \/ InBranch(branches, 2, c) # Missing
    OBVIOUS
  <2>1. branches[a] \in Seq(C) /\ Len(branches[a]) <= RankDepth
    BY DEF IsList, ShortBranches
  <2>2. Contains(branches[a], c)
    BY DEF Contains
  <2>3. RankIn(branches[a], c) \in 1 .. RankDepth
    BY <2>1, <2>2, InBranchIs
  <2>4. InBranch(branches, a, c) # Missing
    BY <2>2, <2>3, RankingAssumption DEF InBranch, Missing
  <2>5. a = 1 \/ a = 2
    OBVIOUS
  <2> QED
    BY <2>4, <2>5
<1>18. (e1 # Missing \/ e2 # Missing) /\ (d1 # Missing \/ d2 # Missing)
  <2>1. \E a \in 1 .. 2 : \E p \in 1 .. Len(branches[a]) : branches[a][p] = e
    <3> DEFINE j == order[i]
    <3>1. j \in 1 .. k /\ e = chunks[j]
      BY <1>12
    <3> HIDE DEF j
    <3>2. \E a \in 1 .. 2 : \E p \in 1 .. Len(branches[a]) : branches[a][p] = chunks[j]
      BY <1>6, <3>1 DEF AllOfBranches
    <3> QED
      BY <3>1, <3>2
  <2>2. \E a \in 1 .. 2 : \E p \in 1 .. Len(branches[a]) : branches[a][p] = d
    BY <1>a
  <2> QED
    BY <1>17, <2>1, <2>2
<1>19. MergeK \in Nat \ {0} /\ Worse(e1, e2, d1, d2)
  BY <1>0 DEF MergeK
<1> HIDE DEF e1, e2, d1, d2
<1> DEFINE x == ShareOf(MergeK, e1) + ShareOf(MergeK, e2)
<1> DEFINE y == ShareOf(MergeK, d1) + ShareOf(MergeK, d2)
<1>20. x < y
  BY <1>15, <1>16, <1>19, BetterHasMore
<1>21. x \in Nat /\ y \in Nat
  <2>1. ShareOf(MergeK, e1) \in Nat /\ ShareOf(MergeK, e2) \in Nat
    BY <1>15, <1>19, ShareOfDecreases
  <2>2. ShareOf(MergeK, d1) \in Nat /\ ShareOf(MergeK, d2) \in Nat
    BY <1>16, <1>19, ShareOfDecreases
  <2> QED
    BY <2>1, <2>2
<1>22. MergeKey(branches, e)[1] = - x /\ MergeKey(branches, d)[1] = - y
  BY <1>15, <1>16, <1>18
<1> HIDE DEF x, y
<1> DEFINE kd == keys[q]
<1> DEFINE ke == keys[order[i]]
<1>23. kd \in Tuples(v) /\ ke \in Tuples(v) /\ kd[1] = - y /\ ke[1] = - x
  BY <1>6, <1>12, <1>13, <1>22
<1> HIDE DEF kd, ke
<1>24. kd[1] < ke[1]
  BY <1>20, <1>21, <1>23
<1>25. Before(kd, ke)
  BY <1>2, <1>23, <1>24, SmallerFirst
<1>26. Before(keys[q], keys[order[i]]) /\ SortsBy(order, k, keys)
  BY <1>6, <1>25 DEF kd, ke
<1>27. \E j \in 1 .. (i - 1) : order[j] = q
  BY <1>12, <1>26, SmallerIsEarlier
<1>28. PICK j \in 1 .. (i - 1) : order[j] = q
  BY <1>27
<1>29. j \in 1 .. l
  BY <1>8, <1>12
<1> QED
  BY <1>11, <1>13, <1>28, <1>29

-----------------------------------------------------------------------------
(* Pareto layers.                                                          *)

Rankable(S) == IsFiniteSet(S) /\ \A c \in S : c.semantic \in Int /\ c.lexical \in Int

(* Some member of a finite set is dominated by none.                       *)
LEMMA FrontierNotEmpty ==
    ASSUME NEW S, Rankable(S), S # {}
    PROVE  Frontier(S) # {} /\ Frontier(S) \subseteq S
<1> DEFINE sum == [c \in S |-> c.semantic + c.lexical]
<1> DEFINE W == {sum[c] : c \in S}
<1>1. \A c \in S : c.semantic \in Int /\ c.lexical \in Int /\ sum[c] = c.semantic + c.lexical
  BY DEF Rankable
<1> HIDE DEF sum
<1>2. W \in SUBSET Int /\ W # {}
  BY <1>1
<1>3. IsFiniteSet(W)
  BY ImageFinite DEF Rankable
<1> HIDE DEF W
<1>4. Min(W) \in W /\ \A x \in W : Min(W) <= x
  BY <1>2, <1>3, MaxMinAre
<1> DEFINE m == Min(W)
<1> HIDE DEF m
<1>5. PICK c \in S : sum[c] = m
  BY <1>4 DEF W, m
<1>6. ASSUME NEW d \in S, Dominates(d, c) PROVE FALSE
  <2>1. sum[d] < sum[c]
    <3> DEFINE p == c.semantic
    <3> DEFINE q == c.lexical
    <3> DEFINE r == d.semantic
    <3> DEFINE s == d.lexical
    <3>1. p \in Int /\ q \in Int /\ sum[c] = p + q /\ r \in Int /\ s \in Int /\ sum[d] = r + s
      BY <1>1
    <3>2. r <= p /\ s <= q /\ (r < p \/ s < q)
      BY <1>6 DEF Dominates
    <3> HIDE DEF p, q, r, s
    <3> QED
      BY <3>1, <3>2
  <2>2. sum[d] \in W /\ sum[d] \in Int /\ sum[c] \in Int
    BY <1>1 DEF W
  <2> QED
    BY <1>4, <1>5, <2>1, <2>2 DEF m
<1> QED
  BY <1>5, <1>6 DEF Frontier

(* The sets that are left after each layer has been taken away.            *)
Layers(left, S, N) ==
  /\ left \in [0 .. N -> SUBSET S] /\ left[0] = S
  /\ \A n \in 1 .. N : left[n] = left[n - 1] \ Frontier(left[n - 1])

DepthIs(S, left, N) ==
  \A c \in S : FrontierDepth(S, c) = CHOOSE n \in 1 .. N : c \in Frontier(left[n - 1])

(* FrontierDepth peels off frontiers one by one, and names the layer of each. *)
LEMMA FrontierDepthIs ==
    ASSUME NEW S, IsFiniteSet(S)
    PROVE  /\ Cardinality(S) \in Nat
           /\ \E left : Layers(left, S, Cardinality(S)) /\ DepthIs(S, left, Cardinality(S))
<1> DEFINE N == Cardinality(S)
<1> DEFINE T == SUBSET S
<1> DEFINE st == [x \in (1 .. N) \X T |-> x[2] \ Frontier(x[2])]
<1> DEFINE Is(f) == f = [n \in 0 .. N |-> IF n = 0 THEN S ELSE f[n - 1] \ Frontier(f[n - 1])]
<1> DEFINE left == CHOOSE f : Is(f)
<1>1. N \in Nat
  BY FS_CardinalityType
<1>2. DepthIs(S, left, N)
  BY DEF FrontierDepth, DepthIs
<1> HIDE DEF N
<1>3. \A k \in 1 .. N, v \in T : st[<<k, v>>] = v \ Frontier(v) /\ st[<<k, v>>] \in T
  OBVIOUS
<1>4. Stepping(st, 1 .. N, T)
  BY DEF Stepping
<1> HIDE DEF st, T
<1>5. S \in T
  BY DEF T
<1>6. PICK g : PrefixValues(g, N, T, S, st)
  BY <1>1, <1>4, <1>5, PrefixesExist
<1>7. /\ g \in [0 .. N -> T] /\ g[0] = S
      /\ \A k \in 1 .. N : g[k] = st[<<k, g[k - 1]>>]
  BY <1>6 DEF PrefixValues
<1>8. \A k \in 1 .. N : g[k] = g[k - 1] \ Frontier(g[k - 1])
  <2> SUFFICES ASSUME NEW k \in 1 .. N PROVE g[k] = g[k - 1] \ Frontier(g[k - 1])
    OBVIOUS
  <2>1. k - 1 \in 0 .. N
    BY <1>1
  <2>2. g[k - 1] \in T
    BY <1>7, <2>1
  <2> QED
    BY <1>3, <1>7, <2>2
<1>9. Is(g)
  <2>1. g = [n \in 0 .. N |-> g[n]]
    BY <1>7
  <2>2. \A n \in 0 .. N : g[n] = IF n = 0 THEN S ELSE g[n - 1] \ Frontier(g[n - 1])
    <3> SUFFICES ASSUME NEW n \in 0 .. N PROVE g[n] = IF n = 0 THEN S ELSE g[n - 1] \ Frontier(g[n - 1])
      OBVIOUS
    <3>1. CASE n = 0
      BY <1>7, <3>1
    <3>2. CASE n # 0
      <4>1. n \in 1 .. N
        BY <1>1, <3>2
      <4> QED
        BY <1>8, <3>2, <4>1
    <3> QED
      BY <3>1, <3>2
  <2> QED
    BY <2>1, <2>2
<1>10. Is(left)
  BY <1>9
<1> HIDE DEF left
<1>11. left[0] = S /\ DOMAIN left = 0 .. N /\ left = [n \in 0 .. N |-> left[n]]
  BY <1>1, <1>10
<1>12. \A n \in 1 .. N : left[n] = left[n - 1] \ Frontier(left[n - 1])
  <2> SUFFICES ASSUME NEW n \in 1 .. N PROVE left[n] = left[n - 1] \ Frontier(left[n - 1])
    OBVIOUS
  <2>1. n \in 0 .. N /\ n # 0
    BY <1>1
  <2> QED
    BY <1>10, <2>1
<1> DEFINE M == {n \in 0 .. N : left[n] \in T}
<1>13. 0 \in M
  BY <1>1, <1>5, <1>11
<1>14. \A n \in 0 .. (N - 1) : n \in M => n + 1 \in M
  <2> SUFFICES ASSUME NEW n \in 0 .. (N - 1), n \in M PROVE n + 1 \in M
    OBVIOUS
  <2>1. n + 1 \in 1 .. N /\ n + 1 \in 0 .. N /\ (n + 1) - 1 = n
    BY <1>1
  <2>2. left[n + 1] = left[n] \ Frontier(left[n])
    BY <1>12, <2>1
  <2> QED
    BY <2>1, <2>2 DEF T
<1> HIDE DEF M
<1>15. \A n \in 0 .. N : n \in M
  BY <1>1, <1>13, <1>14, UpTo
<1>16. left \in [0 .. N -> T]
  BY <1>11, <1>15 DEF M
<1>17. Layers(left, S, N)
  BY <1>11, <1>12, <1>16 DEF Layers, T
<1> QED
  BY <1>1, <1>2, <1>17 DEF N

(* A layer that is taken away stays away, and in the end nothing is left.  *)
LEMMA LayersShrink ==
    ASSUME NEW S, NEW N \in Nat, NEW left, Layers(left, S, N)
    PROVE  \A b \in 0 .. N : \A a \in 0 .. b : left[b] \subseteq left[a]
<1> DEFINE M == {b \in 0 .. N : \A a \in 0 .. b : left[b] \subseteq left[a]}
<1>1. 0 \in M
  OBVIOUS
<1>2. \A b \in 0 .. (N - 1) : b \in M => b + 1 \in M
  <2> SUFFICES ASSUME NEW b \in 0 .. (N - 1), b \in M PROVE b + 1 \in M
    OBVIOUS
  <2>1. b + 1 \in 1 .. N /\ b + 1 \in 0 .. N /\ (b + 1) - 1 = b
    OBVIOUS
  <2>2. left[b + 1] \subseteq left[b]
    BY <2>1 DEF Layers
  <2>3. ASSUME NEW a \in 0 .. (b + 1) PROVE left[b + 1] \subseteq left[a]
    <3>1. CASE a = b + 1
      BY <3>1
    <3>2. CASE a # b + 1
      <4>1. a \in 0 .. b
        BY <3>2
      <4>2. left[b] \subseteq left[a]
        BY <4>1
      <4> QED
        BY <2>2, <4>2
    <3> QED
      BY <3>1, <3>2
  <2> QED
    BY <2>1, <2>3
<1> HIDE DEF M
<1>3. \A b \in 0 .. N : b \in M
  BY <1>1, <1>2, UpTo
<1> QED
  BY <1>3 DEF M

(* After as many layers as there are hits nothing is left. *)
LEMMA LayersEnd ==
    ASSUME NEW S, Rankable(S), NEW left, Layers(left, S, Cardinality(S))
    PROVE  left[Cardinality(S)] = {}
<1> DEFINE N == Cardinality(S)
<1>1. N \in Nat /\ IsFiniteSet(S)
  BY FS_CardinalityType DEF Rankable
<1>2. left \in [0 .. N -> SUBSET S] /\ left[0] = S /\ Cardinality(left[0]) = N
  BY DEF Layers
<1>3. \A n \in 1 .. N : left[n] = left[n - 1] \ Frontier(left[n - 1])
  BY DEF Layers
<1> HIDE DEF N
<1>4. \A n \in 0 .. N : IsFiniteSet(left[n]) /\ Rankable(left[n]) /\ Cardinality(left[n]) \in Nat
  <2> SUFFICES ASSUME NEW n \in 0 .. N
               PROVE  IsFiniteSet(left[n]) /\ Rankable(left[n]) /\ Cardinality(left[n]) \in Nat
    OBVIOUS
  <2>1. left[n] \in SUBSET S
    BY <1>2
  <2>2. IsFiniteSet(left[n])
    BY <1>1, <2>1, FS_Subset
  <2> QED
    BY <2>1, <2>2, FS_CardinalityType DEF Rankable
<1> DEFINE M == {n \in 0 .. N : Cardinality(left[n]) <= N - n}
<1>5. 0 \in M
  BY <1>1, <1>2
<1>6. \A n \in 0 .. (N - 1) : n \in M => n + 1 \in M
  <2> SUFFICES ASSUME NEW n \in 0 .. (N - 1), n \in M PROVE n + 1 \in M
    OBVIOUS
  <2>1. n + 1 \in 1 .. N /\ n + 1 \in 0 .. N /\ (n + 1) - 1 = n /\ n \in 0 .. N
    BY <1>1
  <2> DEFINE A == left[n]
  <2> DEFINE B == left[n + 1]
  <2>2. B = A \ Frontier(A)
    BY <1>3, <2>1
  <2>3. IsFiniteSet(A) /\ Rankable(A) /\ Cardinality(A) \in Nat /\ Cardinality(B) \in Nat
    BY <1>4, <2>1
  <2>4. Cardinality(A) <= N - n
    OBVIOUS
  <2> HIDE DEF A, B
  <2>5. CASE A = {}
    <3>1. Cardinality(B) = 0
      BY <2>2, <2>5, FS_EmptySet
    <3> QED
      BY <1>1, <2>1, <3>1 DEF B
  <2>6. CASE A # {}
    <3>1. Frontier(A) # {} /\ Frontier(A) \subseteq A
      BY <2>3, <2>6, FrontierNotEmpty
    <3>2. B \subseteq A /\ B # A
      BY <2>2, <3>1
    <3>3. Cardinality(B) <= Cardinality(A) /\ Cardinality(B) # Cardinality(A)
      BY <2>3, <3>2, FS_Subset
    <3>4. Cardinality(B) <= N - (n + 1)
      BY <1>1, <2>3, <2>4, <3>3
    <3> QED
      BY <2>1, <3>4 DEF B
  <2> QED
    BY <2>5, <2>6
<1> HIDE DEF M
<1>7. \A n \in 0 .. N : n \in M
  BY <1>1, <1>5, <1>6, UpTo
<1>8. N \in M
  BY <1>1, <1>7
<1>9. Cardinality(left[N]) <= N - N
  BY <1>8 DEF M
<1>10. N \in 0 .. N
  BY <1>1
<1>11. Cardinality(left[N]) = 0
  BY <1>1, <1>4, <1>9, <1>10
<1>12. left[N] = {}
  BY <1>4, <1>10, <1>11, FS_EmptySet
<1> QED
  BY <1>12 DEF N

(* What dominates a hit is in a layer before it.                           *)
LEMMA DepthDecreases ==
    ASSUME NEW S, Rankable(S), NEW c \in S
    PROVE  /\ FrontierDepth(S, c) \in Nat
           /\ \A d \in S : Dominates(d, c) => FrontierDepth(S, d) < FrontierDepth(S, c)
<1> DEFINE N == Cardinality(S)
<1>1. IsFiniteSet(S)
  BY DEF Rankable
<1>2. N \in Nat /\ \E left : Layers(left, S, N) /\ DepthIs(S, left, N)
  BY <1>1, FrontierDepthIs
<1>3. PICK left : Layers(left, S, N) /\ DepthIs(S, left, N)
  BY <1>2
<1>4. left[N] = {}
  BY <1>3, LayersEnd
<1> HIDE DEF N
<1>5. left[0] = S /\ \A n \in 1 .. N : left[n] = left[n - 1] \ Frontier(left[n - 1])
  BY <1>3 DEF Layers
<1>6. \A b \in 0 .. N : \A a \in 0 .. b : left[b] \subseteq left[a]
  BY <1>2, <1>3, LayersShrink
<1> DEFINE At(d, n) == d \in Frontier(left[n - 1])
<1>7. ASSUME NEW d \in S PROVE \E n \in 1 .. N : At(d, n)
  <2> SUFFICES ASSUME \A n \in 1 .. N : d \notin Frontier(left[n - 1]) PROVE FALSE
    OBVIOUS
  <2> DEFINE M == {n \in 0 .. N : d \in left[n]}
  <2>1. 0 \in M
    BY <1>2, <1>5
  <2>2. \A n \in 0 .. (N - 1) : n \in M => n + 1 \in M
    <3> SUFFICES ASSUME NEW n \in 0 .. (N - 1), n \in M PROVE n + 1 \in M
      OBVIOUS
    <3>1. n + 1 \in 1 .. N /\ n + 1 \in 0 .. N /\ (n + 1) - 1 = n
      BY <1>2
    <3>2. left[n + 1] = left[n] \ Frontier(left[n]) /\ d \notin Frontier(left[n])
      BY <1>5, <3>1
    <3> QED
      BY <3>1, <3>2
  <2> HIDE DEF M
  <2>3. \A n \in 0 .. N : n \in M
    BY <1>2, <2>1, <2>2, UpTo
  <2>4. N \in M
    BY <1>2, <2>3
  <2> QED
    BY <1>4, <2>4 DEF M
<1>8. ASSUME NEW d \in S, NEW a \in 1 .. N, NEW b \in 1 .. N, At(d, a), At(d, b) PROVE ~ (a < b)
  <2> SUFFICES ASSUME a < b PROVE FALSE
    OBVIOUS
  <2>1. b - 1 \in 0 .. N /\ a \in 0 .. (b - 1)
    BY <1>2
  <2>2. left[b - 1] \subseteq left[a]
    BY <1>6, <2>1
  <2>3. d \in left[b - 1]
    BY <1>8 DEF Frontier
  <2>4. d \notin left[a]
    BY <1>5, <1>8
  <2> QED
    BY <2>2, <2>3, <2>4
<1> DEFINE depth(d) == FrontierDepth(S, d)
<1>9. ASSUME NEW d \in S PROVE depth(d) \in 1 .. N /\ At(d, depth(d))
  BY <1>3, <1>7, <1>9 DEF DepthIs
<1>10. ASSUME NEW d \in S, Dominates(d, c) PROVE depth(d) < depth(c)
  <2> DEFINE n == depth(c)
  <2> DEFINE m == depth(d)
  <2>1. n \in 1 .. N /\ c \in Frontier(left[n - 1])
    BY <1>9
  <2>2. m \in 1 .. N /\ At(d, m)
    BY <1>9
  <2> HIDE DEF n, m
  <2>3. d \notin left[n - 1]
    BY <1>10, <2>1 DEF Frontier
  <2>4. PICK k \in 1 .. (n - 1) : At(d, k)
    <3> SUFFICES ASSUME \A k \in 1 .. (n - 1) : d \notin Frontier(left[k - 1]) PROVE FALSE
      OBVIOUS
    <3> DEFINE p == n - 1
    <3> DEFINE M == {k \in 0 .. p : d \in left[k]}
    <3>1. p \in Nat /\ p <= N
      BY <1>2, <2>1
    <3>2. 0 \in M
      BY <1>5, <3>1
    <3>3. \A k \in 0 .. (p - 1) : k \in M => k + 1 \in M
      <4> SUFFICES ASSUME NEW k \in 0 .. (p - 1), k \in M PROVE k + 1 \in M
        OBVIOUS
      <4>1. k + 1 \in 1 .. N /\ k + 1 \in 0 .. p /\ k + 1 \in 1 .. p /\ (k + 1) - 1 = k
        BY <1>2, <3>1
      <4>2. left[k + 1] = left[k] \ Frontier(left[k])
        BY <1>5, <4>1
      <4>3. d \notin Frontier(left[k])
        BY <4>1
      <4> QED
        BY <4>1, <4>2, <4>3
    <3> HIDE DEF M, p
    <3>4. \A k \in 0 .. p : k \in M
      BY <3>1, <3>2, <3>3, UpTo
    <3>5. p \in M
      BY <3>1, <3>4
    <3> QED
      BY <2>3, <3>5 DEF M, p
  <2>5. k \in 1 .. N /\ k < n
    BY <1>2, <2>1, <2>4
  <2>6. ~ (k < m)
    BY <1>8, <2>2, <2>4, <2>5
  <2>7. m < n
    BY <1>2, <2>1, <2>2, <2>5, <2>6
  <2> QED
    BY <2>7 DEF n, m
<1>11. depth(c) \in Nat
  BY <1>2, <1>9
<1> QED
  BY <1>10, <1>11

(* The rerank is by layers: behind each hit that dominates it.             *)
RanksOf(baseline, n, lexicalRank) ==
  DOMAIN baseline = 1 .. n
  /\ \A i \in 1 .. n : baseline[i].rank \in Int /\ lexicalRank[baseline[i].chunk] \in Int
Reranks(R, baseline, lexicalRank) == R = ParetoRerank(baseline, lexicalRank)
KeepsRanks(R, baseline, n, lexicalRank) ==
  /\ DOMAIN R = 1 .. n /\ R = [i \in 1 .. n |-> R[i]]
  /\ \A i \in 1 .. n : \E p \in 1 .. n : R[i] = baseline[p]
  /\ \A i, q \in 1 .. n :
       Worse(lexicalRank[R[i].chunk], R[i].rank, lexicalRank[baseline[q].chunk], baseline[q].rank)
         => \E j \in 1 .. (i - 1) : R[j] = baseline[q]

(* The rerank puts a dominating hit before the hits it dominates. *)
LEMMA ParetoKeepsDominance ==
    ASSUME NEW n \in Nat, NEW baseline, NEW lexicalRank, RanksOf(baseline, n, lexicalRank),
           NEW R, Reranks(R, baseline, lexicalRank)
    PROVE  KeepsRanks(R, baseline, n, lexicalRank)
<1> DEFINE annotated == [i \in DOMAIN baseline |->
                           [hit |-> baseline[i], semantic |-> baseline[i].rank,
                            lexical |-> lexicalRank[baseline[i].chunk]]]
<1> DEFINE layers == ToSet(annotated)
<1> DEFINE keys == [i \in 1 .. n |-> <<FrontierDepth(layers, annotated[i])>>]
<1> DEFINE order == SortingOf(keys)
<1> DEFINE ordered == Sorted(annotated, LAMBDA c : <<FrontierDepth(layers, c)>>)
<1>1. /\ DOMAIN baseline = 1 .. n
      /\ \A i \in 1 .. n : baseline[i].rank \in Int /\ lexicalRank[baseline[i].chunk] \in Int
  BY DEF RanksOf
<1>2. R = [i \in DOMAIN ordered |-> ordered[i].hit]
  BY DEF Reranks, ParetoRerank
<1>3. /\ DOMAIN annotated = 1 .. n
      /\ \A i \in 1 .. n : /\ annotated[i].hit = baseline[i]
                          /\ annotated[i].semantic = baseline[i].rank
                          /\ annotated[i].lexical = lexicalRank[baseline[i].chunk]
  BY <1>1
<1> HIDE DEF annotated
<1>4. layers = {annotated[i] : i \in 1 .. n}
  BY <1>3 DEF ToSet
<1>5. ordered = [p \in 1 .. n |-> annotated[order[p]]]
  BY <1>3 DEF Sorted
<1> HIDE DEF layers, ordered
<1>6. Rankable(layers)
  <2>1. IsFiniteSet(1 .. n)
    BY FS_Interval, 1 \in Int, n \in Int
  <2>2. IsFiniteSet(layers)
    BY <1>4, <2>1, ImageFinite
  <2> QED
    BY <1>1, <1>3, <1>4, <2>2 DEF Rankable
<1> DEFINE depth(i) == FrontierDepth(layers, annotated[i])
<1>7. \A i \in 1 .. n : depth(i) \in Nat
  <2> SUFFICES ASSUME NEW i \in 1 .. n PROVE depth(i) \in Nat
    OBVIOUS
  <2>1. annotated[i] \in layers
    BY <1>4
  <2> QED
    BY <1>6, <2>1, DepthDecreases
<1>8. ASSUME NEW i \in 1 .. n, NEW q \in 1 .. n, Dominates(annotated[q], annotated[i])
      PROVE  depth(q) < depth(i)
  <2>1. annotated[i] \in layers /\ annotated[q] \in layers
    BY <1>4
  <2> QED
    BY <1>6, <1>8, <2>1, DepthDecreases
<1>9. IsList(keys, n, Tuples(1)) /\ \A i \in 1 .. n : keys[i] = <<depth(i)>>
  <2>1. ASSUME NEW i \in 1 .. n PROVE <<depth(i)>> \in Tuples(1)
    <3> DEFINE r == depth(i)
    <3>1. r \in Int
      BY <1>7
    <3> HIDE DEF r
    <3>2. <<r>> = [j \in 1 .. 1 |-> r]
      OBVIOUS
    <3>3. <<r>> \in Tuples(1)
      BY <3>1, <3>2 DEF Tuples
    <3> QED
      BY <3>3 DEF r
  <2>2. keys \in [1 .. n -> Tuples(1)]
    BY <2>1
  <2> QED
    BY <2>2 DEF IsList
<1> HIDE DEF keys, depth
<1>10. SortsBy(order, n, keys)
  BY <1>9, SortingIs, 1 \in Nat
<1>11. order \in [1 .. n -> 1 .. n]
  BY <1>10 DEF SortsBy
<1> HIDE DEF order
<1>12. DOMAIN R = 1 .. n /\ R = [i \in 1 .. n |-> R[i]] /\ \A i \in 1 .. n : R[i] = baseline[order[i]]
  BY <1>2, <1>3, <1>5, <1>11
<1>13. ASSUME NEW i \in 1 .. n, NEW q \in 1 .. n,
              Worse(lexicalRank[R[i].chunk], R[i].rank, lexicalRank[baseline[q].chunk], baseline[q].rank)
       PROVE  \E j \in 1 .. (i - 1) : R[j] = baseline[q]
  <2> DEFINE o == order[i]
  <2>1. o \in 1 .. n /\ R[i] = baseline[o]
    BY <1>11, <1>12
  <2> HIDE DEF o
  <2>2. Worse(lexicalRank[baseline[o].chunk], baseline[o].rank,
              lexicalRank[baseline[q].chunk], baseline[q].rank)
    BY <1>13, <2>1
  <2>3. Dominates(annotated[q], annotated[o])
    <3> DEFINE a == lexicalRank[baseline[o].chunk]
    <3> DEFINE b == baseline[o].rank
    <3> DEFINE c == lexicalRank[baseline[q].chunk]
    <3> DEFINE d == baseline[q].rank
    <3>1. a \in Int /\ b \in Int /\ c \in Int /\ d \in Int
      BY <1>1, <2>1
    <3>2. /\ annotated[o].lexical = a /\ annotated[o].semantic = b
          /\ annotated[q].lexical = c /\ annotated[q].semantic = d
      BY <1>3, <2>1
    <3>3. Worse(a, b, c, d)
      BY <2>2
    <3> HIDE DEF a, b, c, d
    <3> QED
      BY <3>1, <3>2, <3>3 DEF Worse, Dominates
  <2>4. depth(q) < depth(o) /\ depth(q) \in Int /\ depth(o) \in Int
    BY <1>7, <1>8, <2>1, <2>3
  <2>5. Before(<<depth(q)>>, <<depth(o)>>)
    BY <2>4, BeforeOfOne
  <2>6. Before(keys[q], keys[order[i]])
    BY <1>9, <2>1, <2>5 DEF o
  <2>7. \E j \in 1 .. (i - 1) : order[j] = q
    BY <1>10, <2>6, SmallerIsEarlier
  <2>8. PICK j \in 1 .. (i - 1) : order[j] = q
    BY <2>7
  <2>9. j \in 1 .. n
    OBVIOUS
  <2> QED
    BY <1>12, <2>8, <2>9
<1>14. \A i \in 1 .. n : \E p \in 1 .. n : R[i] = baseline[p]
  BY <1>11, <1>12
<1> QED
  BY <1>12, <1>13, <1>14 DEF KeepsRanks

-----------------------------------------------------------------------------
(* Selection.                                                              *)

(* What Keep has kept after k of n elements.                               *)
KeepsOf(g, n, T, s, S) ==
  /\ g \in [0 .. n -> Seq(T)] /\ g[0] = <<>>
  /\ \A k \in 1 .. n : g[k] = IF s[k] \in S THEN Append(g[k - 1], s[k]) ELSE g[k - 1]

(* Keep is the last of the prefixes it keeps. *)
LEMMA KeepIs ==
    ASSUME NEW T, NEW n \in Nat, NEW s \in [1 .. n -> T], NEW S
    PROVE  \E g : KeepsOf(g, n, T, s, S) /\ Keep(s, S) = g[n]
<1> DEFINE Q == Seq(T)
<1> DEFINE step(k, v) == IF s[k] \in S THEN Append(v, s[k]) ELSE v
<1> DEFINE st == [x \in (1 .. n) \X Q |-> step(x[1], x[2])]
<1> DEFINE Is(h) == h = [A \in SUBSET (1 .. n) |->
                           IF A = {} THEN <<>> ELSE step(Max(A), h[A \ {Max(A)}])]
<1> DEFINE it == CHOOSE h : Is(h)
<1>1. \A k \in 1 .. n, v \in Q : step(k, v) \in Q
  OBVIOUS
<1>2. \A k \in 1 .. n, v \in Q : st[<<k, v>>] = step(k, v)
  OBVIOUS
<1>3. \A x \in (1 .. n) \X Q : x[1] \in 1 .. n /\ x[2] \in Q
  OBVIOUS
<1>4. <<>> \in Q
  OBVIOUS
<1>5. Keep(s, S) = it[1 .. n]
  <2>1. DOMAIN s = 1 .. n
    OBVIOUS
  <2> QED
    BY <2>1 DEF Keep, FoldLeft, MapThenFoldSet
<1> HIDE DEF Q, step
<1>6. st \in [(1 .. n) \X Q -> Q]
  BY <1>1, <1>3
<1> HIDE DEF st
<1>7. Stepping(st, 1 .. n, Q)
  BY <1>6 DEF Stepping
<1>8. \E h : Is(h)
  <2>1. PICK h : Folds(h, n, Q, <<>>, st)
    BY <1>4, <1>7, FoldExists
  <2>2. ASSUME NEW A \in SUBSET (1 .. n), A # {}
        PROVE  st[<<Max(A), h[A \ {Max(A)}]>>] = step(Max(A), h[A \ {Max(A)}])
    <3>1. Max(A) \in 1 .. n
      BY <2>2, MaxMinIn, 1 \in Int, n \in Int
    <3>2. h[A \ {Max(A)}] \in Q
      BY <2>1 DEF Folds
    <3> QED
      BY <1>2, <3>1, <3>2
  <2>3. h = [A \in SUBSET (1 .. n) |-> IF A = {} THEN <<>> ELSE step(Max(A), h[A \ {Max(A)}])]
    BY <2>1, <2>2 DEF Folds
  <2> QED
    BY <2>3
<1>9. Is(it)
  BY <1>8
<1> HIDE DEF it
<1>10. it[{}] = <<>>
  BY <1>9
<1>11. \A k \in 1 .. n : it[1 .. k] = step(k, it[1 .. (k - 1)])
  BY ZenonT(60), <1>9, PrefixStep
<1>12. StepsOn(it, n, Q, <<>>, st)
  BY <1>2, <1>10, <1>11 DEF StepsOn
<1>13. PICK g : PrefixValues(g, n, Q, <<>>, st) /\ g[n] = it[1 .. n]
  BY <1>4, <1>7, <1>12, FoldPrefixes
<1>14. /\ g \in [0 .. n -> Q] /\ g[0] = <<>>
       /\ \A k \in 1 .. n : g[k] = st[<<k, g[k - 1]>>]
  BY <1>13 DEF PrefixValues
<1>15. \A k \in 1 .. n : g[k - 1] \in Q
  BY <1>14
<1>16. \A k \in 1 .. n : g[k] = step(k, g[k - 1])
  BY <1>2, <1>14, <1>15
<1>17. KeepsOf(g, n, T, s, S)
  BY <1>14, <1>16 DEF KeepsOf, Q, step
<1> QED
  BY <1>5, <1>13, <1>17

(* Of a sequence that starts with members of S and goes on with others it  *)
(* keeps the start.                                                        *)
StartsIn(s, n, m, S) ==
  (\A j \in 1 .. m : s[j] \in S) /\ \A j \in (m + 1) .. n : s[j] \notin S

(* Keep takes the elements of S when they come first. *)
LEMMA KeepPrefix ==
    ASSUME NEW T, NEW n \in Nat, NEW s, IsList(s, n, T), NEW S, NEW m \in 0 .. n, StartsIn(s, n, m, S)
    PROVE  Keep(s, S) = [j \in 1 .. m |-> s[j]]
<1>1. s \in [1 .. n -> T]
  BY DEF IsList
<1>2. PICK g : KeepsOf(g, n, T, s, S) /\ Keep(s, S) = g[n]
  BY <1>1, KeepIs
<1> DEFINE part(k) == [j \in 1 .. Least(k, m) |-> s[j]]
<1> DEFINE M == {k \in 0 .. n : g[k] = part(k)}
<1>3. 0 \in M
  <2>1. Least(0, m) = 0
    BY DEF Least
  <2>2. part(0) = <<>>
    BY <2>1
  <2>3. g[0] = <<>> /\ 0 \in 0 .. n
    BY <1>2 DEF KeepsOf
  <2> HIDE DEF part
  <2> QED
    BY <2>2, <2>3
<1>4. \A k \in 0 .. (n - 1) : k \in M => k + 1 \in M
  <2> SUFFICES ASSUME NEW k \in 0 .. (n - 1), k \in M PROVE k + 1 \in M
    OBVIOUS
  <2>1. k + 1 \in 1 .. n /\ k + 1 \in 0 .. n /\ (k + 1) - 1 = k
    OBVIOUS
  <2>2. g[k + 1] = IF s[k + 1] \in S THEN Append(g[k], s[k + 1]) ELSE g[k]
    BY <1>2, <2>1 DEF KeepsOf
  <2>3. CASE k + 1 <= m
    <3>1. Least(k, m) = k /\ Least(k + 1, m) = k + 1
      BY <2>3 DEF Least
    <3>2. s[k + 1] \in S
      BY <2>3 DEF StartsIn
    <3>3. part(k) = [j \in 1 .. k |-> s[j]] /\ part(k + 1) = [j \in 1 .. (k + 1) |-> s[j]]
      BY <3>1
    <3>4. part(k) \in [1 .. k -> T]
      BY <1>1, <3>3
    <3> DEFINE p == part(k)
    <3> HIDE DEF p
    <3>9. p \in [1 .. k -> T]
      BY <3>4 DEF p
    <3>10. k \in Nat
      OBVIOUS
    <3>5. p \in [1 .. k -> T] /\ p \in Seq(T) /\ Len(p) = k /\ k \in Nat
      BY <3>9, <3>10
    <3>7. p = [j \in 1 .. k |-> s[j]]
      BY <3>3 DEF p
    <3>8. Append(p, s[k + 1]) = [j \in 1 .. (k + 1) |-> s[j]]
      BY <3>5, <3>7
    <3>6. Append(part(k), s[k + 1]) = part(k + 1)
      BY <3>3, <3>8 DEF p
    <3> HIDE DEF part
    <3> QED
      BY <2>1, <2>2, <3>2, <3>6
  <2>4. CASE ~ (k + 1 <= m)
    <3>1. Least(k, m) = m /\ Least(k + 1, m) = m
      BY <2>4 DEF Least
    <3>2. s[k + 1] \notin S
      BY <2>1, <2>4 DEF StartsIn
    <3> QED
      BY <2>1, <2>2, <3>1, <3>2
  <2> QED
    BY <2>3, <2>4
<1> HIDE DEF M
<1>5. \A k \in 0 .. n : k \in M
  BY <1>3, <1>4, UpTo
<1>6. g[n] = part(n)
  BY <1>5 DEF M
<1>7. Least(n, m) = m
  BY DEF Least
<1> QED
  BY <1>2, <1>6, <1>7

(* The selection is the reranked hits, or fewer of them and then a hit of  *)
(* the positional lane.                                                    *)
LaneOK(positional, m, start) ==
  /\ DOMAIN positional = 1 .. m
  /\ \A i \in 1 .. m : /\ start[positional[i]] \in Int
                      /\ positional[i].rank \in Int /\ positional[i].span \in Int
  /\ \A i, j \in 1 .. m : positional[i].rank = positional[j].rank => positional[i] = positional[j]
Selects(out, current, n, positional, m) ==
  \/ out = current
  \/ \E k \in 0 .. n : \E i \in 1 .. m : out = Append([j \in 1 .. k |-> current[j]], positional[i])

(* Guarded selection is the current order, or a beginning of it and one hit of the lane. *)
LEMMA SelectionIs ==
    ASSUME NEW T, NEW n \in Nat, NEW current, IsList(current, n, T),
           NEW m \in Nat, NEW positional, NEW start, LaneOK(positional, m, start)
    PROVE  Selects(GuardedSelection(current, positional, start), current, n, positional, m)
<1> DEFINE eligible == {h \in ToSet(positional) : ~ Contains(current, h)}
<1> DEFINE auxiliary == SmallestBy(eligible, LAMBDA h : <<start[h], h.rank, h.span>>)
<1> DEFINE key == [h \in eligible |-> <<start[h], h.rank, h.span>>]
<1>1. GuardedSelection(current, positional, start) =
        IF eligible = {} THEN current ELSE Append(First(MaxSelected - 1, current), auxiliary)
  BY DEF GuardedSelection
<1>2. auxiliary = CHOOSE x \in eligible : \A y \in eligible \ {x} :
                    Before(<<start[x], x.rank, x.span>>, <<start[y], y.rank, y.span>>)
  BY DEF SmallestBy
<1>3. ToSet(positional) = {positional[i] : i \in 1 .. m}
  BY DEF ToSet, LaneOK
<1>4. IsFiniteSet(eligible)
  <2>1. IsFiniteSet(1 .. m)
    BY FS_Interval, 1 \in Int, m \in Int
  <2>2. IsFiniteSet({positional[i] : i \in 1 .. m})
    BY <2>1, ImageFinite
  <2> QED
    BY <1>3, <2>2, FS_Subset
<1>5. \A h \in eligible : /\ \E i \in 1 .. m : h = positional[i]
                         /\ start[h] \in Int /\ h.rank \in Int /\ h.span \in Int
  BY <1>3 DEF LaneOK
<1>6. \A h, e \in eligible : h.rank = e.rank => h = e
  BY <1>3 DEF LaneOK
<1> HIDE DEF eligible, auxiliary
<1>7. \A h \in eligible : key[h] = <<start[h], h.rank, h.span>>
  OBVIOUS
<1>8. key \in [eligible -> Tuples(3)]
  <2>1. ASSUME NEW h \in eligible PROVE <<start[h], h.rank, h.span>> \in Tuples(3)
    <3> DEFINE a == start[h]
    <3> DEFINE r == h.rank
    <3> DEFINE q == h.span
    <3>1. a \in Int /\ r \in Int /\ q \in Int
      BY <1>5
    <3> HIDE DEF a, r, q
    <3>2. <<a, r, q>> \in Tuples(3)
      BY <3>1 DEF Tuples
    <3> QED
      BY <3>2 DEF a, r, q
  <2> QED
    BY <2>1
<1>9. \A x, y \in eligible : key[x] = key[y] => x = y
  <2> SUFFICES ASSUME NEW x \in eligible, NEW y \in eligible, key[x] = key[y] PROVE x = y
    OBVIOUS
  <2>1. <<start[x], x.rank, x.span>> = <<start[y], y.rank, y.span>>
    BY <1>7
  <2>2. x.rank = y.rank
    BY <2>1
  <2> QED
    BY <1>6, <2>2
<1> HIDE DEF key
<1>10. CASE eligible = {}
  BY <1>1, <1>10 DEF Selects
<1>11. CASE eligible # {}
  <2>1. \E x \in eligible : \A y \in eligible \ {x} : Before(key[x], key[y])
    BY <1>4, <1>8, <1>9, <1>11, SmallestExists, 3 \in Nat
  <2>2. \E x \in eligible : \A y \in eligible \ {x} :
          Before(<<start[x], x.rank, x.span>>, <<start[y], y.rank, y.span>>)
    BY <1>7, <2>1
  <2>3. auxiliary \in eligible
    BY <1>2, <2>2
  <2>4. PICK i \in 1 .. m : auxiliary = positional[i]
    BY <1>5, <2>3
  <2> DEFINE l == Least(MaxSelected - 1, n)
  <2> DEFINE cut == First(MaxSelected - 1, current)
  <2>5. MaxSelected - 1 \in Nat
    BY RankingAssumption
  <2> DEFINE c == MaxSelected - 1
  <2> HIDE DEF c
  <2>6. c \in Nat
    BY <2>5 DEF c
  <2>7. /\ IsList(First(c, current), Least(c, n), T)
        /\ Least(c, n) \in Nat /\ Least(c, n) <= n /\ Least(c, n) <= c
        /\ \A p \in 1 .. Least(c, n) : First(c, current)[p] = current[p]
    BY <2>6, FirstOfList
  <2>8. IsList(cut, l, T) /\ l \in 0 .. n /\ \A p \in 1 .. l : cut[p] = current[p]
    BY <2>7 DEF c
  <2> HIDE DEF l, cut
  <2>9. cut = [j \in 1 .. l |-> current[j]]
    BY <2>8 DEF IsList
  <2>10. GuardedSelection(current, positional, start) = Append([j \in 1 .. l |-> current[j]], positional[i])
    BY <1>1, <1>11, <2>4, <2>9 DEF cut
  <2> QED
    BY <2>8, <2>10 DEF Selects
<1> QED
  BY <1>10, <1>11

(* Of what is selected the reranked hits are the start.                    *)
Apart(current, n, positional, m, S) ==
  (\A j \in 1 .. n : current[j] \in S) /\ \A i \in 1 .. m : positional[i] \notin S

IsStart(s, current, n) == \E k \in 0 .. n : s = [j \in 1 .. k |-> current[j]]

(* What selection shows of the baseline is a beginning of its reranked order. *)
LEMMA SelectionShows ==
    ASSUME NEW T, NEW n \in Nat, NEW current, IsList(current, n, T),
           NEW m \in Nat, NEW positional, NEW out, Selects(out, current, n, positional, m),
           NEW S, Apart(current, n, positional, m, S)
    PROVE  IsStart(Keep(out, S), current, n)
<1> USE DEF IsStart
<1>1. current = [j \in 1 .. n |-> current[j]] /\ current \in [1 .. n -> T]
  BY DEF IsList
<1> USE DEF Apart
<1>2. CASE out = current
  <2>1. StartsIn(out, n, n, S) /\ IsList(out, n, T) /\ n \in 0 .. n
    BY <1>2 DEF StartsIn
  <2>2. Keep(out, S) = [j \in 1 .. n |-> out[j]]
    BY <2>1, KeepPrefix
  <2> QED
    BY <1>2, <2>1, <2>2
<1>3. CASE \E k \in 0 .. n : \E i \in 1 .. m : out = Append([j \in 1 .. k |-> current[j]], positional[i])
  <2>1. PICK k \in 0 .. n : \E i \in 1 .. m : out = Append([j \in 1 .. k |-> current[j]], positional[i])
    BY <1>3
  <2>2. PICK i \in 1 .. m : out = Append([j \in 1 .. k |-> current[j]], positional[i])
    BY <2>1
  <2> DEFINE U == T \cup {positional[i]}
  <2> DEFINE p == [j \in 1 .. k |-> current[j]]
  <2> DEFINE x == positional[i]
  <2>3. p \in [1 .. k -> U] /\ x \in U /\ k \in Nat
    BY <1>1
  <2> HIDE DEF U
  <2>4. \A j \in 1 .. k : p[j] = current[j]
    OBVIOUS
  <2> HIDE DEF p, x
  <2>5. out = Append(p, x)
    BY <2>2 DEF p, x
  <2>6. p \in Seq(U) /\ Len(p) = k
    BY <2>3
  <2>7. /\ out \in Seq(U) /\ Len(out) = k + 1 /\ out[k + 1] = x
        /\ \A j \in 1 .. k : out[j] = p[j]
    BY <2>3, <2>5, <2>6
  <2>8. out \in [1 .. (k + 1) -> U]
    BY <2>7
  <2>9. IsList(out, k + 1, U) /\ k \in 0 .. (k + 1) /\ k + 1 \in Nat
    BY <2>3, <2>8 DEF IsList
  <2>10. StartsIn(out, k + 1, k, S)
    <3>1. \A j \in 1 .. k : out[j] \in S
      BY <2>4, <2>7
    <3>2. \A j \in (k + 1) .. (k + 1) : out[j] \notin S
      BY <2>7 DEF x
    <3> QED
      BY <3>1, <3>2 DEF StartsIn
  <2> DEFINE h == k + 1
  <2> HIDE DEF h
  <2>11. IsList(out, h, U) /\ k \in 0 .. h /\ h \in Nat /\ StartsIn(out, h, k, S)
    BY <2>9, <2>10 DEF h
  <2>12. Keep(out, S) = [j \in 1 .. k |-> out[j]]
    BY <2>11, KeepPrefix
  <2> QED
    BY <2>4, <2>7, <2>12
<1> QED
  BY <1>2, <1>3 DEF Selects

(* What is kept of a sequence is of it.                                    *)
LEMMA KeepOf ==
    ASSUME NEW T, NEW n \in Nat, NEW s, IsList(s, n, T), NEW S
    PROVE  Keep(s, S) \in Seq(T)
<1>1. s \in [1 .. n -> T]
  BY DEF IsList
<1>2. PICK g : KeepsOf(g, n, T, s, S) /\ Keep(s, S) = g[n]
  BY <1>1, KeepIs
<1>3. n \in 0 .. n
  OBVIOUS
<1> QED
  BY <1>2, <1>3 DEF KeepsOf

(* The selection shows of the baseline the start of its rerank.            *)
Outside(lane, m, base) == \A i \in 1 .. m : lane[i] \notin ToSet(base)
SelectsFrom(out, base, ranks, lane, start) ==
  out = GuardedSelection(First(MaxSelected, ParetoRerank(base, ranks)), lane, start)

(* What the rerank shows has before it what both channels rank better.     *)
ShownInOrder(shown, baseline, ranks) ==
  \A i \in DOMAIN shown :
    /\ \E p \in DOMAIN baseline : shown[i] = baseline[p]
    /\ \A q \in DOMAIN baseline :
         Worse(ranks[shown[i].chunk], shown[i].rank, ranks[baseline[q].chunk], baseline[q].rank)
           => \E j \in 1 .. (i - 1) : shown[j] = baseline[q]

(* Rerank and selection together put a dominating hit before the dominated. *)
LEMMA SelectionKeepsDominance ==
    ASSUME NEW T, NEW l \in Nat, NEW base, IsList(base, l, T), NEW ranks, RanksOf(base, l, ranks),
           NEW m \in Nat, NEW lane, NEW start, LaneOK(lane, m, start), Outside(lane, m, base),
           NEW out, SelectsFrom(out, base, ranks, lane, start)
    PROVE  ShownInOrder(Keep(out, ToSet(base)), base, ranks)
<1> DEFINE R == ParetoRerank(base, ranks)
<1> DEFINE current == First(MaxSelected, R)
<1> DEFINE pool == ToSet(base)
<1>1. out = GuardedSelection(current, lane, start)
  BY DEF SelectsFrom
<1>4. Reranks(R, base, ranks)
  BY DEF Reranks
<1> HIDE DEF R
<1>5. KeepsRanks(R, base, l, ranks)
  BY <1>4, ParetoKeepsDominance
<1>6. /\ DOMAIN R = 1 .. l /\ R = [i \in 1 .. l |-> R[i]]
      /\ \A i \in 1 .. l : \E p \in 1 .. l : R[i] = base[p]
  BY <1>5 DEF KeepsRanks
<1>7. DOMAIN base = 1 .. l /\ \A p \in 1 .. l : base[p] \in T
  BY DEF IsList
<1>8. \A i \in 1 .. l : R[i] \in T
  BY <1>6, <1>7
<1>9. IsList(R, l, T)
  <2>1. R \in [1 .. l -> T]
    BY <1>6, <1>8
  <2> QED
    BY <2>1 DEF IsList
<1> DEFINE k == Least(MaxSelected, l)
<1>10. MaxSelected \in Nat
  BY RankingAssumption
<1>11. /\ IsList(First(MaxSelected, R), Least(MaxSelected, l), T)
       /\ Least(MaxSelected, l) \in Nat /\ Least(MaxSelected, l) <= l
       /\ Least(MaxSelected, l) <= MaxSelected
       /\ \A i \in 1 .. Least(MaxSelected, l) : First(MaxSelected, R)[i] = R[i]
  BY <1>9, <1>10, FirstOfList
<1>12. IsList(current, k, T) /\ k \in Nat /\ k <= l /\ \A i \in 1 .. k : current[i] = R[i]
  BY <1>11
<1> HIDE DEF k, current
<1>13. Selects(GuardedSelection(current, lane, start), current, k, lane, m)
  BY <1>12, SelectionIs
<1>14. Selects(out, current, k, lane, m)
  BY <1>1, <1>13
<1>15. pool = {base[p] : p \in 1 .. l}
  BY <1>7 DEF ToSet
<1> HIDE DEF pool
<1>16. Apart(current, k, lane, m, pool)
  <2>1. \A j \in 1 .. k : j \in 1 .. l
    BY <1>12
  <2>2. \A j \in 1 .. k : current[j] \in pool
    BY <1>6, <1>12, <1>15, <2>1
  <2>3. \A i \in 1 .. m : lane[i] \notin pool
    BY DEF Outside, pool
  <2> QED
    BY <2>2, <2>3 DEF Apart
<1>17. IsStart(Keep(out, pool), current, k)
  BY <1>12, <1>14, <1>16, SelectionShows
<1>18. PICK e \in 0 .. k : Keep(out, pool) = [j \in 1 .. e |-> current[j]]
  BY <1>17 DEF IsStart
<1> DEFINE shown == Keep(out, pool)
<1>19. DOMAIN shown = 1 .. e /\ \A j \in 1 .. e : shown[j] = current[j]
  BY <1>18
<1> HIDE DEF shown
<1>20. \A j \in 1 .. e : j \in 1 .. k /\ j \in 1 .. l
  BY <1>12, <1>18
<1>21. \A j \in 1 .. e : shown[j] = R[j]
  BY <1>12, <1>19, <1>20
<1>22. ShownInOrder(shown, base, ranks)
  <2> SUFFICES ASSUME NEW i \in 1 .. e
               PROVE  /\ \E p \in 1 .. l : shown[i] = base[p]
                      /\ \A q \in 1 .. l :
                           Worse(ranks[shown[i].chunk], shown[i].rank, ranks[base[q].chunk], base[q].rank)
                             => \E j \in 1 .. (i - 1) : shown[j] = base[q]
    BY <1>7, <1>19 DEF ShownInOrder
  <2>1. shown[i] = R[i] /\ i \in 1 .. l
    BY <1>20, <1>21
  <2>2. \E p \in 1 .. l : shown[i] = base[p]
    BY <1>6, <2>1
  <2>3. ASSUME NEW q \in 1 .. l,
               Worse(ranks[shown[i].chunk], shown[i].rank, ranks[base[q].chunk], base[q].rank)
        PROVE  \E j \in 1 .. (i - 1) : shown[j] = base[q]
    <3>1. Worse(ranks[R[i].chunk], R[i].rank, ranks[base[q].chunk], base[q].rank)
      BY <2>1, <2>3
    <3>2. \E j \in 1 .. (i - 1) : R[j] = base[q]
      BY <1>5, <2>1, <3>1 DEF KeepsRanks
    <3>3. PICK j \in 1 .. (i - 1) : R[j] = base[q]
      BY <3>2
    <3>4. j \in 1 .. e
      BY <1>18
    <3> QED
      BY <1>21, <3>3, <3>4
  <2> QED
    BY <2>2, <2>3
<1> QED
  BY <1>22 DEF shown, pool

=============================================================================
