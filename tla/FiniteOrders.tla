----------------------------- MODULE FiniteOrders -----------------------------
(***************************************************************************)
(* Facts about numbers, finite sets and sequences that the proofs of       *)
(* several components need.                                                *)
(***************************************************************************)
EXTENDS Integers, Sequences, SequencesExt, FiniteSetTheorems, SequenceTheorems, TLAPS

\* A set of natural numbers that is not empty has a least element.
LEMMA LeastNat ==
    ASSUME NEW T \in SUBSET Nat, T # {}
    PROVE  \E m \in T : \A n \in T : m <= n
<1> DEFINE R == {p \in Nat \X Nat : p[1] < p[2]}
<1>1. IsWellFoundedOn(R, Nat)
  BY NatLessThanWellFounded DEF OpToRel
<1>2. \A m, n \in Nat : <<n, m>> \notin R => m <= n
  OBVIOUS
<1> HIDE DEF R
<1>3. \E m \in T : \A n \in T : ~ (<<n, m>> \in R)
  BY <1>1, WFMin
<1> QED BY <1>2, <1>3

\* Induction: a set of numbers with 0 and all successors has every number.
LEMMA SetInduction ==
    ASSUME NEW T \in SUBSET Nat, 0 \in T, \A n \in T : n + 1 \in T
    PROVE  T = Nat
<1> SUFFICES ASSUME Nat \ T # {} PROVE FALSE
  OBVIOUS
<1>1. PICK m \in Nat \ T : \A n \in Nat \ T : m <= n
  BY LeastNat
<1>2. m # 0 /\ m - 1 \in Nat
  BY <1>1
<1>3. m - 1 \in T
  BY <1>1, <1>2
<1> QED BY <1>1, <1>2, <1>3

\* A set of numbers with a bound that is not empty has a greatest element.
LEMMA GreatestNat ==
    ASSUME NEW N \in Nat, NEW T \in SUBSET (0 .. N), T # {}
    PROVE  \E m \in T : \A n \in T : n <= m
<1> DEFINE U == {N - m : m \in T}
<1>1. U \in SUBSET Nat /\ U # {}
  <2>1. \A m \in T : N - m \in Nat
    OBVIOUS
  <2> QED BY <2>1
<1>2. PICK u \in U : \A w \in U : u <= w
  BY <1>1, LeastNat
<1>3. PICK m \in T : u = N - m
  BY <1>2
<1>4. \A n \in T : N - m <= N - n
  BY <1>2, <1>3, SMTT(60)
<1> QED BY <1>4

\* The elements of a finite set, each with the elements up to it in some order,
\* are counted off by how many there are up to each.
LEMMA CountedOff ==
    ASSUME NEW S, IsFiniteSet(S), NEW upto \in [S -> SUBSET S],
           \A m \in S : m \in upto[m],
           \A m, n \in S : m # n => \/ upto[m] \subseteq upto[n] /\ n \notin upto[m]
                                    \/ upto[n] \subseteq upto[m] /\ m \notin upto[n]
    PROVE  /\ Cardinality(S) \in Nat
           /\ \A m \in S : Cardinality(upto[m]) \in 1 .. Cardinality(S)
           /\ \A m, n \in S : Cardinality(upto[m]) = Cardinality(upto[n]) => m = n
           /\ \A p \in 1 .. Cardinality(S) : \E m \in S : Cardinality(upto[m]) = p
<1> DEFINE N == Cardinality(S)
           rank == [m \in S |-> Cardinality(upto[m])]
<1>1. N \in Nat
  BY FS_CardinalityType
<1>2. ASSUME NEW m \in S
      PROVE  IsFiniteSet(upto[m]) /\ rank[m] \in 1 .. N
  <2>1. upto[m] \in SUBSET S /\ m \in upto[m]
    BY <1>2
  <2>2. IsFiniteSet(upto[m]) /\ Cardinality(upto[m]) <= N
    BY <2>1, FS_Subset
  <2>3. Cardinality(upto[m]) \in Nat /\ Cardinality(upto[m]) # 0
    BY <2>1, <2>2, FS_CardinalityType, FS_EmptySet
  <2> QED BY <1>1, <2>2, <2>3
<1>3. ASSUME NEW m \in S, NEW n \in S, upto[m] \subseteq upto[n], n \notin upto[m]
      PROVE  rank[m] # rank[n]
  <2>1. upto[m] \in SUBSET upto[n] /\ upto[m] # upto[n]
    BY <1>3
  <2>2. IsFiniteSet(upto[n])
    BY <1>2
  <2> QED BY <2>1, <2>2, FS_Subset
<1>4. \A m, n \in S : rank[m] = rank[n] => m = n
  BY <1>3
<1>5. rank \in Injection(S, 1 .. N)
  <2>1. rank \in [S -> 1 .. N]
    BY <1>2
  <2> HIDE DEF rank
  <2> QED BY <2>1, <1>4 DEF Injection, IsInjective
<1>6. IsFiniteSet(1 .. N) /\ Cardinality(1 .. N) = N
  BY <1>1, FS_Interval
<1>7. rank \in Surjection(S, 1 .. N)
  BY <1>5, <1>6, FS_Injection
<1>8. \A p \in 1 .. N : \E m \in S : rank[m] = p
  BY <1>7 DEF Surjection
<1>9. \A m \in S : rank[m] \in 1 .. N
  BY <1>2
<1> QED BY <1>1, <1>4, <1>8, <1>9

LEMMA ToSetType ==
    ASSUME NEW S, NEW q \in Seq(S)
    PROVE  \A a \in ToSet(q) : a \in S
BY ElementOfSeq, LenProperties DEF ToSet

-----------------------------------------------------------------------------
(***************************************************************************)
(* A loop written as a recursive function: from x it goes on at St[x]      *)
(* until it is at a place where it is done.                                *)
(***************************************************************************)
Loops(X, done, St, out, h) == h = [x \in X |-> IF x \in done THEN out[x] ELSE h[St[x]]]

\* There is such a function, whether or not the loop ends.
LEMMA LoopExists ==
    ASSUME NEW X, NEW V, NEW done \in SUBSET X, NEW St \in [X -> X], NEW out \in [X -> V]
    PROVE  \E h : Loops(X, done, St, out, h)
<1> USE DEF Loops
<1> DEFINE Closed(T) == \A z \in T \ done : St[z] \in T
           Ends(x) == {y \in done : \A T \in SUBSET X : x \in T /\ Closed(T) => y \in T}
           h == [x \in X |-> out[CHOOSE y \in X : y \in Ends(x)]]
<1>1. ASSUME NEW x \in X, x \notin done
      PROVE  Ends(x) = Ends(St[x])
  <2>1. ASSUME NEW y \in Ends(x), NEW T \in SUBSET X, St[x] \in T, Closed(T)
        PROVE  y \in T
    <3>1. T \cup {x} \in SUBSET X /\ x \in T \cup {x} /\ Closed(T \cup {x})
      BY <1>1, <2>1
    <3>2. y \in T \cup {x} /\ y # x
      BY <1>1, <2>1, <3>1
    <3> QED BY <3>2
  <2>2. ASSUME NEW y \in Ends(St[x]), NEW T \in SUBSET X, x \in T, Closed(T)
        PROVE  y \in T
    BY <1>1, <2>2
  <2> QED BY <2>1, <2>2
<1>2. ASSUME NEW x \in done
      PROVE  Ends(x) = {x}
  <2>1. {x} \in SUBSET X /\ Closed({x})
    BY <1>2
  <2> QED BY <2>1
<1>3. ASSUME NEW x \in done
      PROVE  h[x] = out[x]
  <2>1. x \in X /\ (CHOOSE y \in X : y \in Ends(x)) = x
    <3> HIDE DEF Ends
    <3> QED BY <1>2, <1>3
  <2> HIDE DEF Ends
  <2> QED BY <2>1
<1>4. ASSUME NEW x \in X, x \notin done
      PROVE  h[x] = h[St[x]]
  <2>1. Ends(x) = Ends(St[x]) /\ St[x] \in X
    BY <1>1, <1>4
  <2> HIDE DEF Ends
  <2> QED BY <2>1
<1>5. h = [x \in X |-> h[x]]
  OBVIOUS
<1> HIDE DEF h
<1>6. [x \in X |-> h[x]] = [x \in X |-> IF x \in done THEN out[x] ELSE h[St[x]]]
  BY <1>3, <1>4
<1> QED BY <1>5, <1>6, SMTT(60)

\* The loop h keeps to I and comes down with every round.
ComesDown(I, done, St, out, h, m) ==
    /\ m \in [I -> Nat]
    /\ \A x \in I : h[x] = IF x \in done THEN out[x] ELSE h[St[x]]
    /\ \A x \in I : x \in done \/ (St[x] \in I /\ m[St[x]] < m[x])

\* Such a loop ends, in I.
LEMMA LoopResult ==
    ASSUME NEW I, NEW done, NEW St, NEW out, NEW h, NEW m, ComesDown(I, done, St, out, h, m)
    PROVE  \A a \in I : \E y \in I : y \in done /\ h[a] = out[y]
<1> USE DEF ComesDown
<1> DEFINE bad == {x \in I : ~ \E y \in I : y \in done /\ h[x] = out[y]}
           sizes == {m[x] : x \in bad}
<1> SUFFICES ASSUME bad # {} PROVE FALSE
  OBVIOUS
<1>1. sizes \in SUBSET Nat /\ sizes # {}
  OBVIOUS
<1>2. PICK n \in sizes : \A k \in sizes : n <= k
  <2> HIDE DEF sizes
  <2> QED BY <1>1, LeastNat
<1>3. PICK x \in bad : m[x] = n
  OBVIOUS
<1>4. x \in I /\ h[x] = IF x \in done THEN out[x] ELSE h[St[x]]
  BY <1>3
<1>5. x \notin done
  BY <1>3, <1>4
<1>6. St[x] \in I /\ m[St[x]] < m[x] /\ h[x] = h[St[x]]
  BY <1>4, <1>5
<1>7. St[x] \in bad
  BY <1>3, <1>4, <1>6
<1>8. m[St[x]] \in sizes /\ m[St[x]] \in Nat /\ m[x] \in Nat
  BY <1>6, <1>7
<1>9. m[x] <= m[St[x]]
  <2> HIDE DEF sizes
  <2> QED BY <1>2, <1>3, <1>8
<1> QED BY <1>6, <1>8, <1>9

(***************************************************************************)
(* A set that grows until nothing is added becomes the least set that      *)
(* nothing is added to.                                                    *)
(***************************************************************************)
Iterates(U, F, h) == h = [S \in SUBSET U |-> IF F[S] = S THEN S ELSE h[F[S]]]

LEMMA GrowthExists ==
    ASSUME NEW U, NEW F \in [SUBSET U -> SUBSET U]
    PROVE  \E h : Iterates(U, F, h)
<1> USE DEF Iterates
<1> DEFINE X == SUBSET U
           done == {S \in X : F[S] = S}
           out == [S \in X |-> S]
<1>1. done \in SUBSET X /\ F \in [X -> X] /\ out \in [X -> X]
  OBVIOUS
<1>2. PICK h : h = [S \in X |-> IF S \in done THEN out[S] ELSE h[F[S]]]
  <2> HIDE DEF X, done, out
  <2>1. \E h : Loops(X, done, F, out, h)
    BY <1>1, LoopExists
  <2> QED BY <2>1 DEF Loops
<1>3. [S \in X |-> IF S \in done THEN out[S] ELSE h[F[S]]]
          = [S \in SUBSET U |-> IF F[S] = S THEN S ELSE h[F[S]]]
  OBVIOUS
<1> HIDE DEF X, done, out
<1> QED BY <1>2, <1>3

GrowsIn(U, F, h) ==
    /\ IsFiniteSet(U)
    /\ F \in [SUBSET U -> SUBSET U]
    /\ \A S \in SUBSET U : S \subseteq F[S]
    /\ \A S, T \in SUBSET U : S \subseteq T => F[S] \subseteq F[T]
    /\ Iterates(U, F, h)

LeastKept(U, F, S0, R) ==
    /\ R \in SUBSET U /\ S0 \subseteq R /\ F[R] = R
    /\ \A T \in SUBSET U : S0 \subseteq T /\ F[T] = T => R \subseteq T

LEMMA GrowthResult ==
    ASSUME NEW U, NEW F, NEW h, GrowsIn(U, F, h)
    PROVE  \A S0 \in SUBSET U : LeastKept(U, F, S0, h[S0])
<1> SUFFICES ASSUME NEW S0 \in SUBSET U PROVE LeastKept(U, F, S0, h[S0])
  OBVIOUS
<1> USE DEF GrowsIn, Iterates
<1> DEFINE X == SUBSET U
           done == {S \in X : F[S] = S}
           out == [S \in X |-> S]
           I == {S \in X : S0 \subseteq S
                             /\ \A T \in X : S0 \subseteq T /\ F[T] = T => S \subseteq T}
           m == [S \in I |-> Cardinality(U \ S)]
<1>1. done \in SUBSET X /\ F \in [X -> X] /\ I \in SUBSET X /\ S0 \in I
  OBVIOUS
<1>2. \A S \in I : h[S] = IF S \in done THEN out[S] ELSE h[F[S]]
  OBVIOUS
<1>3. ASSUME NEW S \in I
      PROVE  IsFiniteSet(U \ S) /\ m[S] \in Nat
  <2>1. IsFiniteSet(U \ S)
    BY FS_Difference
  <2> QED BY <2>1, FS_CardinalityType
<1>4. ASSUME NEW S \in I \ done
      PROVE  F[S] \in I /\ m[F[S]] < m[S]
  <2>1. F[S] \in I
    OBVIOUS
  <2>2. (U \ F[S]) \subseteq (U \ S) /\ (U \ F[S]) # (U \ S)
    <3>1. S \in SUBSET U /\ F[S] \in SUBSET U /\ S \subseteq F[S] /\ F[S] # S
      OBVIOUS
    <3>2. PICK x \in F[S] : x \notin S
      BY <3>1, ZenonT(60)
    <3> QED BY <3>1, <3>2
  <2>3. Cardinality(U \ F[S]) < Cardinality(U \ S)
    <3>1. IsFiniteSet(U \ S) /\ IsFiniteSet(U \ F[S])
      BY <1>3, <2>1
    <3> DEFINE A == U \ S
               B == U \ F[S]
    <3>2. IsFiniteSet(A) /\ B \in SUBSET A /\ A # B
      BY <2>2, <3>1
    <3> HIDE DEF A, B
    <3>3. Cardinality(B) < Cardinality(A)
      BY <3>2, FS_Subset, FS_CardinalityType
    <3> QED BY <3>3 DEF A, B
  <2> QED BY <2>1, <2>3
<1>5. m \in [I -> Nat]
  BY <1>3
<1>6. \A S \in I : \E y \in I : y \in done /\ h[S] = out[y]
  <2> HIDE DEF X, done, out, I, m
  <2>1. ComesDown(I, done, F, out, h, m)
    BY <1>2, <1>4, <1>5 DEF ComesDown
  <2> QED BY ONLY <2>1, LoopResult
<1>7. PICK y \in I : y \in done /\ h[S0] = out[y]
  <2> HIDE DEF X, done, out, I, m
  <2> QED BY <1>1, <1>6
<1>8. h[S0] = y /\ F[y] = y
  BY <1>7
<1> QED BY <1>7, <1>8, SMTT(60) DEF LeastKept

(***************************************************************************)
(* One that shrinks until nothing is dropped becomes the greatest.         *)
(***************************************************************************)
Shrinks(U, F, h) ==
    /\ IsFiniteSet(U)
    /\ F \in [SUBSET U -> SUBSET U]
    /\ \A S \in SUBSET U : F[S] \subseteq S
    /\ \A S, T \in SUBSET U : S \subseteq T => F[S] \subseteq F[T]
    /\ Iterates(U, F, h)

GreatestKept(U, F, S0, R) ==
    /\ R \in SUBSET U /\ R \subseteq S0 /\ F[R] = R
    /\ \A T \in SUBSET U : T \subseteq S0 /\ F[T] = T => T \subseteq R

LEMMA PeelResult ==
    ASSUME NEW U, NEW F, NEW h, Shrinks(U, F, h)
    PROVE  \A S0 \in SUBSET U : GreatestKept(U, F, S0, h[S0])
<1> SUFFICES ASSUME NEW S0 \in SUBSET U PROVE GreatestKept(U, F, S0, h[S0])
  OBVIOUS
<1> USE DEF Shrinks, Iterates
<1> DEFINE X == SUBSET U
           done == {S \in X : F[S] = S}
           out == [S \in X |-> S]
           I == {S \in X : S \subseteq S0
                             /\ \A T \in X : T \subseteq S0 /\ F[T] = T => T \subseteq S}
           m == [S \in I |-> Cardinality(S)]
<1>1. done \in SUBSET X /\ F \in [X -> X] /\ I \in SUBSET X /\ S0 \in I
  OBVIOUS
<1>2. \A S \in I : h[S] = IF S \in done THEN out[S] ELSE h[F[S]]
  OBVIOUS
<1>3. ASSUME NEW S \in I
      PROVE  IsFiniteSet(S) /\ m[S] \in Nat
  <2>1. IsFiniteSet(S)
    BY FS_Subset
  <2> QED BY <2>1, FS_CardinalityType
<1>4. ASSUME NEW S \in I \ done
      PROVE  F[S] \in I /\ m[F[S]] < m[S]
  <2>1. F[S] \in I
    OBVIOUS
  <2>2. F[S] \subseteq S /\ F[S] # S
    OBVIOUS
  <2>3. Cardinality(F[S]) < Cardinality(S)
    BY <1>3, <2>1, <2>2, FS_Subset, FS_CardinalityType
  <2> QED BY <2>1, <2>3, SMTT(60)
<1>5. m \in [I -> Nat]
  BY <1>3
<1>6. \A S \in I : \E y \in I : y \in done /\ h[S] = out[y]
  <2> HIDE DEF X, done, out, I, m
  <2>1. ComesDown(I, done, F, out, h, m)
    BY <1>2, <1>4, <1>5 DEF ComesDown
  <2> QED BY ONLY <2>1, LoopResult
<1>7. PICK y \in I : y \in done /\ h[S0] = out[y]
  <2> HIDE DEF X, done, out, I, m
  <2> QED BY <1>1, <1>6
<1>8. h[S0] = y /\ F[y] = y
  BY <1>7
<1> QED BY <1>7, <1>8, SMTT(60) DEF GreatestKept

\* The values of a function on a finite set are finitely many.
LEMMA ImageFinite ==
    ASSUME NEW S, IsFiniteSet(S), NEW f, DOMAIN f = S
    PROVE  IsFiniteSet({f[x] : x \in S})
<1> DEFINE T == {f[x] : x \in S}
           g == [x \in S |-> f[x]]
<1>1. g \in Surjection(S, T)
  BY DEF Surjection
<1> HIDE DEF T, g
<1>2. IsFiniteSet(T)
  BY <1>1, FS_Surjection
<1> QED BY <1>2 DEF T

-----------------------------------------------------------------------------
(***************************************************************************)
(* Induction over a bounded range, and a fold: the functions F[1] .. F[n], *)
(* applied one after the other.                                            *)
(***************************************************************************)
LEMMA RangeInduction ==
    ASSUME NEW n \in Nat, NEW T, 0 \in T, \A i \in 0 .. n - 1 : i \in T => i + 1 \in T
    PROVE  \A i \in 0 .. n : i \in T
<1> DEFINE U == {i \in Nat : i <= n => i \in T}
<1>1. U \in SUBSET Nat /\ 0 \in U /\ \A i \in U : i + 1 \in U
  OBVIOUS
<1> HIDE DEF U
<1>2. U = Nat
  BY <1>1, SetInduction
<1> QED BY <1>2 DEF U

Folds(V, n, b, F, h) ==
    /\ h \in [0 .. n -> V] /\ h[0] = b
    /\ \A i \in 1 .. n : h[i] = F[i][h[i - 1]]

LEMMA FoldExists ==
    ASSUME NEW V, NEW n \in Nat, NEW b \in V, NEW F \in [1 .. n -> [V -> V]]
    PROVE  \E h : Folds(V, n, b, F, h)
<1> DEFINE T == {k \in 0 .. n : \E h \in [0 .. k -> V] :
                    h[0] = b /\ \A i \in 1 .. k : h[i] = F[i][h[i - 1]]}
<1>1. 0 \in T
  <2>1. [i \in 0 .. 0 |-> b] \in [0 .. 0 -> V]
    OBVIOUS
  <2>2. [i \in 0 .. 0 |-> b][0] = b /\ 1 .. 0 = {} /\ 0 \in 0 .. n
    OBVIOUS
  <2> QED BY <2>1, <2>2
<1>2. ASSUME NEW k \in 0 .. n - 1, k \in T PROVE k + 1 \in T
  <2>1. PICK h \in [0 .. k -> V] : h[0] = b /\ \A i \in 1 .. k : h[i] = F[i][h[i - 1]]
    BY <1>2
  <2> DEFINE g == [i \in 0 .. k + 1 |-> IF i = k + 1 THEN F[k + 1][h[k]] ELSE h[i]]
  <2>2. k \in Nat /\ k + 1 \in 1 .. n /\ k \in 0 .. k
    OBVIOUS
  <2>3. F[k + 1][h[k]] \in V
    BY <2>2
  <2>4. \A i \in 0 .. k : g[i] = h[i]
    BY <2>2
  <2>5. g[k + 1] = F[k + 1][h[k]]
    BY <2>2
  <2>6. g \in [0 .. k + 1 -> V]
    BY <2>2, <2>3
  <2> HIDE DEF g
  <2>7. \A i \in 1 .. k + 1 : i = k + 1 \/ (i \in 1 .. k /\ i \in 0 .. k)
    BY <2>2
  <2>8. \A i \in 1 .. k + 1 : i - 1 \in 0 .. k /\ (i = k + 1 => i - 1 = k)
    BY <2>2
  <2>9. \A i \in 1 .. k + 1 : g[i] = F[i][g[i - 1]]
    BY <2>1, <2>4, <2>5, <2>7, <2>8
  <2>10. g[0] = b /\ k + 1 \in 0 .. n
    BY <2>1, <2>2, <2>4
  <2> QED BY <2>6, <2>9, <2>10, SMTT(60)
<1> HIDE DEF T
<1>3. \A k \in 0 .. n : k \in T
  BY <1>1, <1>2, RangeInduction
<1>4. n \in T
  BY <1>3
<1> QED BY <1>4 DEF T, Folds

(***************************************************************************)
(* Numbers in order.                                                       *)
(***************************************************************************)
Lists(q, S) ==
    /\ q \in Seq(S) /\ Len(q) = Cardinality(S) /\ DOMAIN q = 1 .. Len(q)
    /\ \A x \in S : \E k \in DOMAIN q : q[k] = x
    /\ \A j, k \in DOMAIN q : q[j] = q[k] => j = k

\* Counted off, as in CountedOff, every element gets its place.
Placed(S, upto, q) ==
    /\ IsFiniteSet(S) /\ upto \in [S -> SUBSET S]
    /\ \A m \in S : m \in upto[m]
    /\ \A m, n \in S : m # n => \/ upto[m] \subseteq upto[n] /\ n \notin upto[m]
                                \/ upto[n] \subseteq upto[m] /\ m \notin upto[n]
    /\ q = [k \in 1 .. Cardinality(S) |-> q[k]]
    /\ \A k \in 1 .. Cardinality(S) :
          (\E l \in S : Cardinality(upto[l]) = k) => q[k] \in S /\ Cardinality(upto[q[k]]) = k

LEMMA CountedList ==
    ASSUME NEW S, NEW upto, NEW q, Placed(S, upto, q)
    PROVE  Lists(q, S)
<1> USE DEF Placed
<1> DEFINE N == Cardinality(S)
<1>1. /\ N \in Nat
      /\ \A m \in S : Cardinality(upto[m]) \in 1 .. N
      /\ \A m, n \in S : Cardinality(upto[m]) = Cardinality(upto[n]) => m = n
      /\ \A p \in 1 .. N : \E m \in S : Cardinality(upto[m]) = p
  BY CountedOff, ZenonT(60)
<1>2. q = [k \in 1 .. N |-> q[k]]
  OBVIOUS
<1>3. \A k \in 1 .. N : q[k] \in S /\ Cardinality(upto[q[k]]) = k
  BY <1>1
<1> HIDE DEF N
<1>4. q \in [1 .. N -> S]
  BY ONLY <1>2, <1>3
<1>5. q \in Seq(S) /\ Len(q) = N /\ DOMAIN q = 1 .. N
  BY ONLY <1>1, <1>4
<1>6. \A l \in S : \E k \in DOMAIN q : q[k] = l
  BY ONLY <1>1, <1>3, <1>5
<1>7. \A j, k \in DOMAIN q : q[j] = q[k] => j = k
  BY ONLY <1>3, <1>5
<1> QED BY <1>5, <1>6, <1>7 DEF Lists, N
=============================================================================
