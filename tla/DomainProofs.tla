---------------------------- MODULE DomainProofs ----------------------------
(***************************************************************************)
(* Theorems about two of the domains.  TypeDomain: its representation, its *)
(* answers, and that it implements TypeValuations.  ZoneGraph: what the    *)
(* graph constructions of the zone domain mean, for graphs of any size and *)
(* any integer weights; the closure algorithms that search the graph are   *)
(* model-checked only (MCZoneDomain).                                      *)
(***************************************************************************)
EXTENDS TypeDomain, ZoneGraph, FiniteOrders

LEMMA AscendingLists ==
    ASSUME NEW S \in SUBSET Int, IsFiniteSet(S)
    PROVE  Lists(Ascending(S), S)
<1> DEFINE Upto(l) == {m \in S : m = l \/ m < l}
           upto == [l \in S |-> Upto(l)]
           q == Ascending(S)
<1>1. upto \in [S -> SUBSET S] /\ \A m \in S : m \in upto[m]
  OBVIOUS
<1>2. \A m, n \in S : m # n => \/ upto[m] \subseteq upto[n] /\ n \notin upto[m]
                               \/ upto[n] \subseteq upto[m] /\ m \notin upto[n]
  <2>1. ASSUME NEW m \in S, NEW n \in S, m < n PROVE upto[m] \subseteq upto[n] /\ n \notin upto[m]
    <3>1. \A x \in S : x = m \/ x < m => x < n
      BY <2>1
    <3>2. ~ (n < m) /\ n # m
      BY <2>1
    <3> QED BY <3>1, <3>2
  <2>2. \A m, n \in S : m # n => m < n \/ n < m
    OBVIOUS
  <2> HIDE DEF upto
  <2> QED BY <2>1, <2>2
<1>3. q = [k \in 1 .. Cardinality(S) |-> CHOOSE l \in S : Cardinality(Upto(l)) = k]
  BY DEF Ascending, InOrder
<1>4. \A l \in S : Upto(l) = upto[l]
  OBVIOUS
<1> HIDE DEF Upto, upto, q
<1>5. \A k \in 1 .. Cardinality(S) :
          (\E l \in S : Cardinality(upto[l]) = k) => q[k] \in S /\ Cardinality(upto[q[k]]) = k
  BY <1>3, <1>4
<1>6. q = [k \in 1 .. Cardinality(S) |-> q[k]]
  BY <1>3
<1>7. Placed(S, upto, q)
  BY <1>1, <1>2, <1>5, <1>6 DEF Placed
<1> QED BY <1>7, CountedList DEF q

\* Pairs of numbers by their first and then by their second component.
LEMMA PairsList ==
    ASSUME NEW S \in SUBSET (Int \X Int), IsFiniteSet(S)
    PROVE  Lists(InOrder(S, LAMBDA k, l : k[1] < l[1] \/ (k[1] = l[1] /\ k[2] < l[2])), S)
<1> DEFINE before(k, l) == k[1] < l[1] \/ (k[1] = l[1] /\ k[2] < l[2])
           Upto(l) == {m \in S : m = l \/ before(m, l)}
           upto == [l \in S |-> Upto(l)]
           q == InOrder(S, LAMBDA k, l : k[1] < l[1] \/ (k[1] = l[1] /\ k[2] < l[2]))
<1>1. upto \in [S -> SUBSET S] /\ \A m \in S : m \in upto[m]
  OBVIOUS
<1>2. \A m, n \in S : m # n => \/ upto[m] \subseteq upto[n] /\ n \notin upto[m]
                               \/ upto[n] \subseteq upto[m] /\ m \notin upto[n]
  <2>0. \A m \in S : m[1] \in Int /\ m[2] \in Int
    OBVIOUS
  <2>1. \A m, n \in S : m # n => before(m, n) \/ before(n, m)
    <3>1. \A m, n \in S : m # n => m[1] # n[1] \/ m[2] # n[2]
      OBVIOUS
    <3> QED BY <2>0, <3>1
  <2>2. \A m, n \in S : before(m, n) => ~ before(n, m) /\ m # n
    BY <2>0
  <2>3. \A x, m, n \in S : before(x, m) /\ before(m, n) => before(x, n)
    BY <2>0
  <2> HIDE DEF before
  <2>4. ASSUME NEW m \in S, NEW n \in S, before(m, n) PROVE upto[m] \subseteq upto[n] /\ n \notin upto[m]
    BY <2>2, <2>3, <2>4
  <2> HIDE DEF upto
  <2> QED BY <2>1, <2>4
<1>3. q = [k \in 1 .. Cardinality(S) |-> CHOOSE l \in S : Cardinality(Upto(l)) = k]
  BY DEF InOrder
<1>4. \A l \in S : Upto(l) = upto[l]
  OBVIOUS
<1> HIDE DEF Upto, upto, q
<1>5. \A k \in 1 .. Cardinality(S) :
          (\E l \in S : Cardinality(upto[l]) = k) => q[k] \in S /\ Cardinality(upto[q[k]]) = k
  BY <1>3, <1>4
<1>6. q = [k \in 1 .. Cardinality(S) |-> q[k]]
  BY <1>3
<1>7. Placed(S, upto, q)
  BY <1>1, <1>2, <1>5, <1>6 DEF Placed
<1> QED BY <1>7, CountedList DEF q

-----------------------------------------------------------------------------
(***************************************************************************)
(* States.  The forest: every element leads to the representative of its   *)
(* class, which has the types of the class.                                *)
(***************************************************************************)
Maps == UNION {[K -> Nat] : K \in SUBSET Vars}

State == [rep : Seq(Nat), rank : Seq(Nat), types : Seq(SUBSET Types), vid : Maps, idv : Seq(Nat)]

Elements(s) == 1 .. Size(s)

Lengths(s) ==
    /\ Size(s) \in Nat /\ NumTypes <= Size(s)
    /\ Len(s.rank) = Size(s) /\ Len(s.types) = Size(s) /\ Len(s.idv) = Size(s)

Forest(s) ==
    /\ s \in State /\ Lengths(s)
    /\ \A i \in Elements(s) : s.rep[i] \in Elements(s) /\ s.rep[s.rep[i]] = s.rep[i]
    /\ \A i \in Elements(s) : TypesAt(s, i) # {}

\* VarIdMap: the two maps are inverse to each other.
Names(s) ==
    /\ IsFiniteSet(Known(s))
    /\ \A v \in Known(s) : s.vid[v] \in Elements(s) /\ s.idv[s.vid[v]] = v
    /\ \A i \in Elements(s) : s.idv[i] # NoVar => s.idv[i] \in Known(s) /\ s.vid[s.idv[i]] = i

\* Singleton merging, of all elements: those without a variable may get one.
Merged(s) ==
    /\ \A t \in Types : TypesAt(s, t) = {t}
    /\ \A i \in Elements(s), t \in Types : TypesAt(s, i) = {t} => s.rep[i] = s.rep[t]

StateOK(s) == Forest(s) /\ Names(s) /\ Merged(s)

LEMMA StateParts ==
    ASSUME NEW s \in State
    PROVE  /\ s = [rep |-> s.rep, rank |-> s.rank, types |-> s.types, vid |-> s.vid, idv |-> s.idv]
           /\ s.rep \in Seq(Nat) /\ s.rank \in Seq(Nat) /\ s.types \in Seq(SUBSET Types)
           /\ s.vid \in Maps /\ s.idv \in Seq(Nat)
           /\ Known(s) \in SUBSET Vars /\ s.vid \in [Known(s) -> Nat]
           /\ DOMAIN s.rep = 1 .. Len(s.rep) /\ DOMAIN s.rank = 1 .. Len(s.rank)
           /\ DOMAIN s.types = 1 .. Len(s.types) /\ DOMAIN s.idv = 1 .. Len(s.idv)
BY SMTT(60) DEF State, Maps, Known

Class(s, x) == {i \in Elements(s) : s.rep[i] = s.rep[x]}

\* s2 is s with the elements of C, all of some classes, made one class with types ts.
Joined(s, s2, C, ts) ==
    /\ Forest(s2) /\ Size(s2) = Size(s) /\ s2.vid = s.vid /\ s2.idv = s.idv
    /\ \A i, j \in Elements(s) :
          s2.rep[i] = s2.rep[j] <=> s.rep[i] = s.rep[j] \/ (i \in C /\ j \in C)
    /\ \A i \in Elements(s) : TypesAt(s2, i) = IF i \in C THEN ts ELSE TypesAt(s, i)

\* What a union does to the forest, leaving the types where they are.
UnionFrom(s, x, y, s2) ==
    /\ s2 \in State /\ Size(s2) = Size(s) /\ Len(s2.rank) = Size(s)
    /\ s2.types = s.types /\ s2.vid = s.vid /\ s2.idv = s.idv
    /\ \E win \in {s.rep[x], s.rep[y]} :
          \A i \in Elements(s) :
              s2.rep[i] = IF s.rep[i] \in {s.rep[x], s.rep[y]} THEN win ELSE s.rep[i]

LEMMA UnionIs ==
    ASSUME NEW s, Forest(s), NEW x \in Elements(s), NEW y \in Elements(s)
    PROVE  UnionFrom(s, x, y, Union(s, x, y))
<1> DEFINE rx == s.rep[x]
           ry == s.rep[y]
           win == IF s.rank[rx] < s.rank[ry] THEN ry ELSE rx
           lose == IF win = rx THEN ry ELSE rx
           rep2 == [i \in DOMAIN s.rep |-> IF s.rep[i] = lose THEN win ELSE s.rep[i]]
           rank2 == IF s.rank[rx] = s.rank[ry] THEN [s.rank EXCEPT ![rx] = @ + 1] ELSE s.rank
<1>1. /\ s \in State /\ Lengths(s) /\ rx \in Elements(s) /\ ry \in Elements(s)
      /\ s.rep \in Seq(Nat) /\ s.rank \in Seq(Nat) /\ DOMAIN s.rep = Elements(s) /\ DOMAIN s.rank = Elements(s)
  BY StateParts DEF Forest, Elements, Size, Lengths
<1>2. CASE rx = ry
  <2>1. Union(s, x, y) = s
    BY <1>2 DEF Union
  <2>2. \A i \in Elements(s) : s.rep[i] = IF s.rep[i] \in {rx, ry} THEN rx ELSE s.rep[i]
    BY <1>2
  <2> QED BY <1>1, <2>1, <2>2 DEF UnionFrom, Lengths
<1>3. CASE rx # ry
  <2>1. Union(s, x, y) = [s EXCEPT !.rep = rep2, !.rank = rank2]
    BY <1>3 DEF Union
  <2>2. win \in {rx, ry} /\ win \in Elements(s) /\ {win, lose} = {rx, ry}
    BY <1>1
  <2>3. \A i \in Elements(s) : s.rep[i] \in Nat
    BY <1>1, SMTT(60)
  <2>4. rep2 \in [1 .. Size(s) -> Nat]
    BY <1>1, <2>2, <2>3 DEF Elements
  <2>5. rank2 \in [1 .. Size(s) -> Nat]
    <3> DEFINE q == s.rank
    <3> HIDE DEF q
    <3>1. q \in Seq(Nat) /\ Len(q) = Size(s) /\ rx \in 1 .. Len(q)
      BY <1>1 DEF Lengths, Elements, q
    <3>2. q \in [1 .. Size(s) -> Nat]
      BY <3>1
    <3>3. [q EXCEPT ![rx] = @ + 1] \in [1 .. Size(s) -> Nat]
      BY <3>1, <3>2, SMTT(60)
    <3> QED BY <3>2, <3>3 DEF q
  <2>6. rep2 \in Seq(Nat) /\ Len(rep2) = Size(s) /\ rank2 \in Seq(Nat) /\ Len(rank2) = Size(s)
    <3>1. Size(s) \in Nat
      BY <1>1 DEF Lengths
    <3> DEFINE n == Size(s)
    <3> HIDE DEF rep2, rank2, n
    <3>2. n \in Nat /\ rep2 \in [1 .. n -> Nat] /\ rank2 \in [1 .. n -> Nat]
      BY <2>4, <2>5, <3>1 DEF n
    <3> QED BY <3>2, SMTT(60) DEF n
  <2>7. \A i \in Elements(s) : rep2[i] = IF s.rep[i] \in {rx, ry} THEN win ELSE s.rep[i]
    BY <1>1, <2>2
  <2> DEFINE s2 == [s EXCEPT !.rep = rep2, !.rank = rank2]
  <2> HIDE DEF rep2, rank2, win, lose
  <2>8. /\ s2 \in State /\ s2.rep = rep2 /\ s2.rank = rank2 /\ s2.types = s.types
        /\ s2.vid = s.vid /\ s2.idv = s.idv
    BY <1>1, <2>6 DEF State
  <2> HIDE DEF s2
  <2>9. Size(s2) = Size(s)
    BY <2>6, <2>8 DEF Size
  <2>10. Union(s, x, y) = s2
    BY <2>1 DEF s2
  <2> QED BY ONLY <2>2, <2>6, <2>7, <2>8, <2>9, <2>10, ZenonT(60) DEF UnionFrom
<1> QED BY <1>2, <1>3

\* A union whose class then gets the types ts.
LEMMA JoinedIs ==
    ASSUME NEW s, Forest(s), NEW x \in Elements(s), NEW y \in Elements(s),
           NEW ts \in SUBSET Types, ts # {}
    PROVE  Joined(s, SetTypes(Union(s, x, y), x, ts), Class(s, x) \cup Class(s, y), ts)
<1> DEFINE s1 == Union(s, x, y)
           C == Class(s, x) \cup Class(s, y)
           r == s1.rep[x]
           types2 == [s1.types EXCEPT ![r] = ts]
           s2 == SetTypes(s1, x, ts)
<1>1. UnionFrom(s, x, y, s1)
  BY UnionIs
<1>2. /\ s1 \in State /\ Size(s1) = Size(s) /\ Len(s1.rank) = Size(s)
      /\ s1.types = s.types /\ s1.vid = s.vid /\ s1.idv = s.idv
  BY <1>1 DEF UnionFrom
<1>3. PICK win \in {s.rep[x], s.rep[y]} : \A i \in Elements(s) :
          s1.rep[i] = IF s.rep[i] \in {s.rep[x], s.rep[y]} THEN win ELSE s.rep[i]
  BY <1>1 DEF UnionFrom
<1>4. \A i \in Elements(s) : i \in C <=> s.rep[i] \in {s.rep[x], s.rep[y]}
  BY DEF Class
<1> HIDE DEF s1, C
<1>5. /\ \A i \in Elements(s) : s.rep[i] \in Elements(s) /\ s.rep[s.rep[i]] = s.rep[i] /\ TypesAt(s, i) # {}
      /\ Lengths(s) /\ s \in State
  BY DEF Forest
<1>6. win \in Elements(s) /\ s.rep[win] = win /\ win \in C /\ s1.rep[win] = win
  BY <1>3, <1>4, <1>5
<1>7. \A i \in Elements(s) : s1.rep[i] = IF i \in C THEN win ELSE s.rep[i]
  BY <1>3, <1>4
<1>8. x \in C /\ y \in C /\ r = win
  BY <1>4, <1>7
<1>9. types2 \in Seq(SUBSET Types) /\ Len(types2) = Size(s)
      /\ \A i \in Elements(s) : types2[i] = IF i = win THEN ts ELSE s.types[i]
  <2> DEFINE q == s.types
             n == Size(s)
             u == [q EXCEPT ![win] = ts]
  <2>1. q \in Seq(SUBSET Types) /\ Len(q) = n /\ n \in Nat /\ win \in 1 .. n
    BY <1>5, <1>6, StateParts DEF Lengths, Elements
  <2> HIDE DEF q, n
  <2>2. q \in [1 .. n -> SUBSET Types]
    BY <2>1
  <2>3. u \in [1 .. n -> SUBSET Types]
    BY <2>1, <2>2
  <2>4. \A i \in 1 .. n : u[i] = IF i = win THEN ts ELSE q[i]
    BY <2>1, <2>2
  <2> HIDE DEF u
  <2>5. u \in Seq(SUBSET Types) /\ Len(u) = n
    BY <2>1, <2>3
  <2>6. types2 = u
    BY <1>2, <1>8 DEF u, q
  <2> QED BY ONLY <2>4, <2>5, <2>6 DEF n, q, Elements
<1>10. /\ s2 \in State /\ s2.rep = s1.rep /\ s2.rank = s1.rank /\ s2.types = types2
       /\ s2.vid = s.vid /\ s2.idv = s.idv
  <2>1. s2 = [s1 EXCEPT !.types = types2]
    BY StateParts, <1>2 DEF SetTypes
  <2> HIDE DEF s2, types2
  <2> QED BY <1>2, <1>9, <2>1 DEF State
<1> HIDE DEF s2, types2
<1>11. Size(s2) = Size(s) /\ Elements(s2) = Elements(s)
  BY <1>2, <1>10 DEF Size, Elements
<1>12. Lengths(s2)
  BY <1>2, <1>5, <1>9, <1>10, <1>11 DEF Lengths
<1>13. \A i \in Elements(s) : s2.rep[i] = IF i \in C THEN win ELSE s.rep[i]
  BY <1>7, <1>10
<1>14. \A i \in Elements(s) : i \notin C => s.rep[i] \notin C /\ s.rep[i] # win
  BY <1>4, <1>5, <1>6
<1>15. \A i \in Elements(s) : s2.rep[i] \in Elements(s) /\ s2.rep[s2.rep[i]] = s2.rep[i]
  BY <1>5, <1>6, <1>13, <1>14
<1>16. \A i \in Elements(s) : TypesAt(s2, i) = IF i \in C THEN ts ELSE TypesAt(s, i)
  BY <1>5, <1>6, <1>9, <1>10, <1>13, <1>14 DEF TypesAt
<1>17. Forest(s2)
  BY <1>5, <1>10, <1>11, <1>12, <1>15, <1>16 DEF Forest
<1>18. ASSUME NEW i \in Elements(s), NEW j \in Elements(s)
       PROVE  s2.rep[i] = s2.rep[j] <=> s.rep[i] = s.rep[j] \/ (i \in C /\ j \in C)
  <2>1. i \notin C => s.rep[i] # win
    BY <1>14
  <2>2. j \notin C => s.rep[j] # win
    BY <1>14
  <2>3. s.rep[i] = s.rep[j] => (i \in C <=> j \in C)
    BY <1>4
  <2> QED BY <1>13, <2>1, <2>2, <2>3
<1> QED BY <1>10, <1>11, <1>16, <1>17, <1>18 DEF Joined, s2, s1, C

\* Made one with the class of z as well.
LEMMA JoinedTwice ==
    ASSUME NEW s, NEW s2, NEW s3, NEW C, NEW ts, NEW x \in Elements(s), NEW z \in Elements(s), x \in C,
           \A i, j \in Elements(s) : i \in C /\ s.rep[i] = s.rep[j] => j \in C,
           Joined(s, s2, C, ts), Joined(s2, s3, Class(s2, x) \cup Class(s2, z), ts)
    PROVE  Joined(s, s3, C \cup Class(s, z), ts)
<1> DEFINE D == Class(s2, x) \cup Class(s2, z)
           E == C \cup Class(s, z)
<1>1. /\ Size(s2) = Size(s) /\ Elements(s2) = Elements(s)
      /\ \A i, j \in Elements(s) :
            s2.rep[i] = s2.rep[j] <=> s.rep[i] = s.rep[j] \/ (i \in C /\ j \in C)
      /\ \A i \in Elements(s) : TypesAt(s2, i) = IF i \in C THEN ts ELSE TypesAt(s, i)
  BY DEF Joined, Elements
<1>2. /\ Forest(s3) /\ Size(s3) = Size(s2) /\ s3.vid = s2.vid /\ s3.idv = s2.idv
      /\ \A i, j \in Elements(s) :
            s3.rep[i] = s3.rep[j] <=> s2.rep[i] = s2.rep[j] \/ (i \in D /\ j \in D)
      /\ \A i \in Elements(s) : TypesAt(s3, i) = IF i \in D THEN ts ELSE TypesAt(s2, i)
  BY <1>1 DEF Joined
<1>3. ASSUME NEW i \in Elements(s) PROVE i \in D <=> i \in E
  <2>1. i \in D <=> s2.rep[i] = s2.rep[x] \/ s2.rep[i] = s2.rep[z]
    BY <1>1 DEF Class
  <2>2. i \in E <=> i \in C \/ s.rep[i] = s.rep[z]
    BY DEF Class
  <2>3. s2.rep[i] = s2.rep[x] <=> i \in C
    BY <1>1
  <2>4. s2.rep[i] = s2.rep[z] <=> s.rep[i] = s.rep[z] \/ (i \in C /\ z \in C)
    BY <1>1
  <2> QED BY <2>1, <2>2, <2>3, <2>4
<1>4. \A i \in Elements(s) : i \in C => i \in E
  OBVIOUS
<1> HIDE DEF D, E
<1>5. \A i, j \in Elements(s) : s3.rep[i] = s3.rep[j] <=> s.rep[i] = s.rep[j] \/ (i \in E /\ j \in E)
  BY <1>1, <1>2, <1>3, <1>4
<1>6. \A i \in Elements(s) : TypesAt(s3, i) = IF i \in E THEN ts ELSE TypesAt(s, i)
  BY <1>1, <1>2, <1>3, <1>4
<1> QED BY <1>1, <1>2, <1>5, <1>6 DEF Joined, E

\* The sentinel that a class with types ts is made one with.
SentinelOf(s, ts) == {i \in Elements(s) : \E t \in Types : ts = {t} /\ s.rep[i] = s.rep[t]}

LEMMA SingletonIs ==
    ASSUME NEW ts \in SUBSET Types
    PROVE  Cardinality(ts) = 1 <=> \E t \in Types : ts = {t}
<1>1. \A t \in Types : Cardinality({t}) = 1
  BY FS_Singleton
<1>2. ASSUME Cardinality(ts) = 1 PROVE \E t \in Types : ts = {t}
  <2>1. IsFiniteSet(Types)
    BY FS_Interval, TypesAssumption DEF Types
  <2>2. IsFiniteSet(ts)
    BY <2>1, FS_Subset
  <2>3. \E t \in ts : ts = {t}
    BY <1>2, <2>2, FS_Singleton
  <2> QED BY <2>3
<1> QED BY <1>1, <1>2

LEMMA MergedIs ==
    ASSUME NEW s, Forest(s), NEW x \in Elements(s), NEW y \in Elements(s),
           NEW ts \in SUBSET Types, ts # {}
    PROVE  Joined(s, MergeIfSingleton(SetTypes(Union(s, x, y), x, ts), x),
                  Class(s, x) \cup Class(s, y) \cup SentinelOf(s, ts), ts)
<1> DEFINE C == Class(s, x) \cup Class(s, y)
           s2 == SetTypes(Union(s, x, y), x, ts)
           s3 == MergeIfSingleton(s2, x)
           te == CHOOSE t \in ts : TRUE
<1>1. Joined(s, s2, C, ts)
  BY JoinedIs
<1>2. /\ x \in C /\ \A i, j \in Elements(s) : i \in C /\ s.rep[i] = s.rep[j] => j \in C
      /\ Lengths(s) /\ Types \subseteq Elements(s)
  BY TypesAssumption DEF Class, Forest, Lengths, Elements, Types
<1> HIDE DEF C, s2
<1>3. Forest(s2) /\ Elements(s2) = Elements(s) /\ TypesAt(s2, x) = ts
      /\ s2.rep[x] \in Elements(s) /\ s2.rep[s2.rep[x]] = s2.rep[x]
  BY <1>1, <1>2 DEF Joined, Forest, Elements
<1>4. te \in ts /\ te \in Elements(s)
  BY <1>2
<1> HIDE DEF te
<1>5. s3 = IF Cardinality(ts) = 1 /\ s2.rep[x] # s2.rep[te]
           THEN SetTypes(Union(s2, s2.rep[x], te), x, ts) ELSE s2
  BY <1>3 DEF MergeIfSingleton, te
<1>6. CASE Cardinality(ts) # 1
  <2>1. SentinelOf(s, ts) = {}
    BY <1>6, SingletonIs DEF SentinelOf
  <2> QED BY <1>1, <1>5, <1>6, <2>1 DEF s2, C
<1>7. CASE Cardinality(ts) = 1
  <2>1. ts = {te}
    BY <1>4, <1>7, SingletonIs
  <2>2. SentinelOf(s, ts) = Class(s, te)
    BY <2>1, <1>4 DEF SentinelOf, Class
  <2>3. CASE s2.rep[x] = s2.rep[te]
    <3>1. Joined(s, s2, C \cup Class(s, te), ts)
      <4>1. te \in C \/ s.rep[te] = s.rep[x]
        BY <1>1, <1>4, <2>3 DEF Joined
      <4>2. Class(s, te) \subseteq C
        BY <1>2, <1>4, <4>1 DEF Class
      <4>3. C \cup Class(s, te) = C
        BY <4>2
      <4> QED BY <1>1, <4>3
    <3> QED BY <1>5, <2>2, <2>3, <3>1 DEF s2, C
  <2>4. CASE s2.rep[x] # s2.rep[te]
    <3> DEFINE r == s2.rep[x]
               u == Union(s2, r, te)
    <3>1. Joined(s2, SetTypes(u, r, ts), Class(s2, r) \cup Class(s2, te), ts)
      BY <1>3, <1>4, JoinedIs
    <3>2. Class(s2, r) = Class(s2, x)
      BY <1>3 DEF Class
    <3>3. u.rep[r] = u.rep[x]
      <4>1. UnionFrom(s2, r, te, u)
        BY <1>3, <1>4, UnionIs
      <4> HIDE DEF u
      <4> QED BY <1>3, <4>1 DEF UnionFrom
    <3>4. s3 = SetTypes(u, r, ts)
      BY <1>5, <1>7, <2>4, <3>3 DEF SetTypes
    <3> HIDE DEF u, r, s3
    <3>5. Joined(s2, s3, Class(s2, x) \cup Class(s2, te), ts)
      BY <3>1, <3>2, <3>4
    <3>6. Joined(s, s3, C \cup Class(s, te), ts)
      BY <1>1, <1>2, <1>4, <3>5, JoinedTwice
    <3> QED BY <2>2, <3>6 DEF s3, s2, C
  <2> QED BY <2>3, <2>4
<1> QED BY <1>6, <1>7

-----------------------------------------------------------------------------
(***************************************************************************)
(* A new element for a variable, which is alone in its class and may have  *)
(* any type.                                                               *)
(***************************************************************************)
Fresh(s, v, s2) ==
    /\ StateOK(s2) /\ Size(s2) = Size(s) + 1
    /\ Known(s2) = Known(s) \cup {v}
    /\ \A w \in Known(s2) : s2.vid[w] = IF w = v THEN Size(s) + 1 ELSE s.vid[w]
    /\ \A i \in Elements(s) : s2.rep[i] = s.rep[i] /\ TypesAt(s2, i) = TypesAt(s, i)
    /\ s2.rep[Size(s) + 1] = Size(s) + 1 /\ TypesAt(s2, Size(s) + 1) = Types

LEMMA AppendIs ==
    ASSUME NEW S, NEW q \in Seq(S), NEW e \in S, NEW n \in Nat, Len(q) = n
    PROVE  /\ Append(q, e) \in Seq(S) /\ Len(Append(q, e)) = n + 1
           /\ \A i \in 1 .. n : Append(q, e)[i] = q[i]
           /\ Append(q, e)[n + 1] = e
OBVIOUS

LEMMA PushIs ==
    ASSUME NEW s, Forest(s), Merged(s), NEW v \in Vars, IsFiniteSet(Known(s)),
           \A w \in Known(s) \ {v} : s.vid[w] \in Elements(s) /\ s.idv[s.vid[w]] = w,
           \A i \in Elements(s) : s.idv[i] # NoVar =>
               s.idv[i] \in Known(s) \ {v} /\ s.vid[s.idv[i]] = i
    PROVE  Fresh(s, v, Push(s, v))
<1> DEFINE n == Size(s)
           s2 == Push(s, v)
           K == Known(s) \cup {v}
           vid2 == [w \in K |-> IF w = v THEN n + 1 ELSE s.vid[w]]
<1>1. /\ s \in State /\ n \in Nat /\ NumTypes <= n
      /\ s.rep \in Seq(Nat) /\ Len(s.rep) = n /\ s.rank \in Seq(Nat) /\ Len(s.rank) = n
      /\ s.types \in Seq(SUBSET Types) /\ Len(s.types) = n /\ s.idv \in Seq(Nat) /\ Len(s.idv) = n
      /\ Known(s) \in SUBSET Vars /\ s.vid \in [Known(s) -> Nat]
  BY StateParts DEF Forest, Lengths, Size
<1>2. /\ Append(s.rep, n + 1) \in Seq(Nat) /\ Len(Append(s.rep, n + 1)) = n + 1
      /\ \A i \in 1 .. n : Append(s.rep, n + 1)[i] = s.rep[i]
      /\ Append(s.rep, n + 1)[n + 1] = n + 1
  BY <1>1, AppendIs, SMTT(60)
<1>3. Append(s.rank, 0) \in Seq(Nat) /\ Len(Append(s.rank, 0)) = n + 1
  BY <1>1, AppendIs
<1>4. /\ Append(s.types, Types) \in Seq(SUBSET Types) /\ Len(Append(s.types, Types)) = n + 1
      /\ \A i \in 1 .. n : Append(s.types, Types)[i] = s.types[i]
      /\ Append(s.types, Types)[n + 1] = Types
  BY <1>1, AppendIs
<1>5. /\ Append(s.idv, v) \in Seq(Nat) /\ Len(Append(s.idv, v)) = n + 1
      /\ \A i \in 1 .. n : Append(s.idv, v)[i] = s.idv[i]
      /\ Append(s.idv, v)[n + 1] = v
  <2>1. v \in Nat
    BY TypeVarsAssumption
  <2> QED BY <1>1, <2>1, AppendIs
<1>6. vid2 \in Maps
  <2>1. K \in SUBSET Vars /\ vid2 \in [K -> Nat]
    BY <1>1
  <2> HIDE DEF vid2, K
  <2> QED BY <2>1 DEF Maps
<1>7. /\ s2.rep = Append(s.rep, n + 1) /\ s2.rank = Append(s.rank, 0)
      /\ s2.types = Append(s.types, Types) /\ s2.vid = vid2 /\ s2.idv = Append(s.idv, v)
      /\ s2 = [rep |-> Append(s.rep, n + 1), rank |-> Append(s.rank, 0),
               types |-> Append(s.types, Types), vid |-> vid2, idv |-> Append(s.idv, v)]
  BY DEF Push
<1> HIDE DEF vid2
<1>8. s2 \in State
  BY <1>2, <1>3, <1>4, <1>5, <1>6, <1>7 DEF State
<1> HIDE DEF s2
<1>9. Size(s2) = n + 1 /\ Lengths(s2) /\ Elements(s) = 1 .. n /\ Elements(s2) = 1 .. n + 1
  <2>1. Size(s2) = n + 1
    BY <1>2, <1>7 DEF Size
  <2>2. n + 1 \in Nat /\ NumTypes <= n + 1
    BY <1>1, TypesAssumption, SMTT(60)
  <2>3. Lengths(s2)
    <3> HIDE DEF n
    <3> QED BY <1>3, <1>4, <1>5, <1>7, <2>1, <2>2 DEF Lengths
  <2> QED BY <2>1, <2>3, SMTT(60) DEF Elements
<1>10. Known(s2) = K /\ \A w \in K : s2.vid[w] = IF w = v THEN n + 1 ELSE s.vid[w]
  BY <1>7 DEF Known, vid2
<1> HIDE DEF n
<1>11. \A i \in 1 .. n : i \in 1 .. n + 1 /\ i # n + 1
  BY <1>1, SMTT(60) DEF n
<1>12. n + 1 \in 1 .. n + 1 /\ \A i \in 1 .. n + 1 : i = n + 1 \/ i \in 1 .. n
  BY <1>1, SMTT(60) DEF n
<1>13. \A i \in 1 .. n : s.rep[i] \in 1 .. n /\ s.rep[s.rep[i]] = s.rep[i] /\ TypesAt(s, i) # {}
  BY <1>9 DEF Forest
<1>14. \A i \in 1 .. n : s2.rep[i] = s.rep[i] /\ TypesAt(s2, i) = TypesAt(s, i)
  <2>1. \A i \in 1 .. n : s2.rep[i] = s.rep[i] /\ s2.types[s.rep[i]] = s.types[s.rep[i]]
    BY <1>2, <1>4, <1>7, <1>13, ZenonT(60)
  <2> QED BY <2>1 DEF TypesAt
<1>15. s2.rep[n + 1] = n + 1 /\ TypesAt(s2, n + 1) = Types
  BY <1>2, <1>4, <1>7 DEF TypesAt
<1>16. \A i \in 1 .. n + 1 : s2.rep[i] \in 1 .. n + 1 /\ s2.rep[s2.rep[i]] = s2.rep[i]
  BY <1>11, <1>12, <1>13, <1>14, <1>15
<1>17. Types # {} /\ \A t \in Types : Types # {t} /\ t \in 1 .. n
  <2>1. 1 \in Types /\ 2 \in Types /\ \A t \in Types : t \in 1 .. n
    BY <1>1, TypesAssumption DEF Types, n
  <2> QED BY <2>1
<1>18. Forest(s2)
  <2>1. \A i \in 1 .. n + 1 : TypesAt(s2, i) # {}
    BY <1>12, <1>13, <1>14, <1>15, <1>17
  <2> QED BY <1>8, <1>9, <1>16, <2>1 DEF Forest
<1>19. Merged(s2)
  <2>1. \A t \in Types : TypesAt(s2, t) = {t}
    BY <1>14, <1>17 DEF Merged
  <2>2. \A i \in 1 .. n, t \in Types : TypesAt(s2, i) = {t} => s2.rep[i] = s2.rep[t]
    BY <1>9, <1>14, <1>17, SMTT(60) DEF Merged
  <2> QED BY <1>9, <1>12, <1>15, <1>17, <2>1, <2>2, ZenonT(60) DEF Merged
<1>20. Names(s2)
  <2>1. IsFiniteSet(K)
    BY FS_AddElement
  <2>2. \A w \in K : s2.vid[w] \in 1 .. n + 1 /\ s2.idv[s2.vid[w]] = w
    BY <1>5, <1>7, <1>9, <1>10, <1>11, <1>12, ZenonT(60)
  <2>3. v # NoVar
    BY TypeVarsAssumption DEF NoVar
  <2>4. \A i \in 1 .. n + 1 : s2.idv[i] # NoVar => s2.idv[i] \in K /\ s2.vid[s2.idv[i]] = i
    <3>1. \A i \in 1 .. n : s2.idv[i] = s.idv[i]
      BY <1>5, <1>7
    <3>2. s2.idv[n + 1] = v /\ s2.vid[v] = n + 1 /\ v \in K
      BY <1>5, <1>7, <1>10
    <3> QED BY <1>9, <1>10, <1>12, <3>1, <3>2
  <2> QED BY <1>9, <1>10, <2>1, <2>2, <2>4 DEF Names
<1> QED BY <1>9, <1>10, <1>14, <1>15, <1>18, <1>19, <1>20 DEF Fresh, StateOK, n, s2

\* A havocked variable leaves its element behind, without a name.
LEMMA DetachIs ==
    ASSUME NEW s, StateOK(s), NEW v \in Vars
    PROVE  Fresh(s, v, Detach(s, v))
<1>1. Forest(s) /\ Merged(s) /\ s \in State /\ Names(s) /\ IsFiniteSet(Known(s)) /\ v # NoVar
  BY TypeVarsAssumption DEF StateOK, Forest, Names, NoVar
<1>2. CASE v \notin Known(s)
  <2>1. Detach(s, v) = Push(s, v)
    BY <1>2 DEF Detach
  <2>2. Fresh(s, v, Push(s, v))
    BY <1>1, <1>2, PushIs DEF Names
  <2> QED BY <2>1, <2>2
<1>3. CASE v \in Known(s)
  <2> DEFINE e == s.vid[v]
             idv2 == [s.idv EXCEPT ![e] = NoVar]
             s1 == [s EXCEPT !.idv[e] = NoVar]
  <2>1. e \in Elements(s) /\ s.idv[e] = v
    BY <1>1, <1>3 DEF Names
  <2>2. idv2 \in Seq(Nat) /\ Len(idv2) = Size(s)
        /\ \A i \in Elements(s) : idv2[i] = IF i = e THEN NoVar ELSE s.idv[i]
    <3> DEFINE q == s.idv
               n == Size(s)
               u == [q EXCEPT ![e] = NoVar]
    <3>1. q \in Seq(Nat) /\ Len(q) = n /\ n \in Nat
      BY <1>1, StateParts DEF Forest, Lengths
    <3>2. e \in 1 .. n
      BY <2>1 DEF Elements
    <3> HIDE DEF q, n, e
    <3>3. q \in [1 .. n -> Nat]
      BY <3>1
    <3>4. u \in [1 .. n -> Nat] /\ \A i \in 1 .. n : u[i] = IF i = e THEN NoVar ELSE q[i]
      BY <3>2, <3>3 DEF NoVar
    <3> HIDE DEF u
    <3>5. u \in Seq(Nat) /\ Len(u) = n
      BY <3>1, <3>4
    <3>6. idv2 = u
      BY DEF u, q
    <3> QED BY <3>4, <3>5, <3>6 DEF n, q, Elements
  <2>3. s1 = [s EXCEPT !.idv = idv2]
    OBVIOUS
  <2> HIDE DEF s1, idv2
  <2>4. /\ s1 \in State /\ s1.rep = s.rep /\ s1.rank = s.rank /\ s1.types = s.types
        /\ s1.vid = s.vid /\ s1.idv = idv2
    BY <1>1, <2>2, <2>3 DEF State
  <2>5. /\ Size(s1) = Size(s) /\ Elements(s1) = Elements(s) /\ Known(s1) = Known(s)
        /\ \A i \in Elements(s) : TypesAt(s1, i) = TypesAt(s, i)
    BY <2>4 DEF Size, Elements, Known, TypesAt
  <2>6. Lengths(s1)
    BY <1>1, <2>2, <2>4, <2>5 DEF Forest, Lengths
  <2>7. Forest(s1)
    BY <1>1, <2>4, <2>5, <2>6 DEF Forest
  <2>8. Merged(s1)
    <3>1. Types \subseteq Elements(s)
      BY <1>1, TypesAssumption DEF Forest, Lengths, Types, Elements
    <3> QED BY <1>1, <2>4, <2>5, <3>1 DEF Merged
  <2>9. \A w \in Known(s1) \ {v} : s1.vid[w] \in Elements(s1) /\ s1.idv[s1.vid[w]] = w
    <3>1. \A w \in Known(s) \ {v} : s.vid[w] # e
      BY <1>1, <2>1 DEF Names
    <3> QED BY <1>1, <2>2, <2>4, <2>5, <3>1 DEF Names
  <2>10. \A i \in Elements(s1) : s1.idv[i] # NoVar =>
             s1.idv[i] \in Known(s1) \ {v} /\ s1.vid[s1.idv[i]] = i
    BY <1>1, <2>2, <2>4, <2>5 DEF Names
  <2>11. Fresh(s1, v, Push(s1, v))
    BY <1>1, <2>5, <2>7, <2>8, <2>9, <2>10, PushIs
  <2>12. Detach(s, v) = Push(s1, v)
    BY <1>3 DEF Detach, s1
  <2> QED BY <2>4, <2>5, <2>11, <2>12 DEF Fresh
<1> QED BY <1>2, <1>3

LEMMA EnsureIs ==
    ASSUME NEW s, StateOK(s), NEW v \in Vars
    PROVE  IF v \in Known(s) THEN EnsureVar(s, v) = s ELSE Fresh(s, v, EnsureVar(s, v))
<1>1. v \notin Known(s) => EnsureVar(s, v) = Detach(s, v)
  BY DEF EnsureVar, Detach
<1>2. v \in Known(s) => EnsureVar(s, v) = s
  BY DEF EnsureVar
<1> QED BY <1>1, <1>2, DetachIs

-----------------------------------------------------------------------------
(***************************************************************************)
(* What a state means, said of all variables: those it has not seen are    *)
(* alone in their class and may have any type.                             *)
(***************************************************************************)
Valuations == [Vars -> Types]

Like(s, v, w) == v = w \/ (v \in Known(s) /\ w \in Known(s) /\ SameClass(s, v, w))

Meaning(s) ==
    {f \in Valuations : /\ \A v \in Vars : f[v] \in GetTypeset(s, v)
                        /\ \A v, w \in Vars : Like(s, v, w) => f[v] = f[w]}

LEMMA GammaIs ==
    ASSUME NEW s, StateOK(s)
    PROVE  Gamma({s}) = Meaning(s) /\ Gamma({}) = {}
<1>1. Known(s) \subseteq Vars
  BY StateParts DEF StateOK, Forest
<1> DEFINE G == {f \in [Vars -> Types] :
               \A v \in Known(s) :
                   /\ f[v] \in GetTypeset(s, v)
                   /\ \A w \in Known(s) : SameClass(s, v, w) => f[v] = f[w]}
<1>2. Gamma({s}) = G /\ Gamma({}) = {}
  BY DEF Gamma
<1>3. ASSUME NEW f \in [Vars -> Types] PROVE f \in G <=> f \in Meaning(s)
  BY <1>1 DEF Meaning, Valuations, Like, GetTypeset
<1>4. G \subseteq [Vars -> Types] /\ Meaning(s) \subseteq [Vars -> Types]
  BY DEF Meaning, Valuations
<1> QED BY <1>2, <1>3, <1>4, SMTT(60)

\* Every class has types; the variables of one class have the same.
LEMMA LikeIs ==
    ASSUME NEW s, StateOK(s)
    PROVE  /\ \A v \in Vars : GetTypeset(s, v) \in SUBSET Types /\ GetTypeset(s, v) # {}
           /\ \A v \in Vars : Like(s, v, v)
           /\ \A v, w \in Vars : Like(s, v, w) => Like(s, w, v) /\ GetTypeset(s, v) = GetTypeset(s, w)
           /\ \A v, w, u \in Vars : Like(s, v, w) /\ Like(s, w, u) => Like(s, v, u)
           /\ \A v, w \in Vars, t \in Types :
                 GetTypeset(s, v) = {t} /\ GetTypeset(s, w) = {t} => Like(s, v, w)
<1>1. /\ s \in State /\ s.types \in Seq(SUBSET Types) /\ Len(s.types) = Size(s)
      /\ \A i \in Elements(s) : s.rep[i] \in Elements(s) /\ TypesAt(s, i) # {}
      /\ \A v \in Known(s) : s.vid[v] \in Elements(s)
  BY StateParts DEF StateOK, Forest, Lengths, Names
<1>2. \A i \in Elements(s) : s.types[i] \in SUBSET Types
  BY <1>1 DEF Elements
<1>3. \A i \in Elements(s) : TypesAt(s, i) \in SUBSET Types
  BY <1>1, <1>2 DEF TypesAt
<1>4. Types # {} /\ \A t \in Types : Types # {t}
  <2>1. 1 \in Types /\ 2 \in Types
    BY TypesAssumption DEF Types
  <2> QED BY <2>1
<1>5. \A v \in Vars : GetTypeset(s, v) \in SUBSET Types /\ GetTypeset(s, v) # {}
  BY <1>1, <1>3, <1>4 DEF GetTypeset
<1>6. \A v, w \in Vars : Like(s, v, w) => Like(s, w, v) /\ GetTypeset(s, v) = GetTypeset(s, w)
  BY DEF Like, SameClass, GetTypeset, TypesAt
<1>7. \A v, w, u \in Vars : Like(s, v, w) /\ Like(s, w, u) => Like(s, v, u)
  BY DEF Like, SameClass
<1>8. \A v, w \in Vars, t \in Types :
          GetTypeset(s, v) = {t} /\ GetTypeset(s, w) = {t} => Like(s, v, w)
  <2>1. \A v \in Vars, t \in Types : GetTypeset(s, v) = {t} =>
            v \in Known(s) /\ TypesAt(s, s.vid[v]) = {t}
    BY <1>4 DEF GetTypeset
  <2>2. \A i \in Elements(s), t \in Types : TypesAt(s, i) = {t} => s.rep[i] = s.rep[t]
    BY DEF StateOK, Merged
  <2> QED BY <1>1, <2>1, <2>2, ZenonT(60) DEF Like, SameClass
<1> QED BY <1>5, <1>6, <1>7, <1>8 DEF Like

\* Any types of two classes, or one of one class, are together in a valuation.
LEMMA Attained ==
    ASSUME NEW s, StateOK(s), NEW v \in Vars, NEW w \in Vars,
           NEW t \in GetTypeset(s, v), NEW u \in GetTypeset(s, w), Like(s, v, w) => t = u
    PROVE  \E f \in Meaning(s) : f[v] = t /\ f[w] = u
<1> DEFINE any(z) == CHOOSE x \in GetTypeset(s, z) : TRUE
           f == [z \in Vars |-> IF Like(s, z, v) THEN t ELSE IF Like(s, z, w) THEN u ELSE any(z)]
<1>1. \A z \in Vars : any(z) \in GetTypeset(s, z)
  BY LikeIs
<1>2. \A y, z \in Vars : Like(s, y, z) => any(y) = any(z)
  BY LikeIs
<1> HIDE DEF any
<1>3. \A z \in Vars : f[z] \in GetTypeset(s, z)
  BY <1>1, LikeIs
<1>4. \A y, z \in Vars : Like(s, y, z) => f[y] = f[z]
  <2>1. ASSUME NEW y \in Vars, NEW z \in Vars, Like(s, y, z)
        PROVE  (Like(s, y, v) <=> Like(s, z, v)) /\ (Like(s, y, w) <=> Like(s, z, w))
    BY <2>1, LikeIs
  <2> QED BY <1>2, <2>1
<1>5. f[v] = t /\ f[w] = u
  <2>1. Like(s, v, v) /\ Like(s, w, w) /\ (Like(s, w, v) => Like(s, v, w))
    BY LikeIs
  <2> QED BY <2>1
<1>6. f \in Valuations
  <2>1. \A z \in Vars : f[z] \in Types
    BY <1>3, LikeIs
  <2> QED BY <2>1 DEF Valuations
<1> HIDE DEF f
<1> QED BY <1>3, <1>4, <1>5, <1>6 DEF Meaning

\* The types of a variable are those that valuations give it.
LEMMA TypesetIs ==
    ASSUME NEW s, StateOK(s), NEW v \in Vars
    PROVE  /\ \A t : t \in GetTypeset(s, v) <=> \E f \in Meaning(s) : f[v] = t
           /\ Meaning(s) # {}
<1>1. \A t \in GetTypeset(s, v) : \E f \in Meaning(s) : f[v] = t
  BY Attained
<1>2. \A f \in Meaning(s) : f[v] \in GetTypeset(s, v)
  BY DEF Meaning
<1> QED BY <1>1, <1>2, LikeIs

\* Variables are in one class if and only if they are equal in every valuation.
LEMMA EqualIs ==
    ASSUME NEW s, StateOK(s), NEW v \in Vars, NEW w \in Vars
    PROVE  Like(s, v, w) <=> \A f \in Meaning(s) : f[v] = f[w]
<1>1. Like(s, v, w) => \A f \in Meaning(s) : f[v] = f[w]
  BY DEF Meaning
<1>2. ASSUME ~ Like(s, v, w), \A f \in Meaning(s) : f[v] = f[w] PROVE FALSE
  <2>1. \A t \in GetTypeset(s, v), u \in GetTypeset(s, w) : t = u
    BY <1>2, Attained
  <2>2. PICK t \in GetTypeset(s, v) : TRUE
    BY LikeIs
  <2>3. t \in Types /\ GetTypeset(s, v) = {t} /\ GetTypeset(s, w) = {t}
    <3>1. GetTypeset(s, v) \in SUBSET Types /\ GetTypeset(s, w) # {}
      BY LikeIs
    <3> QED BY <2>1, <2>2, <3>1
  <2> QED BY <1>2, <2>3, LikeIs
<1> QED BY <1>1, <1>2

\* One state means no more than another.
LEMMA MeaningBelow ==
    ASSUME NEW s, StateOK(s), NEW s2, StateOK(s2)
    PROVE  Meaning(s) \subseteq Meaning(s2) <=>
              /\ \A v \in Vars : GetTypeset(s, v) \subseteq GetTypeset(s2, v)
              /\ \A v, w \in Vars : Like(s2, v, w) => Like(s, v, w)
<1>1. ASSUME Meaning(s) \subseteq Meaning(s2)
      PROVE  /\ \A v \in Vars : GetTypeset(s, v) \subseteq GetTypeset(s2, v)
             /\ \A v, w \in Vars : Like(s2, v, w) => Like(s, v, w)
  <2>1. \A v \in Vars : GetTypeset(s, v) \subseteq GetTypeset(s2, v)
    BY <1>1, TypesetIs
  <2>2. \A v, w \in Vars : Like(s2, v, w) => Like(s, v, w)
    BY <1>1, EqualIs
  <2> QED BY <2>1, <2>2
<1> QED BY <1>1 DEF Meaning

\* Whatever the types per variable and the equalities can describe is Best.
LEMMA MeaningIsBest ==
    ASSUME NEW s, StateOK(s)
    PROVE  Abstract!Best(Meaning(s)) = Meaning(s) /\ Abstract!Best({}) = {}
<1>1. Abstract!Best({}) = {}
  BY TypeVarsAssumption DEF Abstract!Best
<1>2. \A f \in Meaning(s) : f \in Abstract!Best(Meaning(s))
  BY DEF Meaning, Abstract!Best, Abstract!Valuations, Valuations
<1>3. ASSUME NEW f \in Abstract!Best(Meaning(s)) PROVE f \in Meaning(s)
  <2>1. /\ f \in Valuations
        /\ \A v \in Vars : \E g \in Meaning(s) : g[v] = f[v]
        /\ \A v, w \in Vars : (\A g \in Meaning(s) : g[v] = g[w]) => f[v] = f[w]
    BY DEF Abstract!Best, Abstract!Valuations, Valuations
  <2>2. \A v \in Vars : f[v] \in GetTypeset(s, v)
    BY <2>1, TypesetIs
  <2>3. \A v, w \in Vars : Like(s, v, w) => f[v] = f[w]
    BY <2>1, EqualIs
  <2> QED BY <2>1, <2>2, <2>3 DEF Meaning
<1> QED BY <1>1, <1>2, <1>3

-----------------------------------------------------------------------------
(***************************************************************************)
(* The operations on one state.                                            *)
(***************************************************************************)
\* What a new element for v does: v may have any type.
LEMMA FreshMeaning ==
    ASSUME NEW s, StateOK(s), NEW v \in Vars, NEW s2, Fresh(s, v, s2)
    PROVE  /\ Meaning(s2) = {[f EXCEPT ![v] = t] : f \in Meaning(s), t \in Types}
           /\ v \notin Known(s) => Meaning(s2) = Meaning(s)
           /\ GetTypeset(s2, v) = Types
           /\ \A w \in Vars : Like(s2, v, w) => v = w
           /\ \A u, w \in Vars \ {v} : GetTypeset(s2, w) = GetTypeset(s, w)
                                       /\ (Like(s2, u, w) <=> Like(s, u, w))
<1>1. /\ StateOK(s2) /\ Known(s2) = Known(s) \cup {v} /\ Size(s) \in Nat
      /\ \A w \in Known(s) : s.vid[w] \in Elements(s) /\ s.rep[s.vid[w]] \in Elements(s)
  BY DEF Fresh, StateOK, Forest, Lengths, Names
<1>2. s2.vid[v] = Size(s) + 1 /\ s2.rep[s2.vid[v]] = Size(s) + 1 /\ TypesAt(s2, s2.vid[v]) = Types
  BY DEF Fresh
<1>3. \A w \in Known(s) \ {v} : s2.vid[w] = s.vid[w] /\ s2.rep[s2.vid[w]] = s.rep[s.vid[w]]
                                 /\ TypesAt(s2, s2.vid[w]) = TypesAt(s, s.vid[w])
  BY <1>1 DEF Fresh
<1>4. \A i \in Elements(s) : i # Size(s) + 1
  BY <1>1 DEF Elements
<1>5. GetTypeset(s2, v) = Types /\ \A w \in Vars \ {v} : GetTypeset(s2, w) = GetTypeset(s, w)
  BY <1>1, <1>2, <1>3 DEF GetTypeset
<1>6. \A u, w \in Vars \ {v} : Like(s2, u, w) <=> Like(s, u, w)
  BY <1>1, <1>3 DEF Like, SameClass
<1>7. \A w \in Vars : Like(s2, v, w) \/ Like(s2, w, v) => v = w
  BY <1>1, <1>2, <1>3, <1>4 DEF Like, SameClass
<1>8. ASSUME NEW f \in Meaning(s), NEW t \in Types PROVE [f EXCEPT ![v] = t] \in Meaning(s2)
  <2> DEFINE g == [f EXCEPT ![v] = t]
  <2>1. f \in Valuations
    BY DEF Meaning
  <2>2. g \in Valuations /\ g[v] = t /\ \A w \in Vars \ {v} : g[w] = f[w]
    BY <2>1 DEF Valuations
  <2> HIDE DEF g
  <2>3. \A w \in Vars : g[w] \in GetTypeset(s2, w)
    BY <1>5, <2>2 DEF Meaning
  <2>4. \A u, w \in Vars : Like(s2, u, w) => g[u] = g[w]
    BY <1>6, <1>7, <2>2 DEF Meaning
  <2> QED BY <2>2, <2>3, <2>4 DEF Meaning, g
<1>9. ASSUME NEW h \in Meaning(s2)
      PROVE  \E f \in Meaning(s), t \in Types : h = [f EXCEPT ![v] = t]
  <2>1. h \in Valuations /\ h[v] \in Types
    BY DEF Meaning, Valuations
  <2>2. PICK x \in GetTypeset(s, v) : \A w \in Vars \ {v} : Like(s, v, w) => x = h[w]
    <3>1. CASE \E w \in Vars \ {v} : Like(s, v, w)
      <4>1. PICK w \in Vars \ {v} : Like(s, v, w)
        BY <3>1
      <4>2. h[w] \in GetTypeset(s, v)
        BY <1>5, <4>1, LikeIs DEF Meaning
      <4>3. \A u \in Vars \ {v} : Like(s, v, u) => Like(s, w, u)
        BY <4>1, LikeIs
      <4>4. \A u \in Vars \ {v} : Like(s, v, u) => h[w] = h[u]
        BY <1>6, <4>3 DEF Meaning
      <4> QED BY <4>2, <4>4
    <3>2. CASE ~ \E w \in Vars \ {v} : Like(s, v, w)
      BY <3>2, LikeIs
    <3> QED BY <3>1, <3>2
  <2> DEFINE f == [h EXCEPT ![v] = x]
  <2>3. x \in Types
    BY LikeIs
  <2>4. f \in Valuations /\ f[v] = x /\ \A w \in Vars \ {v} : f[w] = h[w]
    BY <2>1, <2>3 DEF Valuations
  <2>5. h = [f EXCEPT ![v] = h[v]]
    BY <2>1, <2>3 DEF Valuations
  <2> HIDE DEF f
  <2>6. \A w \in Vars : f[w] \in GetTypeset(s, w)
    BY <1>5, <2>4 DEF Meaning
  <2>7. \A u, w \in Vars : Like(s, u, w) => f[u] = f[w]
    <3>1. \A u, w \in Vars \ {v} : Like(s, u, w) => f[u] = f[w]
      BY <1>6, <2>4 DEF Meaning
    <3>2. \A w \in Vars \ {v} : Like(s, v, w) \/ Like(s, w, v) => f[v] = f[w]
      BY <2>2, <2>4, LikeIs
    <3> QED BY <3>1, <3>2
  <2>8. f \in Meaning(s)
    BY <2>4, <2>6, <2>7 DEF Meaning
  <2> QED BY <2>1, <2>5, <2>8
<1>10. ASSUME v \notin Known(s) PROVE Meaning(s2) = Meaning(s)
  <2>1. GetTypeset(s, v) = Types /\ \A w \in Vars : Like(s, v, w) \/ Like(s, w, v) => v = w
    BY <1>10 DEF GetTypeset, Like
  <2> QED BY <1>5, <1>6, <1>7, <2>1 DEF Meaning
<1>11. Meaning(s2) = {[f EXCEPT ![v] = t] : f \in Meaning(s), t \in Types}
  BY <1>8, <1>9
<1> QED BY <1>5, <1>6, <1>7, <1>10, <1>11

\* The classes of v and w are made one and narrowed to the types of M.
Filtered(s, v, w, M) == {f \in Meaning(s) : f[v] = f[w] /\ f[v] \in M}

NarrowTypes(s, v, w, M) == (TypesAt(s, s.vid[v]) \cap TypesAt(s, s.vid[w])) \cap M

NarrowState(s, v, w, M) ==
    MergeIfSingleton(SetTypes(Union(s, s.vid[v], s.vid[w]), s.vid[v], NarrowTypes(s, v, w, M)), s.vid[v])

LEMMA NarrowedIs ==
    ASSUME NEW s, StateOK(s), NEW v \in Known(s), NEW w \in Known(s), NEW M \in SUBSET Types
    PROVE  /\ NarrowTypes(s, v, w, M) = {} => Filtered(s, v, w, M) = {}
           /\ NarrowTypes(s, v, w, M) # {} =>
                  /\ StateOK(NarrowState(s, v, w, M)) /\ Known(NarrowState(s, v, w, M)) = Known(s)
                  /\ Meaning(NarrowState(s, v, w, M)) = Filtered(s, v, w, M)
<1> DEFINE x == s.vid[v]
           y == s.vid[w]
           ts == NarrowTypes(s, v, w, M)
           s2 == NarrowState(s, v, w, M)
<1>0. /\ ts = (TypesAt(s, x) \cap TypesAt(s, y)) \cap M
      /\ s2 = MergeIfSingleton(SetTypes(Union(s, x, y), x, ts), x)
  BY DEF NarrowTypes, NarrowState
<1> SUFFICES /\ ts = {} => Filtered(s, v, w, M) = {}
             /\ ts # {} => StateOK(s2) /\ Known(s2) = Known(s) /\ Meaning(s2) = Filtered(s, v, w, M)
  OBVIOUS
<1> HIDE DEF ts, s2
<1> USE <1>0
<1> DEFINE C == Class(s, x) \cup Class(s, y) \cup SentinelOf(s, ts)
<1>1. /\ Forest(s) /\ Names(s) /\ Merged(s) /\ x \in Elements(s) /\ y \in Elements(s)
      /\ Known(s) \subseteq Vars /\ Types \subseteq Elements(s) /\ ts \in SUBSET Types
      /\ \A u \in Known(s) : s.vid[u] \in Elements(s)
  <2>1. Types \subseteq Elements(s)
    BY TypesAssumption DEF StateOK, Forest, Lengths, Types, Elements
  <2> QED BY <2>1, StateParts, SMTT(60) DEF StateOK, Forest, Names
<1>2. \A f \in Meaning(s) : \A u \in Known(s) : f[u] \in TypesAt(s, s.vid[u])
  BY <1>1 DEF Meaning, GetTypeset
<1>3. \A f \in Meaning(s) : \A u, z \in Known(s) : s.rep[s.vid[u]] = s.rep[s.vid[z]] => f[u] = f[z]
  BY <1>1 DEF Meaning, Like, SameClass
<1>4. \A f \in Filtered(s, v, w, M) : f \in Meaning(s) /\ f[v] = f[w] /\ f[v] \in ts
  BY <1>2 DEF Filtered
<1>5. CASE ts = {}
  BY <1>4, <1>5, SMTT(60)
<1>6. CASE ts # {}
  <2>1. Joined(s, s2, C, ts)
    BY <1>1, <1>6, MergedIs
  <2>2. /\ Forest(s2) /\ Size(s2) = Size(s) /\ Elements(s2) = Elements(s)
        /\ s2.vid = s.vid /\ s2.idv = s.idv /\ Known(s2) = Known(s)
        /\ \A i, j \in Elements(s) :
              s2.rep[i] = s2.rep[j] <=> s.rep[i] = s.rep[j] \/ (i \in C /\ j \in C)
        /\ \A i \in Elements(s) : TypesAt(s2, i) = IF i \in C THEN ts ELSE TypesAt(s, i)
    BY <2>1 DEF Joined, Elements, Known
  <2>3. \A i \in C : i \in Elements(s)
    BY DEF Class, SentinelOf
  <2>4. x \in C /\ y \in C
    BY <1>1 DEF Class
  \* The types of an element of C are ts or more, and none but ts if it is a sentinel's.
  <2>5. ASSUME NEW i \in C
        PROVE  /\ ts \subseteq TypesAt(s, i)
               /\ \/ s.rep[i] = s.rep[x] \/ s.rep[i] = s.rep[y]
                  \/ \E t \in Types : ts = {t} /\ TypesAt(s, i) = {t} /\ s.rep[i] = s.rep[t]
    <3>1. CASE i \in Class(s, x) \cup Class(s, y)
      BY <3>1, ZenonT(60) DEF Class, TypesAt
    <3>2. CASE i \in SentinelOf(s, ts)
      <4>1. PICK t \in Types : ts = {t} /\ s.rep[i] = s.rep[t]
        BY <3>2, ZenonT(60) DEF SentinelOf
      <4>2. TypesAt(s, i) = {t}
        BY <1>1, <4>1, ZenonT(60) DEF Merged, TypesAt
      <4> QED BY <4>1, <4>2
    <3> QED BY <3>1, <3>2, ZenonT(60)
  <2>6. \A t \in Types : ts = {t} => t \in C
    BY <1>1 DEF SentinelOf
  <2> HIDE DEF C
  <2> DEFINE within == \A i \in C : ts \subseteq TypesAt(s, i)
  <2>5a. within
    BY <2>5
  <2>5b. \A u, z \in Known(s) : s.rep[s.vid[u]] = s.rep[s.vid[z]] => s2.rep[s.vid[u]] = s2.rep[s.vid[z]]
    BY ONLY <1>1, <2>2
  <2>5c. s2.rep[x] = s2.rep[y]
    BY ONLY <1>1, <2>2, <2>4
  <2>7. Names(s2)
    BY ONLY <1>1, <2>2 DEF Names
  <2>8. Merged(s2)
    <3>1. \A t \in Types : TypesAt(s2, t) = {t}
      <4>1. \A t \in Types : TypesAt(s, t) = {t}
        BY <1>1 DEF Merged
      <4> QED BY <1>1, <1>6, <2>2, <2>5, <4>1, SMTT(60)
    <3>2. ASSUME NEW i \in Elements(s), NEW t \in Types, TypesAt(s2, i) = {t}
          PROVE  s2.rep[i] = s2.rep[t]
      <4>1. t \in Elements(s)
        BY <1>1
      <4>2. CASE i \in C
        <5>1. t \in C
          BY <2>2, <2>6, <3>2, <4>2
        <5> QED BY <2>2, <4>1, <4>2, <5>1, ZenonT(60)
      <4>3. CASE i \notin C
        <5>1. TypesAt(s, i) = {t}
          BY <2>2, <3>2, <4>3
        <5>2. s.rep[i] = s.rep[t]
          BY <1>1, <5>1 DEF Merged
        <5> QED BY <2>2, <4>1, <5>2, ZenonT(60)
      <4> QED BY <4>2, <4>3
    <3> QED BY <2>2, <3>1, <3>2, ZenonT(60) DEF Merged
  <2>9. StateOK(s2)
    BY <2>2, <2>7, <2>8 DEF StateOK
  <2>10. ASSUME NEW f \in Meaning(s2) PROVE f \in Filtered(s, v, w, M)
    <3>1. /\ f \in Valuations
          /\ \A u \in Vars : f[u] \in GetTypeset(s2, u)
          /\ \A u, z \in Vars : Like(s2, u, z) => f[u] = f[z]
      BY DEF Meaning
    <3>2. \A u \in Known(s) : f[u] \in TypesAt(s2, s.vid[u])
      BY <1>1, <2>2, <3>1 DEF GetTypeset
    <3>3. \A u \in Known(s) : f[u] \in TypesAt(s, s.vid[u])
      <4>1. \A i \in Elements(s) : TypesAt(s2, i) \subseteq TypesAt(s, i)
        BY ONLY <2>2, <2>5a
      <4> QED BY ONLY <1>1, <3>2, <4>1
    <3>4. \A u \in Vars : f[u] \in GetTypeset(s, u)
      <4>1. \A u \in Vars : f[u] \in Types
        BY <3>1, SMTT(60) DEF Valuations
      <4> QED BY <3>3, <4>1, SMTT(60) DEF GetTypeset
    <3>5. \A u, z \in Known(s) : s.rep[s.vid[u]] = s.rep[s.vid[z]] => f[u] = f[z]
      <4>1. ASSUME NEW u \in Known(s), NEW z \in Known(s), s.rep[s.vid[u]] = s.rep[s.vid[z]]
            PROVE  Like(s2, u, z) /\ u \in Vars /\ z \in Vars
        <5>1. s2.rep[s.vid[u]] = s2.rep[s.vid[z]]
          BY ONLY <2>5b, <4>1, ZenonT(60)
        <5>2. s2.vid = s.vid /\ Known(s2) = Known(s)
          BY ONLY <2>2, ZenonT(60)
        <5>3. u \in Vars /\ z \in Vars
          BY ONLY <1>1, ZenonT(60)
        <5> QED BY ONLY <5>1, <5>2, <5>3, ZenonT(60) DEF Like, SameClass
      <4> QED BY <3>1, <4>1
    <3>6. f[v] = f[w]
      <4>1. Like(s2, v, w) /\ v \in Vars /\ w \in Vars
        BY <1>1, <2>2, <2>5c, ZenonT(60) DEF Like, SameClass
      <4> QED BY <3>1, <4>1
    <3>7. f[v] \in ts
      BY <1>1, <2>2, <2>4, <3>2, ZenonT(60)
    <3>8. f \in Meaning(s)
      BY <3>1, <3>4, <3>5, ZenonT(60) DEF Meaning, Like, SameClass
    <3> QED BY <3>6, <3>7, <3>8 DEF Filtered
  <2>11. ASSUME NEW f \in Filtered(s, v, w, M) PROVE f \in Meaning(s2)
    <3>1. f \in Meaning(s) /\ f[v] = f[w] /\ f[v] \in ts /\ f \in Valuations
      BY <1>4, SMTT(60) DEF Meaning
    <3>2. ASSUME NEW u \in Known(s), s.vid[u] \in C PROVE f[u] = f[v]
      <4>1. f[u] \in TypesAt(s, s.vid[u])
        BY <1>2, <3>1
      <4>2. s.rep[s.vid[u]] = s.rep[x] => f[u] = f[v]
        BY <1>3, <3>1, SMTT(60)
      <4>3. s.rep[s.vid[u]] = s.rep[y] => f[u] = f[w]
        BY <1>3, <3>1
      <4>4. (\E t \in Types : ts = {t} /\ TypesAt(s, s.vid[u]) = {t}) => f[u] = f[v]
        BY <3>1, <4>1, SMTT(60)
      <4> QED BY <2>5, <3>1, <3>2, <4>2, <4>3, <4>4
    <3>3. \A u \in Known(s) : f[u] \in TypesAt(s2, s.vid[u])
      BY <1>1, <1>2, <2>2, <3>1, <3>2, ZenonT(60)
    <3>4. \A u \in Vars : f[u] \in GetTypeset(s2, u)
      <4>1. \A u \in Vars : f[u] \in Types
        BY <3>1, SMTT(60) DEF Valuations
      <4> QED BY <2>2, <3>3, <4>1, SMTT(60) DEF GetTypeset
    <3>5. \A u, z \in Known(s) : s2.rep[s.vid[u]] = s2.rep[s.vid[z]] => f[u] = f[z]
      <4>1. ASSUME NEW u \in Known(s), NEW z \in Known(s), s2.rep[s.vid[u]] = s2.rep[s.vid[z]]
            PROVE  f[u] = f[z]
        <5>1. s.rep[s.vid[u]] = s.rep[s.vid[z]] \/ (s.vid[u] \in C /\ s.vid[z] \in C)
          BY ONLY <1>1, <2>2, <4>1
        <5> QED BY <1>3, <3>1, <3>2, <5>1
      <4> QED BY <4>1
    <3>6. \A u, z \in Vars : Like(s2, u, z) => f[u] = f[z]
      BY ONLY <2>2, <3>5 DEF Like, SameClass
    <3> QED BY <3>1, <3>4, <3>6 DEF Meaning
  <2> QED BY <1>6, <2>2, <2>9, <2>10, <2>11
<1> QED BY <1>5, <1>6

LEMMA UnionSelf ==
    ASSUME NEW s, NEW x
    PROVE  Union(s, x, x) = s
BY DEF Union

\* An abstract state: bottom, or one state.
DomOK(d) == d = {} \/ \E s : StateOK(s) /\ d = {s}

\* The abstract state d stands for the valuations S.
Means(d, S) == DomOK(d) /\ Gamma(d) = S

LEMMA MeansIs ==
    ASSUME NEW S
    PROVE  /\ S = {} => Means({}, S)
           /\ \A s : StateOK(s) /\ Meaning(s) = S => Means({s}, S)
BY GammaIs DEF Means, DomOK, Gamma

LEMMA KnownVars ==
    ASSUME NEW s, StateOK(s)
    PROVE  Known(s) \subseteq Vars /\ \A v \in Known(s) : GetTypeset(s, v) = TypesAt(s, s.vid[v])
BY StateParts DEF StateOK, Forest, GetTypeset

LEMMA EnsureMeaning ==
    ASSUME NEW s, StateOK(s), NEW v \in Vars
    PROVE  /\ StateOK(EnsureVar(s, v)) /\ Known(EnsureVar(s, v)) = Known(s) \cup {v}
           /\ Meaning(EnsureVar(s, v)) = Meaning(s)
<1>1. CASE v \in Known(s)
  BY <1>1, EnsureIs
<1>2. CASE v \notin Known(s)
  <2>1. Fresh(s, v, EnsureVar(s, v))
    BY <1>2, EnsureIs
  <2>2. Meaning(EnsureVar(s, v)) = Meaning(s)
    BY <1>2, <2>1, FreshMeaning
  <2> QED BY <2>1, <2>2 DEF Fresh
<1> QED BY <1>1, <1>2

\* What Narrowed makes of the classes of two variables.
LEMMA NarrowedMeans ==
    ASSUME NEW s, StateOK(s), NEW v \in Known(s), NEW w \in Known(s), NEW M \in SUBSET Types
    PROVE  Means(Narrowed(Union(s, s.vid[v], s.vid[w]), s.vid[v], NarrowTypes(s, v, w, M)),
                 Filtered(s, v, w, M))
<1>1. Narrowed(Union(s, s.vid[v], s.vid[w]), s.vid[v], NarrowTypes(s, v, w, M))
          = IF NarrowTypes(s, v, w, M) = {} THEN {} ELSE {NarrowState(s, v, w, M)}
  BY DEF Narrowed, NarrowState
<1> QED BY <1>1, NarrowedIs, MeansIs

LEMMA RestrictIs ==
    ASSUME NEW s, StateOK(s), NEW v \in Vars, NEW M \in SUBSET Types
    PROVE  Means(RestrictTo(s, v, M), {f \in Meaning(s) : f[v] \in M})
<1> DEFINE s1 == EnsureVar(s, v)
<1>1. StateOK(s1) /\ v \in Known(s1) /\ Meaning(s1) = Meaning(s)
  BY EnsureMeaning
<1>2. RestrictTo(s, v, M) = Narrowed(Union(s1, s1.vid[v], s1.vid[v]), s1.vid[v], NarrowTypes(s1, v, v, M))
  BY UnionSelf DEF RestrictTo, NarrowTypes
<1> HIDE DEF s1
<1>3. Means(RestrictTo(s, v, M), Filtered(s1, v, v, M))
  BY <1>1, <1>2, NarrowedMeans
<1>4. Filtered(s1, v, v, M) = {f \in Meaning(s) : f[v] \in M}
  BY <1>1 DEF Filtered
<1> QED BY <1>3, <1>4

LEMMA RemoveIs ==
    ASSUME NEW s, StateOK(s), NEW v \in Vars, NEW te \in Types
    PROVE  Means(RemoveType(s, v, te), {f \in Meaning(s) : f[v] # te})
<1> DEFINE s1 == EnsureVar(s, v)
<1>1. StateOK(s1) /\ v \in Known(s1)
  BY EnsureMeaning
<1>2. TypesAt(s1, s1.vid[v]) \in SUBSET Types
  BY <1>1, KnownVars, LikeIs
<1>3. RemoveType(s, v, te) = RestrictTo(s, v, Types \ {te})
  <2>1. TypesAt(s1, s1.vid[v]) \ {te} = TypesAt(s1, s1.vid[v]) \cap (Types \ {te})
    BY <1>2
  <2> QED BY <2>1 DEF RemoveType, RestrictTo
<1>4. Means(RestrictTo(s, v, Types \ {te}), {f \in Meaning(s) : f[v] \in Types \ {te}})
  BY RestrictIs
<1>5. {f \in Meaning(s) : f[v] \in Types \ {te}} = {f \in Meaning(s) : f[v] # te}
  BY DEF Meaning, Valuations
<1> QED BY <1>3, <1>4, <1>5

LEMMA AssumeEqIs ==
    ASSUME NEW s, StateOK(s), NEW v \in Vars, NEW w \in Vars
    PROVE  Means(AssumeEq(s, v, w), {f \in Meaning(s) : f[v] = f[w]})
<1> DEFINE s1 == EnsureVar(EnsureVar(s, v), w)
<1>1. StateOK(s1) /\ v \in Known(s1) /\ w \in Known(s1) /\ Meaning(s1) = Meaning(s)
  <2>1. StateOK(EnsureVar(s, v)) /\ v \in Known(EnsureVar(s, v)) /\ Meaning(EnsureVar(s, v)) = Meaning(s)
    BY EnsureMeaning
  <2> QED BY <2>1, EnsureMeaning
<1>2. AssumeEq(s, v, w)
          = Narrowed(Union(s1, s1.vid[v], s1.vid[w]), s1.vid[v], TypesAt(s1, s1.vid[v]) \cap TypesAt(s1, s1.vid[w]))
  BY DEF AssumeEq
<1> HIDE DEF s1
<1>3. TypesAt(s1, s1.vid[v]) \cap TypesAt(s1, s1.vid[w]) = NarrowTypes(s1, v, w, Types)
  <2>1. TypesAt(s1, s1.vid[v]) \in SUBSET Types
    BY <1>1, KnownVars, LikeIs
  <2> QED BY <2>1 DEF NarrowTypes
<1>4. Means(AssumeEq(s, v, w), Filtered(s1, v, w, Types))
  BY <1>1, <1>2, <1>3, NarrowedMeans
<1>5. Filtered(s1, v, w, Types) = {f \in Meaning(s) : f[v] = f[w]}
  BY <1>1 DEF Filtered, Meaning, Valuations
<1> QED BY <1>4, <1>5

LEMMA AssignTypeIs ==
    ASSUME NEW s, StateOK(s), NEW v \in Vars, NEW n
    PROVE  Means(AssignConstant(s, v, n),
                 IF n \in Types THEN {[f EXCEPT ![v] = n] : f \in Meaning(s)} ELSE {})
<1>1. CASE n \notin Types
  BY <1>1, MeansIs DEF AssignConstant
<1>2. CASE n \in Types
  <2> DEFINE s1 == Detach(s, v)
             M == {n}
             s2 == NarrowState(s1, v, v, M)
  <2>1. Fresh(s, v, s1)
    BY DetachIs
  <2>2. /\ StateOK(s1) /\ v \in Known(s1) /\ TypesAt(s1, s1.vid[v]) = Types /\ s1.rep[s1.vid[v]] = s1.vid[v]
        /\ Meaning(s1) = {[f EXCEPT ![v] = t] : f \in Meaning(s), t \in Types}
    <3>1. Meaning(s1) = {[f EXCEPT ![v] = t] : f \in Meaning(s), t \in Types}
      BY <2>1, FreshMeaning
    <3> QED BY <2>1, <3>1 DEF Fresh
  <2>3. NarrowTypes(s1, v, v, M) = {n}
    BY <1>2, <2>2 DEF NarrowTypes
  <2>4. AssignConstant(s, v, n) = {s2}
    <3>1. SetTypes(s1, s1.vid[v], {n}) = [s1 EXCEPT !.types[s1.vid[v]] = {n}]
      BY <2>2 DEF SetTypes
    <3> QED BY <1>2, <2>3, <3>1, UnionSelf DEF AssignConstant, AssignTypeEncoding, NarrowState
  <2>5. M \in SUBSET Types
    BY <1>2
  <2> HIDE DEF s1, M
  <2>6. StateOK(s2) /\ Meaning(s2) = Filtered(s1, v, v, M)
    BY <2>2, <2>3, <2>5, NarrowedIs
  <2>7. Filtered(s1, v, v, M) = {[f EXCEPT ![v] = n] : f \in Meaning(s)}
    <3>1. \A f \in Meaning(s) : \A t \in Types : [f EXCEPT ![v] = t][v] = t
      BY DEF Meaning, Valuations
    <3>2. \A h \in Filtered(s1, v, v, M) : \E f \in Meaning(s), t \in Types : h = [f EXCEPT ![v] = t] /\ h[v] = n
      BY <2>2 DEF Filtered, M
    <3>3. \A h \in Filtered(s1, v, v, M) : \E f \in Meaning(s) : h = [f EXCEPT ![v] = n]
      BY <3>1, <3>2
    <3>4. ASSUME NEW f \in Meaning(s) PROVE [f EXCEPT ![v] = n] \in Filtered(s1, v, v, M)
      <4>1. [f EXCEPT ![v] = n] \in Meaning(s1)
        BY <1>2, <2>2
      <4>2. [f EXCEPT ![v] = n][v] = n
        BY <1>2, <3>1
      <4> QED BY <4>1, <4>2 DEF Filtered, M
    <3> QED BY <3>3, <3>4
  <2> HIDE DEF s2
  <2> QED BY <1>2, <2>4, <2>6, <2>7, MeansIs
<1> QED BY <1>1, <1>2

LEMMA HavocIs ==
    ASSUME NEW s, StateOK(s), NEW v \in Vars
    PROVE  /\ Fresh(s, v, Detach(s, v)) /\ StateOK(Detach(s, v))
           /\ Meaning(Detach(s, v)) = {[f EXCEPT ![v] = t] : f \in Meaning(s), t \in Types}
<1>1. Fresh(s, v, Detach(s, v))
  BY DetachIs
<1> QED BY <1>1, FreshMeaning DEF Fresh

LEMMA CopyIs ==
    ASSUME NEW s, StateOK(s), NEW v \in Vars, NEW w \in Vars, v # w
    PROVE  /\ StateOK(AssignTypeVar(s, v, w))
           /\ Meaning(AssignTypeVar(s, v, w)) = {[f EXCEPT ![v] = f[w]] : f \in Meaning(s)}
<1> DEFINE s0 == Detach(s, v)
           s1 == EnsureVar(s0, w)
           s2 == NarrowState(s1, v, w, Types)
<1>1. StateOK(s0) /\ v \in Known(s0)
      /\ Meaning(s0) = {[f EXCEPT ![v] = t] : f \in Meaning(s), t \in Types}
  BY HavocIs, SMTT(60) DEF Fresh
<1>2. /\ StateOK(s1) /\ v \in Known(s1) /\ w \in Known(s1)
      /\ Meaning(s1) = {[f EXCEPT ![v] = t] : f \in Meaning(s), t \in Types}
  <2> HIDE DEF s0
  <2> QED BY <1>1, EnsureMeaning
<1>3. GetTypeset(s1, v) = Types
  <2>1. Fresh(s, v, s0) /\ GetTypeset(s0, v) = Types
    BY DetachIs, FreshMeaning
  <2> HIDE DEF s0
  <2>2. CASE w \in Known(s0)
    BY <1>1, <2>1, <2>2, EnsureIs
  <2>3. CASE w \notin Known(s0)
    <3>1. Fresh(s0, w, s1)
      BY <1>1, <2>3, EnsureIs
    <3> HIDE DEF s1
    <3> QED BY <1>1, <2>1, <3>1, FreshMeaning
  <2> QED BY <2>2, <2>3
<1>4. AssignTypeVar(s, v, w)
          = MergeIfSingleton(SetTypes(Union(s1, s1.vid[v], s1.vid[w]), s1.vid[v], TypesAt(s1, s1.vid[w])), s1.vid[v])
  BY DEF AssignTypeVar
<1> HIDE DEF s0, s1
<1>5. /\ TypesAt(s1, s1.vid[v]) = Types /\ TypesAt(s1, s1.vid[w]) \in SUBSET Types
      /\ TypesAt(s1, s1.vid[w]) # {}
  BY <1>2, <1>3, KnownVars, LikeIs
<1>6. NarrowTypes(s1, v, w, Types) = TypesAt(s1, s1.vid[w])
  BY <1>5 DEF NarrowTypes
<1>7. AssignTypeVar(s, v, w) = s2
  BY <1>4, <1>6 DEF NarrowState
<1>8. StateOK(s2) /\ Meaning(s2) = Filtered(s1, v, w, Types)
  BY <1>2, <1>5, <1>6, NarrowedIs
<1>9. \A f \in Meaning(s) : f[w] \in Types
      /\ \A t \in Types : [f EXCEPT ![v] = t][v] = t /\ [f EXCEPT ![v] = t][w] = f[w]
  BY DEF Meaning, Valuations
<1>10. ASSUME NEW h \in Filtered(s1, v, w, Types)
       PROVE  \E f \in Meaning(s) : h = [f EXCEPT ![v] = f[w]]
  <2>1. PICK f \in Meaning(s), t \in Types : h = [f EXCEPT ![v] = t] /\ h[v] = h[w]
    BY <1>2 DEF Filtered
  <2> QED BY <1>9, <2>1, ZenonT(60)
<1>11. ASSUME NEW f \in Meaning(s) PROVE [f EXCEPT ![v] = f[w]] \in Filtered(s1, v, w, Types)
  <2> DEFINE h == [f EXCEPT ![v] = f[w]]
  <2>1. h \in Meaning(s1) /\ h[v] = f[w] /\ h[w] = f[w] /\ f[w] \in Types
    BY <1>2, <1>9
  <2> HIDE DEF h
  <2>2. h \in Filtered(s1, v, w, Types)
    BY <2>1 DEF Filtered
  <2> QED BY <2>2 DEF h
<1>12. Filtered(s1, v, w, Types) = {[f EXCEPT ![v] = f[w]] : f \in Meaning(s)}
  BY <1>10, <1>11
<1> QED BY <1>7, <1>8, <1>12

\* The element of from, where it has one, becomes the element of to.
LEMMA RenameIs ==
    ASSUME NEW s, StateOK(s), NEW from \in Known(s), NEW to \in Known(s), from # to
    PROVE  LET s2 == Rename(s, from, to)
           IN  /\ StateOK(s2) /\ Known(s2) = Known(s) \ {from}
               /\ s2.vid[to] = s.vid[from] /\ \A v \in Known(s) \ {from, to} : s2.vid[v] = s.vid[v]
               /\ s2.rep = s.rep /\ s2.types = s.types
<1> DEFINE id == s.vid[from]
           old == s.vid[to]
           idv0 == [s.idv EXCEPT ![old] = NoVar]
           idv2 == [idv0 EXCEPT ![id] = to]
           K == (Known(s) \ {from}) \cup {to}
           vid2 == [v \in K |-> IF v = to THEN id ELSE s.vid[v]]
           s2 == Rename(s, from, to)
<1>1. /\ Forest(s) /\ Names(s) /\ Merged(s) /\ s \in State /\ Lengths(s)
      /\ Known(s) \in SUBSET Vars /\ s.vid \in [Known(s) -> Nat]
      /\ s.idv \in Seq(Nat) /\ Len(s.idv) = Size(s) /\ Size(s) \in Nat
  BY StateParts DEF StateOK, Forest, Lengths
<1>2. /\ id \in Elements(s) /\ old \in Elements(s) /\ id # old /\ to \in Nat /\ to # NoVar
      /\ \A v \in Known(s) : s.vid[v] \in Elements(s) /\ s.idv[s.vid[v]] = v
  <2>1. to \in Nat /\ to # NoVar
    BY <1>1, TypeVarsAssumption DEF NoVar
  <2> QED BY <1>1, <2>1 DEF Names
<1>3. K = Known(s) \ {from}
  OBVIOUS
<1>4. /\ idv2 \in Seq(Nat) /\ Len(idv2) = Size(s)
      /\ \A i \in Elements(s) : idv2[i] = IF i = id THEN to ELSE IF i = old THEN NoVar ELSE s.idv[i]
  <2> DEFINE q == s.idv
             n == Size(s)
             u0 == [q EXCEPT ![old] = NoVar]
             u == [u0 EXCEPT ![id] = to]
  <2>1. q \in Seq(Nat) /\ Len(q) = n /\ n \in Nat /\ id \in 1 .. n /\ old \in 1 .. n
    BY <1>1, <1>2 DEF Elements
  <2> HIDE DEF q, n, id, old
  <2>2. q \in [1 .. n -> Nat]
    BY <2>1
  <2>3. u0 \in [1 .. n -> Nat] /\ \A i \in 1 .. n : u0[i] = IF i = old THEN NoVar ELSE q[i]
    BY <2>1, <2>2 DEF NoVar
  <2> HIDE DEF u0
  <2>4. u \in [1 .. n -> Nat] /\ \A i \in 1 .. n : u[i] = IF i = id THEN to ELSE u0[i]
    BY <1>2, <2>1, <2>3, SMTT(60)
  <2> HIDE DEF u
  <2>5. u \in Seq(Nat) /\ Len(u) = n
    BY <2>1, <2>4
  <2>6. idv2 = u
    BY DEF u, u0, q
  <2> HIDE DEF idv2
  <2> QED BY <2>3, <2>4, <2>5, <2>6 DEF n, q, Elements
<1>5. vid2 \in Maps
  <2>1. \A v \in Known(s) : s.vid[v] \in Nat
    BY <1>1
  <2>2. K \in SUBSET Vars /\ vid2 \in [K -> Nat]
    BY <1>1, <2>1
  <2> HIDE DEF K, vid2
  <2> QED BY <2>2 DEF Maps
<1>6. s2 = [s EXCEPT !.vid = vid2, !.idv = idv2]
  BY DEF Rename
<1> HIDE DEF idv2, idv0
<1>7. /\ s2 \in State /\ s2.rep = s.rep /\ s2.rank = s.rank /\ s2.types = s.types
      /\ s2.vid = vid2 /\ s2.idv = idv2
  <2> HIDE DEF vid2, s2
  <2> QED BY <1>1, <1>4, <1>5, <1>6 DEF State
<1> HIDE DEF s2
<1>8. /\ Known(s2) = K /\ s2.vid[to] = id /\ \A v \in K \ {to} : s2.vid[v] = s.vid[v]
  BY <1>7 DEF Known
<1> HIDE DEF vid2, K
<1>9. /\ Size(s2) = Size(s) /\ Elements(s2) = Elements(s)
      /\ \A i \in Elements(s) : TypesAt(s2, i) = TypesAt(s, i)
  BY <1>7 DEF Size, Elements, TypesAt
<1>10. Lengths(s2)
  BY <1>1, <1>4, <1>7, <1>9 DEF Lengths
<1>11. Forest(s2)
  BY <1>1, <1>7, <1>9, <1>10 DEF Forest
<1>12. Merged(s2)
  <2>1. Types \subseteq Elements(s)
    BY <1>1, TypesAssumption DEF Lengths, Types, Elements
  <2> QED BY <1>1, <1>7, <1>9, <2>1, SMTT(60) DEF Merged
<1>13. Names(s2)
  <2>1. IsFiniteSet(K)
    BY <1>1, <1>3, FS_Difference DEF Names
  <2>2. \A v \in K \ {to} : s.vid[v] # id /\ s.vid[v] # old
    BY <1>2, <1>3
  <2>3. \A v \in K : s2.vid[v] \in Elements(s) /\ s2.idv[s2.vid[v]] = v
    BY <1>2, <1>3, <1>4, <1>7, <1>8, <2>2, SMTT(60)
  <2>4. ASSUME NEW i \in Elements(s), s2.idv[i] # NoVar
        PROVE  s2.idv[i] \in K /\ s2.vid[s2.idv[i]] = i
    <3>1. CASE i = id
      BY <1>3, <1>4, <1>7, <1>8, <3>1
    <3>2. CASE i # id
      <4>1. i # old /\ s2.idv[i] = s.idv[i] /\ s.idv[i] # NoVar
        BY <1>4, <1>7, <2>4, <3>2, SMTT(60)
      <4>2. s.idv[i] \in Known(s) /\ s.vid[s.idv[i]] = i
        BY <1>1, <4>1 DEF Names
      <4>3. s.idv[i] # from /\ s.idv[i] # to
        BY <3>2, <4>1, <4>2
      <4> QED BY <1>3, <1>8, <4>1, <4>2, <4>3
    <3> QED BY <3>1, <3>2
  <2> QED BY <1>8, <1>9, <2>1, <2>3, <2>4 DEF Names
<1>14. \A v \in Known(s) \ {from, to} : v \in K \ {to}
  BY <1>3
<1> QED BY <1>3, <1>7, <1>8, <1>11, <1>12, <1>13, <1>14 DEF StateOK, s2

Restored(S, from, to) == {[f EXCEPT ![to] = f[from], ![from] = t] : f \in S, t \in Types}

LEMMA RestoreIs ==
    ASSUME NEW s, StateOK(s), NEW from \in Vars, NEW to \in Vars
    PROVE  /\ StateOK(RestoreRegister(s, <<from, to>>))
           /\ Meaning(RestoreRegister(s, <<from, to>>)) = Restored(Meaning(s), from, to)
<1> DEFINE s1 == Detach(s, to)
           s2 == Rename(s1, from, to)
<1>1. RestoreRegister(s, <<from, to>>) = s2
  BY DEF RestoreRegister
<1>2. /\ StateOK(s1) /\ Fresh(s, to, s1) /\ Known(s1) = Known(s) \cup {to}
      /\ Meaning(s1) = {[f EXCEPT ![to] = t] : f \in Meaning(s), t \in Types}
  BY HavocIs, SMTT(60) DEF Fresh
<1>3. GetTypeset(s1, to) = Types /\ \A w \in Vars : Like(s1, to, w) => to = w
  BY <1>2, FreshMeaning
<1> HIDE DEF s1
<1> DEFINE havoc(f, t) == [f EXCEPT ![to] = t]
           restored(f, t) == [f EXCEPT ![to] = f[from], ![from] = t]
<1>2a. \A g : g \in Meaning(s1) <=> \E f \in Meaning(s), t \in Types : g = havoc(f, t)
  BY <1>2
<1>2b. \A g : g \in Restored(Meaning(s), from, to) <=> \E f \in Meaning(s), t \in Types : g = restored(f, t)
  BY DEF Restored
<1>4. \A f \in Meaning(s) : f \in Valuations /\ f[from] \in Types /\ f[to] \in Types
  BY DEF Meaning, Valuations
<1>5. CASE from = to
  <2>1. s2 = s1
    <3> DEFINE id == s1.vid[to]
               idv0 == [s1.idv EXCEPT ![id] = NoVar]
    <3>1. s1 \in State /\ to \in Known(s1) /\ id \in Elements(s1) /\ s1.idv[id] = to
          /\ s1.idv \in Seq(Nat) /\ Len(s1.idv) = Size(s1) /\ s1.vid \in [Known(s1) -> Nat]
      BY <1>2, StateParts DEF StateOK, Forest, Lengths, Names
    <3>2. (Known(s1) \ {from}) \cup {to} = Known(s1)
      BY <1>5, <3>1
    <3>3. [v \in (Known(s1) \ {from}) \cup {to} |-> IF v = to THEN id ELSE s1.vid[v]] = s1.vid
      BY <3>1, <3>2, SMTT(60)
    <3>4. [idv0 EXCEPT ![id] = to] = s1.idv
      <4> DEFINE q == s1.idv
                 n == Size(s1)
      <4>1. q \in Seq(Nat) /\ Len(q) = n /\ id \in 1 .. n /\ q[id] = to
        BY <3>1 DEF Elements
      <4> HIDE DEF q, n, id
      <4>2. q \in [1 .. n -> Nat]
        BY <4>1
      <4>3. [[q EXCEPT ![id] = NoVar] EXCEPT ![id] = to] = q
        BY <4>1, <4>2
      <4> QED BY <4>3 DEF q
    <3>5. s2 = [s1 EXCEPT !.vid = s1.vid, !.idv = s1.idv]
      BY <1>5, <3>1, <3>3, <3>4 DEF Rename
    <3> HIDE DEF s2
    <3> QED BY <3>1, <3>5 DEF State
  <2>2. \A f \in Meaning(s), t \in Types : [f EXCEPT ![to] = f[from], ![from] = t] = [f EXCEPT ![to] = t]
    BY <1>4, <1>5 DEF Valuations
  <2>3. Restored(Meaning(s), from, to) = Meaning(s1)
    <3>1. \A f \in Meaning(s), t \in Types : restored(f, t) = havoc(f, t)
      BY <2>2
    <3> HIDE DEF havoc, restored
    <3> QED BY <1>2a, <1>2b, <3>1
  <2> HIDE DEF s2
  <2> QED BY <1>1, <1>2, <2>1, <2>3
<1>6. CASE from # to /\ from \notin Known(s1)
  <2>1. s2 = s1
    BY <1>6 DEF Rename
  <2>2. from \notin Known(s)
    BY <1>2, <1>6
  <2>3. \A f \in Meaning(s), t \in Types : [f EXCEPT ![from] = t] \in Meaning(s)
    <3> SUFFICES ASSUME NEW f \in Meaning(s), NEW t \in Types PROVE [f EXCEPT ![from] = t] \in Meaning(s)
      OBVIOUS
    <3> DEFINE g == [f EXCEPT ![from] = t]
    <3>1. g \in Valuations /\ g[from] = t /\ \A w \in Vars \ {from} : g[w] = f[w]
      BY <1>4 DEF Valuations
    <3> HIDE DEF g
    <3>2. GetTypeset(s, from) = Types /\ \A w \in Vars : Like(s, from, w) \/ Like(s, w, from) => from = w
      BY <2>2 DEF GetTypeset, Like
    <3>3. g \in Meaning(s)
      BY <3>1, <3>2 DEF Meaning
    <3> QED BY <3>3 DEF g
  <2>4. ASSUME NEW h \in Restored(Meaning(s), from, to) PROVE h \in Meaning(s1)
    <3>1. PICK f \in Meaning(s), t \in Types : h = [f EXCEPT ![to] = f[from], ![from] = t]
      BY DEF Restored
    <3>2. h = [[f EXCEPT ![from] = t] EXCEPT ![to] = f[from]]
      BY <1>4, <1>6, <3>1 DEF Valuations
    <3> DEFINE g == [f EXCEPT ![from] = t]
    <3>3. g \in Meaning(s) /\ f[from] \in Types /\ h = havoc(g, f[from])
      BY <1>4, <2>3, <3>2
    <3> HIDE DEF g, havoc
    <3> QED BY <1>2a, <3>3
  <2>5. ASSUME NEW h \in Meaning(s1) PROVE h \in Restored(Meaning(s), from, to)
    <3>1. PICK f \in Meaning(s), t \in Types : h = [f EXCEPT ![to] = t]
      BY <1>2
    <3> DEFINE g == [f EXCEPT ![from] = t]
    <3>2. g \in Meaning(s) /\ f[from] \in Types
      BY <1>4, <2>3
    <3>3. h = restored(g, f[from])
      BY <1>4, <1>6, <3>1 DEF Valuations
    <3> HIDE DEF g, restored
    <3> QED BY <1>2b, <3>2, <3>3
  <2> HIDE DEF s2
  <2> QED BY <1>1, <1>2, <2>1, <2>4, <2>5
<1>7. CASE from # to /\ from \in Known(s1)
  <2>1. /\ StateOK(s2) /\ Known(s2) = Known(s1) \ {from}
        /\ s2.vid[to] = s1.vid[from] /\ \A v \in Known(s1) \ {from, to} : s2.vid[v] = s1.vid[v]
        /\ s2.rep = s1.rep /\ s2.types = s1.types
    <3>1. to \in Known(s1)
      BY <1>2
    <3> QED BY <1>2, <1>7, <3>1, RenameIs
  <2> HIDE DEF s2
  <2>2. to \in Known(s2) /\ to \in Known(s1)
    BY <1>2, <1>7, <2>1, SMTT(60)
  \* Every other variable goes on where it was.
  <2>3. /\ GetTypeset(s2, to) = GetTypeset(s1, from)
        /\ GetTypeset(s2, from) = Types
        /\ \A w \in Vars \ {from, to} : GetTypeset(s2, w) = GetTypeset(s1, w)
    BY <1>7, <2>1, <2>2 DEF GetTypeset, TypesAt
  <2>4. /\ \A w \in Vars \ {from, to} : Like(s2, to, w) <=> Like(s1, from, w)
        /\ \A w \in Vars \ {from, to} : Like(s2, w, to) <=> Like(s1, w, from)
        /\ \A v, w \in Vars \ {from, to} : Like(s2, v, w) <=> Like(s1, v, w)
        /\ \A w \in Vars : Like(s2, from, w) \/ Like(s2, w, from) => w = from
        /\ \A w \in Vars : Like(s1, to, w) \/ Like(s1, w, to) => w = to
    <3>1. /\ \A w \in Vars \ {from, to} : Like(s2, to, w) <=> Like(s1, from, w)
          /\ \A w \in Vars \ {from, to} : Like(s2, w, to) <=> Like(s1, w, from)
      BY <1>7, <2>1, <2>2 DEF Like, SameClass
    <3>2. \A v, w \in Vars \ {from, to} : Like(s2, v, w) <=> Like(s1, v, w)
      BY <1>7, <2>1, <2>2 DEF Like, SameClass
    <3>3. \A w \in Vars : Like(s2, from, w) \/ Like(s2, w, from) => w = from
      BY <1>7, <2>1 DEF Like
    <3>4. \A w \in Vars : Like(s1, to, w) \/ Like(s1, w, to) => w = to
      BY <1>2, <1>3, LikeIs
    <3> QED BY <3>1, <3>2, <3>3, <3>4
  <2>5. ASSUME NEW h \in Valuations
        PROVE  h \in Meaning(s2) <=> [h EXCEPT ![from] = h[to]] \in Meaning(s1)
    <3> DEFINE g == [h EXCEPT ![from] = h[to]]
    <3>1. /\ g \in Valuations /\ g[from] = h[to] /\ g[to] = h[to]
          /\ \A w \in Vars \ {from} : g[w] = h[w]
          /\ h[from] \in Types /\ h[to] \in Types
      BY <1>7 DEF Valuations
    <3> HIDE DEF g
    <3>2. (\A w \in Vars : h[w] \in GetTypeset(s2, w)) <=> (\A w \in Vars : g[w] \in GetTypeset(s1, w))
      BY <1>3, <2>3, <3>1
    <3>3. ASSUME \A v, w \in Vars : Like(s2, v, w) => h[v] = h[w],
                 NEW v \in Vars, NEW w \in Vars, Like(s1, v, w)
          PROVE  g[v] = g[w]
      <4>1. CASE v = to \/ w = to
        BY <2>4, <3>3, <4>1
      <4>2. CASE v = from /\ w \notin {from, to}
        BY <2>4, <3>1, <3>3, <4>2
      <4>3. CASE w = from /\ v \notin {from, to}
        BY <2>4, <3>1, <3>3, <4>3
      <4>4. CASE v \notin {from, to} /\ w \notin {from, to}
        BY <2>4, <3>1, <3>3, <4>4
      <4> QED BY <4>1, <4>2, <4>3, <4>4
    <3>4. ASSUME \A v, w \in Vars : Like(s1, v, w) => g[v] = g[w],
                 NEW v \in Vars, NEW w \in Vars, Like(s2, v, w)
          PROVE  h[v] = h[w]
      <4>1. CASE v = from \/ w = from
        BY <2>4, <3>4, <4>1
      <4>2. CASE v = to /\ w \notin {from, to}
        BY <2>4, <3>1, <3>4, <4>2
      <4>3. CASE w = to /\ v \notin {from, to}
        BY <2>4, <3>1, <3>4, <4>3
      <4>4. CASE v \notin {from, to} /\ w \notin {from, to}
        BY <2>4, <3>1, <3>4, <4>4
      <4> QED BY <4>1, <4>2, <4>3, <4>4
    <3>5. h \in Meaning(s2) <=> g \in Meaning(s1)
      BY <3>1, <3>2, <3>3, <3>4 DEF Meaning
    <3> QED BY <3>5 DEF g
  <2>6. ASSUME NEW h \in Meaning(s2) PROVE h \in Restored(Meaning(s), from, to)
    <3>1. h \in Valuations
      BY DEF Meaning
    <3>2. [h EXCEPT ![from] = h[to]] \in Meaning(s1)
      BY <2>5, <3>1
    <3>3. PICK f \in Meaning(s), t \in Types : [h EXCEPT ![from] = h[to]] = [f EXCEPT ![to] = t]
      BY <1>2a, <3>2
    <3>4. f \in [Vars -> Types] /\ h \in [Vars -> Types]
      BY <1>4, <3>1 DEF Valuations
    <3>5. f[from] = h[to] /\ \A w \in Vars \ {from, to} : f[w] = h[w]
      BY <1>7, <3>3, <3>4
    <3>6. h = [f EXCEPT ![to] = f[from], ![from] = h[from]]
      BY <1>7, <3>4, <3>5
    <3> QED BY <3>4, <3>6 DEF Restored
  <2>7. ASSUME NEW h \in Restored(Meaning(s), from, to) PROVE h \in Meaning(s2)
    <3>1. PICK f \in Meaning(s), t \in Types : h = [f EXCEPT ![to] = f[from], ![from] = t]
      BY DEF Restored
    <3>2. f \in [Vars -> Types]
      BY <1>4 DEF Valuations
    <3>3. h \in [Vars -> Types] /\ [h EXCEPT ![from] = h[to]] = [f EXCEPT ![to] = f[from]]
      BY <1>7, <3>1, <3>2
    <3>4. [f EXCEPT ![to] = f[from]] \in Meaning(s1)
      BY <1>2, <1>4
    <3> QED BY <2>5, <3>3, <3>4 DEF Valuations
  <2> QED BY <1>1, <2>1, <2>6, <2>7
<1> QED BY <1>5, <1>6, <1>7

-----------------------------------------------------------------------------
(***************************************************************************)
(* Folds over the variables of a sequence.                                 *)
(***************************************************************************)
OKStates == {s \in State : StateOK(s)}

LEMMA OKStatesIs == \A s : s \in OKStates <=> StateOK(s)
BY DEF OKStates, StateOK, Forest

LEMMA EnsureAllIs ==
    ASSUME NEW s, StateOK(s), NEW q \in Seq(Vars)
    PROVE  LET s1 == Folded(EnsureVar, s, q)
           IN  /\ StateOK(s1) /\ Meaning(s1) = Meaning(s)
               /\ Known(s1) = Known(s) \cup {q[i] : i \in 1 .. Len(q)}
<1> DEFINE n == Len(q)
           F == [i \in 1 .. n |-> [x \in OKStates |-> EnsureVar(x, q[i])]]
           IsFold(f) == f = [i \in 0 .. n |-> IF i = 0 THEN s ELSE EnsureVar(f[i - 1], q[i])]
           g == CHOOSE f : IsFold(f)
<1>1. n \in Nat /\ \A i \in 1 .. n : q[i] \in Vars
  OBVIOUS
<1>2. F \in [1 .. n -> [OKStates -> OKStates]]
  BY <1>1, EnsureMeaning, OKStatesIs
<1>3. PICK h : Folds(OKStates, n, s, F, h)
  <2> HIDE DEF F
  <2> QED BY <1>1, <1>2, FoldExists, OKStatesIs
<1>4. IsFold(h)
  <2>1. h = [i \in 0 .. n |-> h[i]]
    BY <1>3 DEF Folds
  <2>2. \A i \in 0 .. n : h[i] = IF i = 0 THEN s ELSE EnsureVar(h[i - 1], q[i])
    BY <1>1, <1>3, SMTT(60) DEF Folds
  <2> QED BY <2>1, <2>2
<1>5. IsFold(g)
  <2> HIDE DEF IsFold
  <2> QED BY <1>4
<1>6. Folded(EnsureVar, s, q) = g[n]
  BY DEF Folded
<1> HIDE DEF g, F, n
<1>7. g[0] = s /\ \A i \in 1 .. n : g[i] = EnsureVar(g[i - 1], q[i])
  BY <1>1, <1>5
<1> DEFINE T == {i \in 0 .. n : /\ StateOK(g[i]) /\ Meaning(g[i]) = Meaning(s)
                               /\ Known(g[i]) = Known(s) \cup {q[j] : j \in 1 .. i}}
<1>8. 0 \in T
  BY <1>1, <1>7
<1>9. \A i \in 0 .. n - 1 : i \in T => i + 1 \in T
  <2> SUFFICES ASSUME NEW i \in 0 .. n - 1, i \in T PROVE i + 1 \in T
    OBVIOUS
  <2>1. i + 1 \in 1 .. n /\ i + 1 \in 0 .. n /\ (i + 1) - 1 = i
    BY <1>1
  <2>2. g[i + 1] = EnsureVar(g[i], q[i + 1])
    BY <1>7, <2>1
  <2>3. {q[j] : j \in 1 .. i + 1} = {q[j] : j \in 1 .. i} \cup {q[i + 1]}
    <3>1. 1 .. i + 1 = (1 .. i) \cup {i + 1}
      BY <2>1
    <3> QED BY <3>1
  <2>4. /\ StateOK(g[i + 1]) /\ Known(g[i + 1]) = Known(g[i]) \cup {q[i + 1]}
        /\ Meaning(g[i + 1]) = Meaning(g[i])
    BY <1>1, <2>1, <2>2, EnsureMeaning
  <2> QED BY <2>1, <2>3, <2>4
<1>10. n \in T
  <2> HIDE DEF T
  <2>1. \A i \in 0 .. n : i \in T
    BY <1>1, <1>8, <1>9, RangeInduction
  <2> QED BY <1>1, <2>1
<1> QED BY <1>6, <1>10 DEF n

\* Two classes of any type made one.
LEMMA UnionFree ==
    ASSUME NEW s, StateOK(s), NEW v \in Known(s), NEW w \in Known(s),
           GetTypeset(s, v) = Types, GetTypeset(s, w) = Types
    PROVE  LET s2 == Union(s, s.vid[v], s.vid[w])
           IN  /\ StateOK(s2) /\ Known(s2) = Known(s)
               /\ \A u \in Known(s) : GetTypeset(s2, u) = GetTypeset(s, u)
               /\ Meaning(s2) = {f \in Meaning(s) : f[v] = f[w]}
<1> DEFINE x == s.vid[v]
           y == s.vid[w]
           s2 == Union(s, x, y)
<1>1. /\ Forest(s) /\ s \in State /\ x \in Elements(s) /\ y \in Elements(s)
      /\ TypesAt(s, x) = Types /\ TypesAt(s, y) = Types /\ Types # {} /\ Types \in SUBSET Types
      /\ \A u \in Known(s) : s.vid[u] \in Elements(s) /\ GetTypeset(s, u) = TypesAt(s, s.vid[u])
      /\ \A i \in Elements(s) : s.rep[i] \in Elements(s)
  <2>1. Types # {}
    BY TypesAssumption, SMTT(60) DEF Types
  <2> QED BY <2>1, KnownVars, SMTT(60) DEF StateOK, Forest, Names
<1>2. /\ s2 \in State /\ Size(s2) = Size(s) /\ s2.types = s.types /\ s2.vid = s.vid
      /\ \E win \in {s.rep[x], s.rep[y]} :
            \A i \in Elements(s) :
                s2.rep[i] = IF s.rep[i] \in {s.rep[x], s.rep[y]} THEN win ELSE s.rep[i]
  BY <1>1, UnionIs, SMTT(60) DEF UnionFrom
<1> HIDE DEF s2
<1>3. \A i \in Elements(s) : TypesAt(s2, i) = TypesAt(s, i)
  BY <1>1, <1>2, SMTT(60) DEF TypesAt
<1>4. Known(s2) = Known(s) /\ \A u \in Known(s) : GetTypeset(s2, u) = GetTypeset(s, u)
  BY <1>1, <1>2, <1>3 DEF Known, GetTypeset
<1>5. SetTypes(s2, x, Types) = s2
  <2> DEFINE r == s2.rep[x]
             q == s2.types
             n == Size(s)
  <2>1. q \in Seq(SUBSET Types) /\ Len(q) = n /\ n \in Nat
    BY <1>1, <1>2, StateParts, SMTT(60) DEF Forest, Lengths
  <2>2. r \in 1 .. n /\ q[r] = Types
    BY <1>1, <1>2, <1>3, SMTT(60) DEF TypesAt, Elements
  <2>3. SetTypes(s2, x, Types) = [s2 EXCEPT !.types = [q EXCEPT ![r] = Types]]
    BY DEF SetTypes
  <2>4. s2 = [s2 EXCEPT !.types = q]
    BY <1>2 DEF State
  <2> HIDE DEF q, r, n
  <2>5. q \in [1 .. n -> SUBSET Types]
    BY <2>1
  <2>6. [q EXCEPT ![r] = Types] = q
    BY <2>2, <2>5
  <2> QED BY <2>3, <2>4, <2>6
<1>6. MergeIfSingleton(s2, x) = s2
  <2>1. TypesAt(s2, x) = Types
    BY <1>1, <1>3
  <2>2. Cardinality(Types) # 1
    <3>1. 1 \in Types /\ 2 \in Types
      BY TypesAssumption DEF Types
    <3> QED BY <1>1, <3>1, SingletonIs
  <2> QED BY <2>1, <2>2 DEF MergeIfSingleton
<1>7. NarrowTypes(s, v, w, Types) = Types
  BY <1>1 DEF NarrowTypes
<1>8. NarrowState(s, v, w, Types) = s2
  <2>1. NarrowState(s, v, w, Types) = MergeIfSingleton(SetTypes(s2, x, Types), x)
    BY <1>7 DEF NarrowState, s2
  <2> QED BY <1>5, <1>6, <2>1
<1>9. StateOK(s2) /\ Meaning(s2) = Filtered(s, v, w, Types)
  BY <1>1, <1>7, <1>8, NarrowedIs
<1>10. Filtered(s, v, w, Types) = {f \in Meaning(s) : f[v] = f[w]}
  BY KnownVars DEF Filtered, Meaning, Valuations
<1> QED BY <1>4, <1>9, <1>10 DEF s2

UnionAll(s, ms) == Folded(LAMBDA acc, v : Union(acc, acc.vid[ms[1]], acc.vid[v]), s, Tail(ms))

LEMMA TailIs ==
    ASSUME NEW S, NEW q \in Seq(S), q # <<>>
    PROVE  /\ Len(q) \in Nat /\ Len(q) >= 1 /\ q[1] \in S
           /\ Tail(q) \in Seq(S) /\ Len(Tail(q)) = Len(q) - 1
           /\ \A i \in 1 .. Len(q) - 1 : Tail(q)[i] = q[i + 1]
OBVIOUS

LEMMA UnionAllIs ==
    ASSUME NEW s, StateOK(s), NEW ms \in Seq(Known(s)), ms # <<>>,
           \A i \in 1 .. Len(ms) : GetTypeset(s, ms[i]) = Types
    PROVE  /\ StateOK(UnionAll(s, ms)) /\ Known(UnionAll(s, ms)) = Known(s)
           /\ GetTypeset(UnionAll(s, ms), ms[1]) = Types
           /\ Meaning(UnionAll(s, ms)) = {f \in Meaning(s) : \A i \in 1 .. Len(ms) : f[ms[i]] = f[ms[1]]}
<1> DEFINE q == Tail(ms)
           n == Len(q)
           m == ms[1]
           Op(acc, v) == Union(acc, acc.vid[m], acc.vid[v])
           V == {x \in OKStates : Known(x) = Known(s) /\ \A u \in Known(s) : GetTypeset(x, u) = GetTypeset(s, u)}
           F == [i \in 1 .. n |-> [x \in V |-> Op(x, q[i])]]
           IsFold(f) == f = [i \in 0 .. n |-> IF i = 0 THEN s ELSE Op(f[i - 1], q[i])]
           g == CHOOSE f : IsFold(f)
<1>1. /\ n \in Nat /\ Len(ms) = n + 1 /\ m \in Known(s) /\ GetTypeset(s, m) = Types
      /\ \A i \in 1 .. n : q[i] = ms[i + 1] /\ q[i] \in Known(s) /\ GetTypeset(s, q[i]) = Types
  <2>1. /\ Len(ms) \in Nat /\ Len(ms) >= 1 /\ m \in Known(s) /\ n = Len(ms) - 1
        /\ q \in Seq(Known(s)) /\ \A i \in 1 .. n : q[i] = ms[i + 1] /\ i + 1 \in 1 .. Len(ms)
    BY TailIs
  <2>2. \A i \in 1 .. n : q[i] \in Known(s)
    BY <2>1
  <2> QED BY <2>1, <2>2
<1> HIDE DEF q, m
<1>2. ASSUME NEW x \in V, NEW i \in 1 .. n
      PROVE  Op(x, q[i]) \in V /\ Meaning(Op(x, q[i])) = {f \in Meaning(x) : f[m] = f[q[i]]}
  <2>1. StateOK(x) /\ m \in Known(x) /\ q[i] \in Known(x)
        /\ GetTypeset(x, m) = Types /\ GetTypeset(x, q[i]) = Types
    BY <1>1, OKStatesIs
  <2>2. /\ StateOK(Op(x, q[i])) /\ Known(Op(x, q[i])) = Known(x)
        /\ \A u \in Known(x) : GetTypeset(Op(x, q[i]), u) = GetTypeset(x, u)
        /\ Meaning(Op(x, q[i])) = {f \in Meaning(x) : f[m] = f[q[i]]}
    BY <2>1, UnionFree, SMTT(60)
  <2> QED BY <2>2, OKStatesIs
<1>3. s \in V
  BY OKStatesIs
<1>4. F \in [1 .. n -> [V -> V]]
  <2> HIDE DEF V, Op
  <2> QED BY <1>2
<1>5. PICK h : Folds(V, n, s, F, h)
  <2> HIDE DEF F, V
  <2> QED BY <1>1, <1>3, <1>4, FoldExists
<1>6. IsFold(h)
  <2> HIDE DEF Op, V
  <2>1. h = [i \in 0 .. n |-> h[i]]
    BY <1>5 DEF Folds
  <2>2. \A i \in 1 .. n : \A x \in V : F[i][x] = Op(x, q[i])
    OBVIOUS
  <2> HIDE DEF F
  <2>3. \A i \in 1 .. n : h[i - 1] \in V /\ h[i] = F[i][h[i - 1]]
    BY <1>1, <1>5 DEF Folds
  <2>4. \A i \in 0 .. n : i = 0 \/ i \in 1 .. n
    BY <1>1
  <2>5. \A i \in 0 .. n : h[i] = IF i = 0 THEN s ELSE Op(h[i - 1], q[i])
    BY <1>1, <1>5, <2>2, <2>3, <2>4, ZenonT(60) DEF Folds
  <2> QED BY <2>1, <2>5
<1>7. IsFold(g)
  <2> HIDE DEF IsFold
  <2> QED BY <1>6
<1>8. UnionAll(s, ms) = g[n]
  BY DEF UnionAll, Folded, q, m
<1> HIDE DEF g, F, n
<1>9. g[0] = s /\ \A i \in 1 .. n : g[i] = Op(g[i - 1], q[i])
  <2> HIDE DEF Op
  <2> QED BY <1>1, <1>7, SMTT(60)
<1> DEFINE T == {i \in 0 .. n : /\ g[i] \in V
                               /\ Meaning(g[i]) = {f \in Meaning(s) : \A j \in 1 .. i : f[q[j]] = f[m]}}
<1> HIDE DEF Op, V
<1>10. 0 \in T
  BY <1>1, <1>3, <1>9
<1>11. \A i \in 0 .. n - 1 : i \in T => i + 1 \in T
  <2> SUFFICES ASSUME NEW i \in 0 .. n - 1, i \in T PROVE i + 1 \in T
    OBVIOUS
  <2>1. i + 1 \in 1 .. n /\ i + 1 \in 0 .. n /\ (i + 1) - 1 = i /\ 1 .. i + 1 = (1 .. i) \cup {i + 1}
    BY <1>1
  <2>2. g[i + 1] = Op(g[i], q[i + 1])
    BY <1>9, <2>1
  <2>3. g[i + 1] \in V /\ Meaning(g[i + 1]) = {f \in Meaning(g[i]) : f[m] = f[q[i + 1]]}
    BY <1>2, <2>1, <2>2
  <2>4. Meaning(g[i + 1]) = {f \in Meaning(s) : \A j \in 1 .. i + 1 : f[q[j]] = f[m]}
    <3>1. Meaning(g[i]) = {f \in Meaning(s) : \A j \in 1 .. i : f[q[j]] = f[m]}
      OBVIOUS
    <3>2. \A f : f \in Meaning(g[i + 1]) <=> f \in Meaning(s) /\ (\A j \in 1 .. i : f[q[j]] = f[m]) /\ f[m] = f[q[i + 1]]
      BY <2>3, <3>1
    <3>3. \A f : (\A j \in 1 .. i + 1 : f[q[j]] = f[m]) <=> (\A j \in 1 .. i : f[q[j]] = f[m]) /\ f[m] = f[q[i + 1]]
      BY <2>1
    <3> QED BY <3>2, <3>3, SMTT(60)
  <2> QED BY <2>1, <2>3, <2>4
<1>12. n \in T
  <2> HIDE DEF T
  <2>1. \A i \in 0 .. n : i \in T
    BY <1>1, <1>10, <1>11, RangeInduction, SMTT(60)
  <2> QED BY <1>1, <2>1
<1>13. StateOK(g[n]) /\ Known(g[n]) = Known(s) /\ GetTypeset(g[n], m) = Types
  BY <1>1, <1>12, OKStatesIs DEF V
<1>14. \A f : (\A j \in 1 .. n : f[q[j]] = f[m]) <=> (\A j \in 1 .. Len(ms) : f[ms[j]] = f[m])
  <2>1. \A j \in 1 .. Len(ms) : j = 1 \/ (j - 1 \in 1 .. n /\ (j - 1) + 1 = j)
    BY <1>1
  <2>2. \A j \in 1 .. n : j + 1 \in 1 .. Len(ms)
    BY <1>1
  <2>3. ms[1] = m
    BY DEF m
  <2>4. ASSUME NEW f, \A j \in 1 .. n : f[q[j]] = f[m], NEW j \in 1 .. Len(ms) PROVE f[ms[j]] = f[m]
    <3>1. CASE j = 1
      BY <2>3, <3>1
    <3>2. CASE j - 1 \in 1 .. n /\ (j - 1) + 1 = j
      <4>1. q[j - 1] = ms[j]
        BY <1>1, <3>2
      <4> QED BY <2>4, <3>2, <4>1
    <3> QED BY <2>1, <3>1, <3>2
  <2>5. ASSUME NEW f, \A j \in 1 .. Len(ms) : f[ms[j]] = f[m], NEW j \in 1 .. n PROVE f[q[j]] = f[m]
    BY <1>1, <2>2, <2>5
  <2> QED BY <2>4, <2>5
<1>15. Meaning(g[n]) = {f \in Meaning(s) : \A j \in 1 .. Len(ms) : f[ms[j]] = f[m]}
  <2>1. Meaning(g[n]) = {f \in Meaning(s) : \A j \in 1 .. n : f[q[j]] = f[m]}
    BY <1>12
  <2> QED BY <1>14, <2>1
<1> QED BY <1>8, <1>13, <1>15 DEF m

LEMMA AddClassIs ==
    ASSUME NEW s, StateOK(s), NEW ms \in Seq(Vars \ Known(s)), ms # <<>>,
           NEW ts \in SUBSET Types, ts # {}
    PROVE  /\ StateOK(AddClass(s, ms, ts))
           /\ Known(AddClass(s, ms, ts)) = Known(s) \cup {ms[i] : i \in 1 .. Len(ms)}
           /\ Meaning(AddClass(s, ms, ts)) =
                  {f \in Meaning(s) : \A i \in 1 .. Len(ms) : f[ms[i]] = f[ms[1]] /\ f[ms[i]] \in ts}
<1> DEFINE s1 == Folded(EnsureVar, s, ms)
           s2 == UnionAll(s1, ms)
           v == ms[1]
           ids == {ms[i] : i \in 1 .. Len(ms)}
<1>1. /\ Len(ms) \in Nat /\ 1 \in 1 .. Len(ms) /\ ms \in Seq(Vars)
      /\ \A i \in 1 .. Len(ms) : ms[i] \in Vars /\ ms[i] \notin Known(s)
  OBVIOUS
<1>2. StateOK(s1) /\ Known(s1) = Known(s) \cup ids /\ Meaning(s1) = Meaning(s)
  BY <1>1, EnsureAllIs
<1>3. AddClass(s, ms, ts) = MergeIfSingleton(SetTypes(s2, s2.vid[v], ts), s2.vid[v])
  BY DEF AddClass, UnionAll
<1> HIDE DEF s1
<1>4. \A i \in 1 .. Len(ms) : ms[i] \in Known(s1) /\ GetTypeset(s1, ms[i]) = Types
  <2>1. \A i \in 1 .. Len(ms) : GetTypeset(s1, ms[i]) = GetTypeset(s, ms[i])
    <3>1. \A i \in 1 .. Len(ms) : \A t : t \in GetTypeset(s1, ms[i]) <=> t \in GetTypeset(s, ms[i])
      BY <1>1, <1>2, TypesetIs
    <3> QED BY <3>1
  <2> QED BY <1>1, <1>2, <2>1 DEF GetTypeset
<1>5. ms \in Seq(Known(s1))
  <2> DEFINE K == Known(s1)
  <2> HIDE DEF K
  <2>1. \A i \in 1 .. Len(ms) : ms[i] \in K
    BY <1>4 DEF K
  <2> QED BY <2>1 DEF K
<1>6. /\ StateOK(s2) /\ Known(s2) = Known(s1) /\ GetTypeset(s2, v) = Types
      /\ Meaning(s2) = {f \in Meaning(s) : \A i \in 1 .. Len(ms) : f[ms[i]] = f[v]}
  BY <1>2, <1>4, <1>5, UnionAllIs, ZenonT(60)
<1> HIDE DEF s2
<1>7. v \in Known(s2) /\ TypesAt(s2, s2.vid[v]) = Types
  BY <1>1, <1>4, <1>6, KnownVars
<1>8. NarrowTypes(s2, v, v, ts) = ts
  BY <1>7 DEF NarrowTypes
<1>9. AddClass(s, ms, ts) = NarrowState(s2, v, v, ts)
  BY <1>3, <1>8, UnionSelf DEF NarrowState
<1>10. /\ StateOK(AddClass(s, ms, ts)) /\ Known(AddClass(s, ms, ts)) = Known(s2)
       /\ Meaning(AddClass(s, ms, ts)) = Filtered(s2, v, v, ts)
  BY <1>6, <1>7, <1>8, <1>9, NarrowedIs
<1>11. \A f : f \in Filtered(s2, v, v, ts) <=>
                 f \in Meaning(s) /\ \A i \in 1 .. Len(ms) : f[ms[i]] = f[v] /\ f[ms[i]] \in ts
  <2> SUFFICES ASSUME NEW f PROVE f \in Filtered(s2, v, v, ts) <=>
                 f \in Meaning(s) /\ \A i \in 1 .. Len(ms) : f[ms[i]] = f[v] /\ f[ms[i]] \in ts
    OBVIOUS
  <2>1. f \in Filtered(s2, v, v, ts) <=>
            f \in Meaning(s) /\ f[v] \in ts /\ \A i \in 1 .. Len(ms) : f[ms[i]] = f[v]
    BY <1>6 DEF Filtered
  <2>2. (\A i \in 1 .. Len(ms) : f[ms[i]] \in ts) => f[v] \in ts
    BY <1>1
  <2> QED BY <2>1, <2>2
<1>12. Filtered(s2, v, v, ts) =
           {f \in Meaning(s) : \A i \in 1 .. Len(ms) : f[ms[i]] = f[v] /\ f[ms[i]] \in ts}
  BY <1>11
<1> QED BY <1>2, <1>6, <1>10, <1>12

\* In the ranking of a state the variables of one class, and only they, are equal.
LEMMA KeyIs ==
    ASSUME NEW s, StateOK(s), NEW U \in SUBSET Vars, IsFiniteSet(U), Known(s) \subseteq U,
           NEW v \in U, NEW w \in U
    PROVE  /\ KeyIn(s, v, U) \in Int
           /\ KeyIn(s, v, U) = KeyIn(s, w, U) <=> Like(s, v, w)
<1> DEFINE S == U \ Known(s)
           Upto(x) == {y \in S : y <= x}
           upto == [x \in S |-> Upto(x)]
           n == Size(s)
<1>1. n \in Nat /\ \A x \in Known(s) : s.rep[s.vid[x]] \in 1 .. n
  BY DEF StateOK, Forest, Lengths, Names, Elements
<1>2. \A x \in S : x \in Nat
  BY TypeVarsAssumption
<1>3. \A x \in S : Cardinality(Upto(x)) \in Nat /\ Cardinality(Upto(x)) >= 1
  <2>1. IsFiniteSet(S)
    BY FS_Difference
  <2> SUFFICES ASSUME NEW x \in S PROVE Cardinality(Upto(x)) \in Nat /\ Cardinality(Upto(x)) >= 1
    OBVIOUS
  <2>2. x \in Upto(x) /\ Upto(x) \in SUBSET S
    BY <1>2
  <2>3. IsFiniteSet(Upto(x))
    BY <2>1, <2>2, FS_Subset
  <2>4. Cardinality(Upto(x)) \in Nat /\ Cardinality(Upto(x)) # 0
    BY <2>2, <2>3, FS_CardinalityType, FS_EmptySet
  <2> QED BY <2>4
<1>4. \A x, y \in S : Cardinality(Upto(x)) = Cardinality(Upto(y)) => x = y
  <2>1. IsFiniteSet(S)
    BY FS_Difference
  <2>2. upto \in [S -> SUBSET S]
    OBVIOUS
  <2>3. \A x \in S : x \in upto[x]
    BY <1>2
  <2>4. \A x, y \in S : x # y => \/ upto[x] \subseteq upto[y] /\ y \notin upto[x]
                                 \/ upto[y] \subseteq upto[x] /\ x \notin upto[y]
    <3>1. ASSUME NEW x \in S, NEW y \in S, x < y PROVE upto[x] \subseteq upto[y] /\ y \notin upto[x]
      <4>1. \A z \in S : z <= x => z <= y
        BY <1>2, <3>1
      <4>2. ~ (y <= x)
        BY <1>2, <3>1
      <4> QED BY <4>1, <4>2
    <3>2. \A x, y \in S : x # y => x < y \/ y < x
      BY <1>2
    <3> HIDE DEF upto
    <3> QED BY <3>1, <3>2
  <2>5. \A x \in S : Upto(x) = upto[x]
    OBVIOUS
  <2> HIDE DEF upto, S, Upto
  <2>6. \A x, y \in S : Cardinality(upto[x]) = Cardinality(upto[y]) => x = y
    BY <2>1, <2>2, <2>3, <2>4, CountedOff, ZenonT(60)
  <2> QED BY <2>5, <2>6
<1>5. \A x \in U : KeyIn(s, x, U) = IF x \in Known(s) THEN s.rep[s.vid[x]] ELSE n + Cardinality(Upto(x))
  BY DEF KeyIn
<1> DEFINE c(x) == Cardinality(Upto(x))
<1>6. \A x \in S : c(x) \in Nat /\ c(x) >= 1
  BY <1>3
<1>7. \A x, y \in S : c(x) = c(y) => x = y
  BY <1>4
<1>8. \A x \in U : KeyIn(s, x, U) = IF x \in Known(s) THEN s.rep[s.vid[x]] ELSE n + c(x)
  BY <1>5
<1>9. v \notin Known(s) => v \in S
  OBVIOUS
<1>10. w \notin Known(s) => w \in S
  OBVIOUS
<1> HIDE DEF n, S, c
<1>11. KeyIn(s, v, U) \in Int
  BY <1>1, <1>6, <1>8, <1>9
<1>12. CASE v \in Known(s) /\ w \in Known(s)
  BY <1>8, <1>11, <1>12 DEF Like, SameClass
<1>13. CASE v \in Known(s) /\ w \notin Known(s)
  BY <1>1, <1>6, <1>8, <1>10, <1>11, <1>13 DEF Like
<1>14. CASE v \notin Known(s) /\ w \in Known(s)
  BY <1>1, <1>6, <1>8, <1>9, <1>11, <1>14 DEF Like
<1>15. CASE v \notin Known(s) /\ w \notin Known(s)
  <2>1. c(v) = c(w) <=> v = w
    BY <1>7, <1>9, <1>10, <1>15
  <2>2. c(v) \in Nat /\ c(w) \in Nat
    BY <1>6, <1>9, <1>10, <1>15
  <2> QED BY <1>1, <1>8, <1>15, <2>1, <2>2 DEF Like
<1> QED BY <1>11, <1>12, <1>13, <1>14, <1>15

-----------------------------------------------------------------------------
(***************************************************************************)
(* Joins.                                                                  *)
(***************************************************************************)
LEMMA TopIs == StateOK(Top) /\ Known(Top) = {} /\ Meaning(Top) = Valuations
<1> DEFINE n == NumTypes
           K == {}
           vid == [v \in K |-> 0]
<1>1. n \in Nat /\ Types = 1 .. n
  BY TypesAssumption DEF Types
<1>2. /\ Top.rep = [i \in Types |-> i] /\ Top.rank = [i \in Types |-> 0]
      /\ Top.types = [i \in Types |-> {i}] /\ Top.idv = [i \in Types |-> NoVar]
      /\ DOMAIN Top.vid = {} /\ Top.vid = [v \in {} |-> 0]
      /\ Top = [rep |-> Top.rep, rank |-> Top.rank, types |-> Top.types, vid |-> Top.vid, idv |-> Top.idv]
  BY DEF Top
<1>3. /\ Top.rep \in Seq(Nat) /\ Len(Top.rep) = n /\ Top.rank \in Seq(Nat) /\ Len(Top.rank) = n
      /\ Top.types \in Seq(SUBSET Types) /\ Len(Top.types) = n
      /\ Top.idv \in Seq(Nat) /\ Len(Top.idv) = n
  <2> HIDE DEF n
  <2>1. [i \in 1 .. n |-> i] \in [1 .. n -> Nat] /\ [i \in 1 .. n |-> 0] \in [1 .. n -> Nat]
    BY <1>1
  <2>2. [i \in 1 .. n |-> {i}] \in [1 .. n -> SUBSET Types]
    BY <1>1
  <2>3. \A S : \A f \in [1 .. n -> S] : f \in Seq(S) /\ Len(f) = n
    BY <1>1
  <2>4. [i \in 1 .. n |-> NoVar] = [i \in 1 .. n |-> 0]
    BY DEF NoVar
  <2> QED BY <1>1, <1>2, <2>1, <2>2, <2>3, <2>4
<1>4. Top.vid \in Maps
  <2>1. K \in SUBSET Vars /\ vid \in [K -> Nat]
    OBVIOUS
  <2>2. Top.vid = vid
    BY <1>2
  <2> HIDE DEF K, vid
  <2> QED BY <2>1, <2>2 DEF Maps
<1>5. Top \in State
  BY <1>2, <1>3, <1>4 DEF State
<1>6. /\ Size(Top) = n /\ Elements(Top) = Types /\ Known(Top) = {} /\ Lengths(Top)
      /\ \A i \in Types : Top.rep[i] = i /\ TypesAt(Top, i) = {i} /\ Top.idv[i] = NoVar
  <2>1. Size(Top) = n /\ Elements(Top) = Types /\ Known(Top) = {}
    BY <1>1, <1>2, <1>3 DEF Size, Elements, Known
  <2>2. \A i \in Types : Top.rep[i] = i /\ TypesAt(Top, i) = {i} /\ Top.idv[i] = NoVar
    BY <1>2 DEF TypesAt
  <2>3. Lengths(Top)
    BY <1>1, <1>3, <2>1 DEF Lengths
  <2> QED BY <2>1, <2>2, <2>3
<1> HIDE DEF n
<1>7. Forest(Top)
  BY <1>5, <1>6 DEF Forest
<1>8. Names(Top)
  BY <1>6, FS_EmptySet DEF Names
<1>9. Merged(Top)
  BY <1>6 DEF Merged
<1>10. \A f \in Valuations : \A v \in Vars : f[v] \in Types
  BY DEF Valuations
<1>11. Meaning(Top) = Valuations
  BY <1>6, <1>10 DEF Meaning, GetTypeset, Like
<1> QED BY <1>6, <1>7, <1>8, <1>9, <1>11 DEF StateOK

\* n classes that have no variable in common, each with its types.
Parts(n, cls, tys) ==
    /\ n \in Nat /\ cls \in [1 .. n -> Seq(Vars)] /\ tys \in [1 .. n -> SUBSET Types]
    /\ \A i \in 1 .. n : cls[i] # <<>> /\ tys[i] # {}
    /\ \A i, j \in 1 .. n : i # j =>
          \A k \in 1 .. Len(cls[i]), l \in 1 .. Len(cls[j]) : cls[i][k] # cls[j][l]

\* The state built of them, class by class.
ClassFold(f, n, cls, tys) ==
    f = [i \in 0 .. n |-> IF i = 0 THEN Top ELSE AddClass(f[i - 1], cls[i], tys[i])]

Satisfies(f, ms, ts) == \A k \in 1 .. Len(ms) : f[ms[k]] = f[ms[1]] /\ f[ms[k]] \in ts

Built(i, x, cls, tys) ==
    /\ StateOK(x)
    /\ \A v \in Known(x) : \E j \in 1 .. i : \E k \in 1 .. Len(cls[j]) : v = cls[j][k]
    /\ Meaning(x) = {f \in Valuations : \A j \in 1 .. i : Satisfies(f, cls[j], tys[j])}

LEMMA BuiltNext ==
    ASSUME NEW n, NEW cls, NEW tys, Parts(n, cls, tys), NEW i \in 1 .. n,
           NEW x, Built(i - 1, x, cls, tys)
    PROVE  Built(i, AddClass(x, cls[i], tys[i]), cls, tys)
<1> DEFINE y == AddClass(x, cls[i], tys[i])
           ms == cls[i]
           ts == tys[i]
<1>1. /\ n \in Nat /\ ms \in Seq(Vars) /\ ms # <<>> /\ ts \in SUBSET Types /\ ts # {}
      /\ i - 1 \in Nat /\ i \in Nat /\ 1 .. i = (1 .. i - 1) \cup {i}
      /\ \A j \in 1 .. i - 1 : j \in 1 .. n /\ j # i
  BY DEF Parts
<1>2. StateOK(x)
  BY DEF Built
<1>3. \A k \in 1 .. Len(ms) : ms[k] \in Vars /\ ms[k] \notin Known(x)
  <2>1. \A k \in 1 .. Len(ms) : ms[k] \in Vars
    BY <1>1
  <2>2. \A k \in 1 .. Len(ms), j \in 1 .. i - 1 : \A l \in 1 .. Len(cls[j]) : ms[k] # cls[j][l]
    BY <1>1 DEF Parts
  <2> QED BY <2>1, <2>2, SMTT(60) DEF Built
<1>4. ms \in Seq(Vars \ Known(x))
  <2> DEFINE W == Vars \ Known(x)
  <2>1. \A k \in 1 .. Len(ms) : ms[k] \in W
    BY <1>3
  <2> HIDE DEF W, ms
  <2>2. ms \in Seq(W)
    BY <1>1, <2>1
  <2> QED BY <2>2 DEF W
<1>5. /\ StateOK(y) /\ Known(y) = Known(x) \cup {ms[k] : k \in 1 .. Len(ms)}
      /\ Meaning(y) = {f \in Meaning(x) : Satisfies(f, ms, ts)}
  <2> HIDE DEF ms, ts
  <2>1. AddClass(x, ms, ts) = y
    BY DEF ms, ts
  <2> HIDE DEF y
  <2> QED BY <1>1, <1>2, <1>4, <2>1, AddClassIs DEF Satisfies
<1> HIDE DEF y
<1>6. \A v \in Known(y) : \E j \in 1 .. i : \E k \in 1 .. Len(cls[j]) : v = cls[j][k]
  <2>1. \A v \in Known(x) : \E j \in 1 .. i : \E k \in 1 .. Len(cls[j]) : v = cls[j][k]
    BY <1>1 DEF Built
  <2>2. \A v \in {ms[k] : k \in 1 .. Len(ms)} : \E k \in 1 .. Len(cls[i]) : v = cls[i][k]
    OBVIOUS
  <2>3. i \in 1 .. i
    BY <1>1
  <2> QED BY <1>5, <2>1, <2>2, <2>3
<1>7. \A f : f \in Meaning(y) <=> f \in Valuations /\ \A j \in 1 .. i : Satisfies(f, cls[j], tys[j])
  BY <1>1, <1>5 DEF Built
<1>8. Meaning(y) = {f \in Valuations : \A j \in 1 .. i : Satisfies(f, cls[j], tys[j])}
  BY <1>7
<1> QED BY <1>5, <1>6, <1>8 DEF Built, y

LEMMA JoinFold ==
    ASSUME NEW n, NEW cls, NEW tys, Parts(n, cls, tys)
    PROVE  /\ \E f : ClassFold(f, n, cls, tys)
           /\ \A f : ClassFold(f, n, cls, tys) => Built(n, f[n], cls, tys)
<1> DEFINE Op(x, i) == AddClass(x, cls[i], tys[i])
           F == [i \in 1 .. n |-> [x \in OKStates |->
                    IF Built(i - 1, x, cls, tys) THEN Op(x, i) ELSE x]]
<1>1. n \in Nat
  BY DEF Parts
<1>2. Built(0, Top, cls, tys)
  BY TopIs DEF Built
\* Whatever continues what is built so far is built.
<1>3. ASSUME NEW f, f[0] = Top,
             \A i \in 1 .. n : Built(i - 1, f[i - 1], cls, tys) => f[i] = Op(f[i - 1], i)
      PROVE  \A i \in 0 .. n : Built(i, f[i], cls, tys)
  <2> DEFINE T == {i \in 0 .. n : Built(i, f[i], cls, tys)}
  <2>1. 0 \in T
    BY <1>1, <1>2, <1>3
  <2>2. ASSUME NEW i \in 0 .. n - 1, i \in T PROVE i + 1 \in T
    <3>1. i + 1 \in 1 .. n /\ i + 1 \in 0 .. n /\ (i + 1) - 1 = i
      BY <1>1
    <3> DEFINE j == i + 1
    <3>2. j \in 1 .. n /\ j \in 0 .. n /\ j - 1 = i
      BY <3>1
    <3> HIDE DEF j
    <3>3. Built(j - 1, f[j - 1], cls, tys)
      BY <2>2, <3>2
    <3>4. f[j] = Op(f[j - 1], j)
      BY <1>3, <3>2, <3>3
    <3>5. Built(j, f[j], cls, tys)
      BY <3>2, <3>3, <3>4, BuiltNext
    <3>6. j \in T
      BY <3>2, <3>5
    <3> QED BY <3>6 DEF j
  <2> HIDE DEF T
  <2>3. \A i \in 0 .. n : i \in T
    BY <1>1, <2>1, <2>2, RangeInduction
  <2> QED BY <2>3 DEF T
<1>4. F \in [1 .. n -> [OKStates -> OKStates]]
  <2>1. \A i \in 1 .. n : \A x \in OKStates : Built(i - 1, x, cls, tys) => Op(x, i) \in OKStates
    BY BuiltNext, OKStatesIs DEF Built
  <2> HIDE DEF Op
  <2> QED BY <2>1
<1>5. PICK h : Folds(OKStates, n, Top, F, h)
  <2> HIDE DEF F
  <2> QED BY <1>1, <1>4, FoldExists, TopIs, OKStatesIs
<1>6. h[0] = Top /\ \A i \in 1 .. n : Built(i - 1, h[i - 1], cls, tys) => h[i] = Op(h[i - 1], i)
  <2>1. \A i \in 1 .. n : \A x \in OKStates : Built(i - 1, x, cls, tys) => F[i][x] = Op(x, i)
    OBVIOUS
  <2> HIDE DEF F, Op
  <2>2. \A i \in 1 .. n : h[i - 1] \in OKStates /\ h[i] = F[i][h[i - 1]]
    BY <1>1, <1>5 DEF Folds
  <2> QED BY <1>5, <2>1, <2>2 DEF Folds
<1>7. \A i \in 0 .. n : Built(i, h[i], cls, tys)
  <2> HIDE DEF Op, F
  <2> QED BY <1>3, <1>6
<1>8. ClassFold(h, n, cls, tys)
  <2>1. h = [i \in 0 .. n |-> h[i]]
    BY <1>5 DEF Folds
  <2>2. \A i \in 1 .. n : i - 1 \in 0 .. n
    BY <1>1
  <2>3. \A i \in 1 .. n : h[i] = Op(h[i - 1], i)
    BY <1>6, <1>7, <2>2
  <2>4. \A i \in 0 .. n : i = 0 \/ i \in 1 .. n
    BY <1>1
  <2>5. \A i \in 0 .. n : h[i] = IF i = 0 THEN Top ELSE Op(h[i - 1], i)
    <3> HIDE DEF Op
    <3> QED BY <1>6, <2>3, <2>4
  <2> QED BY <2>1, <2>5, SMTT(60) DEF ClassFold
<1>9. ASSUME NEW f, ClassFold(f, n, cls, tys) PROVE Built(n, f[n], cls, tys)
  <2>1. f[0] = Top
    BY <1>1, <1>9 DEF ClassFold
  <2>2. \A i \in 1 .. n : f[i] = Op(f[i - 1], i)
    BY <1>1, <1>9 DEF ClassFold
  <2>3. \A i \in 0 .. n : Built(i, f[i], cls, tys)
    <3> HIDE DEF Op
    <3> QED BY <1>3, <2>1, <2>2
  <2> QED BY <1>1, <2>3
<1> QED BY <1>8, <1>9

\* A sequence of all members of S.
Enumerates(q, S) ==
    /\ q \in Seq(S) /\ Len(q) \in Nat
    /\ \A x \in S : \E k \in 1 .. Len(q) : q[k] = x

LEMMA AscendingEnumerates ==
    ASSUME NEW S \in SUBSET Int, IsFiniteSet(S)
    PROVE  Enumerates(Ascending(S), S)
<1> DEFINE q == Ascending(S)
<1>1. Lists(q, S)
  BY AscendingLists
<1> HIDE DEF q
<1>2. Enumerates(q, S)
  BY <1>1 DEF Lists, Enumerates
<1> QED BY <1>2 DEF q

LEMMA EnumeratesBoth ==
    ASSUME NEW A, NEW B, NEW p, NEW q, Enumerates(p, A), Enumerates(q, B)
    PROVE  Enumerates(p \o q, A \cup B)
<1> DEFINE r == p \o q
           m == Len(p)
           n == Len(q)
<1>1. /\ p \in Seq(A) /\ q \in Seq(B) /\ m \in Nat /\ n \in Nat
  BY DEF Enumerates
<1>2. p \in Seq(A \cup B) /\ q \in Seq(A \cup B)
  <2>1. \A k \in 1 .. Len(p) : p[k] \in A
    BY <1>1
  <2>2. \A k \in 1 .. Len(q) : q[k] \in B
    BY <1>1
  <2> DEFINE W == A \cup B
  <2>3. (\A k \in 1 .. Len(p) : p[k] \in W) /\ (\A k \in 1 .. Len(q) : q[k] \in W)
    BY <2>1, <2>2
  <2> HIDE DEF W
  <2>4. p \in Seq(W) /\ q \in Seq(W)
    BY <1>1, <2>3
  <2> QED BY <2>4 DEF W
<1>3. /\ r \in Seq(A \cup B) /\ Len(r) = m + n
      /\ \A k \in 1 .. m : r[k] = p[k]
      /\ \A k \in 1 .. n : r[k + m] = q[k]
  BY <1>1, <1>2
<1> HIDE DEF r
<1>4. \A x \in A : \E k \in 1 .. Len(r) : r[k] = x
  <2> SUFFICES ASSUME NEW x \in A PROVE \E k \in 1 .. Len(r) : r[k] = x
    OBVIOUS
  <2>1. PICK k \in 1 .. m : p[k] = x
    BY DEF Enumerates
  <2>2. k \in 1 .. Len(r)
    BY <1>1, <1>3
  <2> QED BY <1>3, <2>1, <2>2
<1>5. \A x \in B : \E k \in 1 .. Len(r) : r[k] = x
  <2> SUFFICES ASSUME NEW x \in B PROVE \E k \in 1 .. Len(r) : r[k] = x
    OBVIOUS
  <2>1. PICK k \in 1 .. n : q[k] = x
    BY DEF Enumerates
  <2>2. k + m \in 1 .. Len(r)
    BY <1>1, <1>3
  <2> QED BY <1>3, <2>1, <2>2
<1>6. Len(r) \in Nat
  BY <1>1, <1>3
<1> QED BY <1>3, <1>4, <1>5, <1>6 DEF Enumerates, r

LEMMA SatisfiesIs ==
    ASSUME NEW S, NEW ms, Enumerates(ms, S), S # {}, NEW ts, NEW f
    PROVE  Satisfies(f, ms, ts) <=> \A v, w \in S : f[v] \in ts /\ f[v] = f[w]
<1>1. /\ \A k \in 1 .. Len(ms) : ms[k] \in S
      /\ \A v \in S : \E k \in 1 .. Len(ms) : ms[k] = v
      /\ 1 \in 1 .. Len(ms)
  <2>1. /\ \A k \in 1 .. Len(ms) : ms[k] \in S
        /\ \A v \in S : \E k \in 1 .. Len(ms) : ms[k] = v
    BY SMTT(60) DEF Enumerates
  <2>2. \E k \in 1 .. Len(ms) : TRUE
    BY <2>1
  <2>3. Len(ms) \in Nat
    BY DEF Enumerates
  <2> QED BY <2>1, <2>2, <2>3
<1>2. ASSUME Satisfies(f, ms, ts), NEW v \in S, NEW w \in S PROVE f[v] \in ts /\ f[v] = f[w]
  <2>1. PICK k \in 1 .. Len(ms) : ms[k] = v
    BY <1>1
  <2>2. PICK l \in 1 .. Len(ms) : ms[l] = w
    BY <1>1
  <2> QED BY <1>2, <2>1, <2>2 DEF Satisfies
<1>3. ASSUME \A v, w \in S : f[v] \in ts /\ f[v] = f[w] PROVE Satisfies(f, ms, ts)
  BY <1>1, <1>3 DEF Satisfies
<1> QED BY <1>2, <1>3

LEMMA JoinIs ==
    ASSUME NEW a, StateOK(a), NEW b, StateOK(b)
    PROVE  /\ StateOK(JoinStates(a, b))
           /\ Meaning(JoinStates(a, b)) = Abstract!Best(Meaning(a) \cup Meaning(b))
<1> DEFINE U == Known(a) \cup Known(b)
           key(v) == <<KeyIn(a, v, U), KeyIn(b, v, U)>>
           KS == {key(v) : v \in U}
           keys == InOrder(KS, LAMBDA k, l : k[1] < l[1] \/ (k[1] = l[1] /\ k[2] < l[2]))
           class(k) == Ascending({v \in Known(a) : key(v) = k}) \o Ascending({v \in U \ Known(a) : key(v) = k})
           types(k) == UNION {GetTypeset(a, v) \cup GetTypeset(b, v) : v \in {w \in U : key(w) = k}}
           C(k) == {w \in U : key(w) = k}
           n == Len(keys)
           cls == [i \in 1 .. n |-> class(keys[i])]
           tys == [i \in 1 .. n |-> types(keys[i])]
           IsFold(f) == f = [i \in 0 .. n |-> IF i = 0 THEN Top ELSE AddClass(f[i - 1], class(keys[i]), types(keys[i]))]
           g == CHOOSE f : IsFold(f)
<1>1. /\ U \in SUBSET Vars /\ U \in SUBSET Int /\ IsFiniteSet(U)
      /\ Known(a) \subseteq U /\ Known(b) \subseteq U
  <2>1. IsFiniteSet(Known(a)) /\ IsFiniteSet(Known(b)) /\ U \in SUBSET Vars
    BY KnownVars DEF StateOK, Names
  <2>2. \A v \in Vars : v \in Int
    BY TypeVarsAssumption
  <2> QED BY <2>1, <2>2, FS_Union
<1>2. JoinStates(a, b) = g[n]
  BY DEF JoinStates, Folded
<1> HIDE DEF U
\* The key of a variable tells its class in either state.
<1>3. /\ \A v \in U : key(v) \in Int \X Int
      /\ \A v, w \in U : key(v) = key(w) <=> Like(a, v, w) /\ Like(b, v, w)
  BY <1>1, KeyIs
<1> HIDE DEF key
<1>4. Lists(keys, KS)
  <2>1. KS \in SUBSET (Int \X Int)
    BY <1>3
  <2>2. IsFiniteSet(KS)
    <3> DEFINE keyOf == [v \in U |-> key(v)]
    <3>1. DOMAIN keyOf = U /\ KS = {keyOf[v] : v \in U}
      OBVIOUS
    <3> HIDE DEF keyOf, KS
    <3> QED BY <1>1, <3>1, ImageFinite
  <2> HIDE DEF KS
  <2> QED BY <2>1, <2>2, PairsList
<1> HIDE DEF keys
<1>5. /\ n \in Nat /\ \A i \in 1 .. n : keys[i] \in KS
      /\ \A k \in KS : \E i \in 1 .. n : keys[i] = k
      /\ \A i, j \in 1 .. n : keys[i] = keys[j] => i = j
  <2> HIDE DEF KS
  <2> QED BY <1>4, SMTT(60) DEF Lists
<1>6. \A k \in KS : Enumerates(class(k), C(k)) /\ C(k) # {}
  <2> SUFFICES ASSUME NEW k \in KS PROVE Enumerates(class(k), C(k)) /\ C(k) # {}
    OBVIOUS
  <2> DEFINE A == {v \in Known(a) : key(v) = k}
             B == {v \in U \ Known(a) : key(v) = k}
  <2>1. A \in SUBSET U /\ B \in SUBSET U /\ C(k) = A \cup B /\ C(k) # {}
    BY <1>1
  <2> HIDE DEF A, B
  <2>2. A \in SUBSET Int /\ B \in SUBSET Int /\ IsFiniteSet(A) /\ IsFiniteSet(B)
    BY <1>1, <2>1, FS_Subset
  <2>3. Enumerates(Ascending(A) \o Ascending(B), A \cup B)
    BY <2>2, AscendingEnumerates, EnumeratesBoth
  <2>4. class(k) = Ascending(A) \o Ascending(B)
    BY DEF A, B
  <2> HIDE DEF class, C
  <2> QED BY <2>1, <2>3, <2>4
<1> HIDE DEF class
<1>7. \A v \in U : /\ key(v) \in KS /\ v \in C(key(v))
                   /\ types(key(v)) = GetTypeset(a, v) \cup GetTypeset(b, v)
                   /\ types(key(v)) \in SUBSET Types /\ types(key(v)) # {}
  <2> SUFFICES ASSUME NEW v \in U
               PROVE  /\ key(v) \in KS /\ v \in C(key(v))
                      /\ types(key(v)) = GetTypeset(a, v) \cup GetTypeset(b, v)
                      /\ types(key(v)) \in SUBSET Types /\ types(key(v)) # {}
    OBVIOUS
  <2>1. \A w \in C(key(v)) : GetTypeset(a, w) = GetTypeset(a, v) /\ GetTypeset(b, w) = GetTypeset(b, v)
    BY <1>1, <1>3, LikeIs
  <2>2. types(key(v)) = GetTypeset(a, v) \cup GetTypeset(b, v)
    BY <2>1
  <2>3. v \in Vars
    BY <1>1
  <2> HIDE DEF types
  <2> QED BY <2>2, <2>3, LikeIs
<1> HIDE DEF types
<1>8. \A k \in KS : \E v \in U : k = key(v)
  OBVIOUS
<1> HIDE DEF KS
<1>9. Parts(n, cls, tys)
  <2>1. \A i \in 1 .. n : cls[i] = class(keys[i]) /\ tys[i] = types(keys[i])
    OBVIOUS
  <2>2. \A i \in 1 .. n : cls[i] \in Seq(Vars) /\ cls[i] # <<>>
                          /\ \A k \in 1 .. Len(cls[i]) : cls[i][k] \in C(keys[i])
    <3> SUFFICES ASSUME NEW i \in 1 .. n
                 PROVE  cls[i] \in Seq(Vars) /\ cls[i] # <<>>
                        /\ \A k \in 1 .. Len(cls[i]) : cls[i][k] \in C(keys[i])
      OBVIOUS
    <3> DEFINE c == class(keys[i])
               S == C(keys[i])
    <3>1. Enumerates(c, S) /\ S # {} /\ S \in SUBSET Vars
      BY <1>1, <1>5, <1>6
    <3>2. c = cls[i]
      OBVIOUS
    <3> HIDE DEF c, S, cls
    <3>3. c \in Seq(S) /\ Len(c) \in Nat /\ \A k \in 1 .. Len(c) : c[k] \in S /\ c[k] \in Vars
      BY <3>1, SMTT(60) DEF Enumerates
    <3>4. c \in Seq(Vars)
      BY <3>3
    <3>5. c # <<>>
      BY <3>1 DEF Enumerates
    <3> QED BY <3>2, <3>3, <3>4, <3>5 DEF S
  <2>3. \A i \in 1 .. n : tys[i] \in SUBSET Types /\ tys[i] # {}
    BY <1>5, <1>7, <1>8, <2>1
  <2>4. ASSUME NEW i \in 1 .. n, NEW j \in 1 .. n, i # j,
               NEW k \in 1 .. Len(cls[i]), NEW l \in 1 .. Len(cls[j])
        PROVE  cls[i][k] # cls[j][l]
    <3>1. cls[i][k] \in C(keys[i]) /\ cls[j][l] \in C(keys[j]) /\ keys[i] # keys[j]
      BY <1>5, <2>2, <2>4
    <3> HIDE DEF cls
    <3> QED BY <3>1, SMTT(60)
  <2>5. cls \in [1 .. n -> Seq(Vars)] /\ tys \in [1 .. n -> SUBSET Types]
    BY <2>2, <2>3
  <2> HIDE DEF cls, tys
  <2> QED BY <1>5, <2>2, <2>3, <2>4, <2>5 DEF Parts
<1>10. \A f : IsFold(f) <=> ClassFold(f, n, cls, tys)
  <2> SUFFICES ASSUME NEW f PROVE IsFold(f) <=> ClassFold(f, n, cls, tys)
    OBVIOUS
  <2>1. \A i \in 0 .. n : i = 0 \/ (i \in 1 .. n /\ cls[i] = class(keys[i]) /\ tys[i] = types(keys[i]))
    BY <1>5
  <2> HIDE DEF cls, tys
  <2>2. [i \in 0 .. n |-> IF i = 0 THEN Top ELSE AddClass(f[i - 1], class(keys[i]), types(keys[i]))]
            = [i \in 0 .. n |-> IF i = 0 THEN Top ELSE AddClass(f[i - 1], cls[i], tys[i])]
    BY <2>1
  <2> QED BY <2>2 DEF ClassFold
<1>11. Built(n, g[n], cls, tys)
  <2> HIDE DEF IsFold, cls, tys
  <2>1. IsFold(g)
    BY <1>9, <1>10, JoinFold
  <2> QED BY <1>9, <1>10, <2>1, JoinFold
<1>12. \A i \in 1 .. n : \A f : Satisfies(f, cls[i], tys[i]) <=>
           \A v, w \in C(keys[i]) : f[v] \in types(keys[i]) /\ f[v] = f[w]
  <2> SUFFICES ASSUME NEW i \in 1 .. n, NEW f
               PROVE  Satisfies(f, cls[i], tys[i]) <=>
                          \A v, w \in C(keys[i]) : f[v] \in types(keys[i]) /\ f[v] = f[w]
    OBVIOUS
  <2>1. cls[i] = class(keys[i]) /\ tys[i] = types(keys[i])
    OBVIOUS
  <2>2. Enumerates(class(keys[i]), C(keys[i])) /\ C(keys[i]) # {}
    BY <1>5, <1>6
  <2> HIDE DEF cls, tys, C
  <2> QED BY <2>1, <2>2, SatisfiesIs
<1> HIDE DEF g, cls, tys
\* So a valuation of the result is one of types of either, equal where both are.
<1>13. ASSUME NEW f \in Valuations
       PROVE  f \in Meaning(g[n]) <=>
                 /\ \A v \in U : f[v] \in GetTypeset(a, v) \cup GetTypeset(b, v)
                 /\ \A v, w \in U : Like(a, v, w) /\ Like(b, v, w) => f[v] = f[w]
  <2>1. f \in Meaning(g[n]) <=> \A i \in 1 .. n : \A v, w \in C(keys[i]) : f[v] \in types(keys[i]) /\ f[v] = f[w]
    BY <1>11, <1>12 DEF Built
  <2>2. f \in Meaning(g[n]) <=> \A k \in KS : \A v, w \in C(k) : f[v] \in types(k) /\ f[v] = f[w]
    BY <1>5, <2>1
  <2>3. (\A k \in KS : \A v, w \in C(k) : f[v] \in types(k) /\ f[v] = f[w])
           <=> \A v, w \in U : key(v) = key(w) => f[v] \in types(key(v)) /\ f[v] = f[w]
    BY <1>7, <1>8
  <2> QED BY <1>3, <1>7, <2>2, <2>3
<1>14. \A v \in Vars \ U : GetTypeset(a, v) = Types /\ \A w \in Vars : Like(a, v, w) \/ Like(a, w, v) => v = w
  BY <1>1 DEF GetTypeset, Like
<1>15. ASSUME NEW f \in Valuations
       PROVE  f \in Abstract!Best(Meaning(a) \cup Meaning(b)) <=>
                 /\ \A v \in Vars : f[v] \in GetTypeset(a, v) \cup GetTypeset(b, v)
                 /\ \A v, w \in Vars : Like(a, v, w) /\ Like(b, v, w) => f[v] = f[w]
  <2>1. \A v \in Vars : (\E h \in Meaning(a) \cup Meaning(b) : h[v] = f[v])
                           <=> f[v] \in GetTypeset(a, v) \cup GetTypeset(b, v)
    BY TypesetIs
  <2>2. \A v, w \in Vars : (\A h \in Meaning(a) \cup Meaning(b) : h[v] = h[w])
                              <=> Like(a, v, w) /\ Like(b, v, w)
    BY EqualIs
  <2> QED BY <2>1, <2>2 DEF Abstract!Best, Abstract!Valuations, Valuations
<1>16. ASSUME NEW f \in Valuations
       PROVE  f \in Meaning(g[n]) <=> f \in Abstract!Best(Meaning(a) \cup Meaning(b))
  <2>1. \A v \in Vars : f[v] \in Types
    BY DEF Valuations
  <2>2. (\A v \in U : f[v] \in GetTypeset(a, v) \cup GetTypeset(b, v))
           <=> \A v \in Vars : f[v] \in GetTypeset(a, v) \cup GetTypeset(b, v)
    BY <1>1, <1>14, <2>1
  <2>3. (\A v, w \in U : Like(a, v, w) /\ Like(b, v, w) => f[v] = f[w])
           <=> \A v, w \in Vars : Like(a, v, w) /\ Like(b, v, w) => f[v] = f[w]
    BY <1>1, <1>14
  <2> QED BY <1>13, <1>15, <2>2, <2>3
<1>17. Meaning(g[n]) \subseteq Valuations /\ Abstract!Best(Meaning(a) \cup Meaning(b)) \subseteq Valuations
  BY DEF Meaning, Abstract!Best, Abstract!Valuations, Valuations
<1>18. Meaning(g[n]) = Abstract!Best(Meaning(a) \cup Meaning(b))
  BY <1>16, <1>17
<1> QED BY <1>2, <1>11, <1>18 DEF Built

-----------------------------------------------------------------------------
(***************************************************************************)
(* Meets: folds over abstract states, any of which may be bottom.          *)
(***************************************************************************)
Doms == {{}} \cup {{s} : s \in OKStates}

LEMMA DomsIs == \A d : d \in Doms <=> DomOK(d)
BY OKStatesIs DEF Doms, DomOK

LEMMA AssumeEach ==
    ASSUME NEW d, DomOK(d), NEW v \in Vars, NEW w \in Vars
    PROVE  Means(UNION {AssumeEq(s, v, w) : s \in d}, {f \in Gamma(d) : f[v] = f[w]})
<1>1. CASE d = {}
  <2>1. UNION {AssumeEq(s, v, w) : s \in d} = {} /\ {f \in Gamma(d) : f[v] = f[w]} = {}
    BY <1>1 DEF Gamma
  <2> QED BY <2>1, MeansIs
<1>2. ASSUME NEW s, StateOK(s), d = {s}
      PROVE  Means(UNION {AssumeEq(x, v, w) : x \in d}, {f \in Gamma(d) : f[v] = f[w]})
  <2>1. UNION {AssumeEq(x, v, w) : x \in d} = AssumeEq(s, v, w)
    BY <1>2
  <2>2. Gamma(d) = Meaning(s)
    BY <1>2, GammaIs
  <2>3. Means(AssumeEq(s, v, w), {f \in Meaning(s) : f[v] = f[w]})
    BY <1>2, AssumeEqIs
  <2>4. {f \in Gamma(d) : f[v] = f[w]} = {f \in Meaning(s) : f[v] = f[w]}
    BY <2>2
  <2> QED BY ONLY <2>1, <2>3, <2>4
<1> QED BY <1>1, <1>2 DEF DomOK

LEMMA RestrictEach ==
    ASSUME NEW d, DomOK(d), NEW v \in Vars, NEW M \in SUBSET Types
    PROVE  Means(UNION {RestrictTo(s, v, M) : s \in d}, {f \in Gamma(d) : f[v] \in M})
<1>1. CASE d = {}
  <2>1. UNION {RestrictTo(s, v, M) : s \in d} = {} /\ {f \in Gamma(d) : f[v] \in M} = {}
    BY <1>1 DEF Gamma
  <2> QED BY <2>1, MeansIs, ZenonT(60)
<1>2. ASSUME NEW s, StateOK(s), d = {s}
      PROVE  Means(UNION {RestrictTo(x, v, M) : x \in d}, {f \in Gamma(d) : f[v] \in M})
  <2>1. UNION {RestrictTo(x, v, M) : x \in d} = RestrictTo(s, v, M)
    BY <1>2
  <2>2. Gamma(d) = Meaning(s)
    BY <1>2, GammaIs
  <2>3. Means(RestrictTo(s, v, M), {f \in Meaning(s) : f[v] \in M})
    BY <1>2, RestrictIs
  <2>4. {f \in Gamma(d) : f[v] \in M} = {f \in Meaning(s) : f[v] \in M}
    BY <2>2
  <2> QED BY ONLY <2>1, <2>3, <2>4
<1> QED BY <1>1, <1>2 DEF DomOK

\* The variables of ms are assumed equal.
UnifyAll(d, ms) == Folded(LAMBDA y, v : UNION {AssumeEq(s, ms[1], v) : s \in y}, d, Tail(ms))

LEMMA UnifyAllIs ==
    ASSUME NEW d, DomOK(d), NEW ms \in Seq(Vars), ms # <<>>
    PROVE  Means(UnifyAll(d, ms), {f \in Gamma(d) : \A i \in 1 .. Len(ms) : f[ms[i]] = f[ms[1]]})
<1> DEFINE q == Tail(ms)
           n == Len(q)
           m == ms[1]
           Op(y, v) == UNION {AssumeEq(s, m, v) : s \in y}
           F == [i \in 1 .. n |-> [y \in Doms |-> Op(y, q[i])]]
           IsFold(f) == f = [i \in 0 .. n |-> IF i = 0 THEN d ELSE Op(f[i - 1], q[i])]
           g == CHOOSE f : IsFold(f)
<1>1. /\ n \in Nat /\ Len(ms) = n + 1 /\ m \in Vars
      /\ \A i \in 1 .. n : q[i] = ms[i + 1] /\ q[i] \in Vars
  <2>1. /\ Len(ms) \in Nat /\ Len(ms) >= 1 /\ m \in Vars /\ n = Len(ms) - 1
        /\ q \in Seq(Vars) /\ \A i \in 1 .. n : q[i] = ms[i + 1] /\ i + 1 \in 1 .. Len(ms)
    BY TailIs
  <2>2. \A i \in 1 .. n : q[i] \in Vars
    BY <2>1
  <2> QED BY <2>1, <2>2
<1> HIDE DEF q, m
<1>2. ASSUME NEW y \in Doms, NEW i \in 1 .. n
      PROVE  Op(y, q[i]) \in Doms /\ Gamma(Op(y, q[i])) = {f \in Gamma(y) : f[m] = f[q[i]]}
  <2>1. Means(Op(y, q[i]), {f \in Gamma(y) : f[m] = f[q[i]]})
    BY <1>1, DomsIs, AssumeEach, SMTT(60)
  <2> HIDE DEF Op
  <2> QED BY <2>1, DomsIs DEF Means
<1>3. d \in Doms
  BY DomsIs
<1> HIDE DEF Op
<1>4. F \in [1 .. n -> [Doms -> Doms]]
  BY <1>2
<1>5. PICK h : Folds(Doms, n, d, F, h)
  <2> HIDE DEF F
  <2> QED BY <1>1, <1>3, <1>4, FoldExists
<1>6. IsFold(h)
  <2>1. h = [i \in 0 .. n |-> h[i]]
    BY <1>5 DEF Folds
  <2>2. \A i \in 1 .. n : \A x \in Doms : F[i][x] = Op(x, q[i])
    OBVIOUS
  <2> HIDE DEF F
  <2>3. \A i \in 1 .. n : h[i - 1] \in Doms /\ h[i] = F[i][h[i - 1]]
    <3>1. \A i \in 1 .. n : i - 1 \in 0 .. n
      BY <1>1
    <3> QED BY <1>5, <3>1, SMTT(60) DEF Folds
  <2>4. \A i \in 0 .. n : i = 0 \/ i \in 1 .. n
    BY <1>1
  <2>5. \A i \in 0 .. n : h[i] = IF i = 0 THEN d ELSE Op(h[i - 1], q[i])
    BY <1>1, <1>5, <2>2, <2>3, <2>4 DEF Folds
  <2> QED BY <2>1, <2>5
<1>7. IsFold(g)
  <2> HIDE DEF IsFold
  <2> QED BY <1>6
<1>8. UnifyAll(d, ms) = g[n]
  BY DEF UnifyAll, Folded, q, m, Op
<1> HIDE DEF g, F, n
<1>9. g[0] = d /\ \A i \in 1 .. n : g[i] = Op(g[i - 1], q[i])
  BY <1>1, <1>7, SMTT(60)
<1> DEFINE T == {i \in 0 .. n : /\ g[i] \in Doms
                               /\ Gamma(g[i]) = {f \in Gamma(d) : \A j \in 1 .. i : f[q[j]] = f[m]}}
<1>10. 0 \in T
  BY <1>1, <1>3, <1>9
<1>11. \A i \in 0 .. n - 1 : i \in T => i + 1 \in T
  <2> SUFFICES ASSUME NEW i \in 0 .. n - 1, i \in T PROVE i + 1 \in T
    OBVIOUS
  <2>1. i + 1 \in 1 .. n /\ i + 1 \in 0 .. n /\ (i + 1) - 1 = i /\ 1 .. i + 1 = (1 .. i) \cup {i + 1}
    BY <1>1, SMTT(60)
  <2>2. g[i + 1] = Op(g[i], q[i + 1])
    BY <1>9, <2>1
  <2>3. g[i + 1] \in Doms /\ Gamma(g[i + 1]) = {f \in Gamma(g[i]) : f[m] = f[q[i + 1]]}
    BY <1>2, <2>1, <2>2
  <2>4. Gamma(g[i + 1]) = {f \in Gamma(d) : \A j \in 1 .. i + 1 : f[q[j]] = f[m]}
    <3>1. Gamma(g[i]) = {f \in Gamma(d) : \A j \in 1 .. i : f[q[j]] = f[m]}
      OBVIOUS
    <3>2. \A f : f \in Gamma(g[i + 1]) <=> f \in Gamma(d) /\ (\A j \in 1 .. i : f[q[j]] = f[m]) /\ f[m] = f[q[i + 1]]
      BY <2>3, <3>1
    <3>3. \A f : (\A j \in 1 .. i + 1 : f[q[j]] = f[m]) <=> (\A j \in 1 .. i : f[q[j]] = f[m]) /\ f[m] = f[q[i + 1]]
      BY <2>1
    <3> QED BY <3>2, <3>3
  <2> QED BY <2>1, <2>3, <2>4
<1>12. n \in T
  <2> HIDE DEF T
  <2>1. \A i \in 0 .. n : i \in T
    BY <1>1, <1>10, <1>11, RangeInduction
  <2> QED BY <1>1, <2>1
<1>13. \A f : (\A j \in 1 .. n : f[q[j]] = f[m]) <=> (\A j \in 1 .. Len(ms) : f[ms[j]] = f[m])
  <2>1. \A j \in 1 .. Len(ms) : j = 1 \/ (j - 1 \in 1 .. n /\ (j - 1) + 1 = j)
    BY <1>1
  <2>2. \A j \in 1 .. n : j + 1 \in 1 .. Len(ms)
    BY <1>1
  <2>3. ms[1] = m
    BY DEF m
  <2>4. ASSUME NEW f, \A j \in 1 .. n : f[q[j]] = f[m], NEW j \in 1 .. Len(ms) PROVE f[ms[j]] = f[m]
    <3>1. CASE j = 1
      BY <2>3, <3>1
    <3>2. CASE j - 1 \in 1 .. n /\ (j - 1) + 1 = j
      <4>1. q[j - 1] = ms[j]
        BY <1>1, <3>2
      <4> QED BY <2>4, <3>2, <4>1
    <3> QED BY <2>1, <3>1, <3>2
  <2>5. ASSUME NEW f, \A j \in 1 .. Len(ms) : f[ms[j]] = f[m], NEW j \in 1 .. n PROVE f[q[j]] = f[m]
    BY <1>1, <2>2, <2>5
  <2> QED BY <2>4, <2>5
<1>14. Gamma(g[n]) = {f \in Gamma(d) : \A j \in 1 .. Len(ms) : f[ms[j]] = f[m]}
  <2>1. Gamma(g[n]) = {f \in Gamma(d) : \A j \in 1 .. n : f[q[j]] = f[m]}
    BY <1>12
  <2> QED BY <1>13, <2>1
<1> QED BY <1>8, <1>12, <1>14, DomsIs DEF Means, m

UnifyClasses(d, q) == Folded(UnifyAll, d, q)

LEMMA UnifyClassesIs ==
    ASSUME NEW d, DomOK(d), NEW q, NEW n \in Nat, Len(q) = n,
           \A i \in 1 .. n : q[i] \in Seq(Vars) /\ q[i] # <<>>
    PROVE  Means(UnifyClasses(d, q),
                 {f \in Gamma(d) : \A i \in 1 .. n : \A k \in 1 .. Len(q[i]) : f[q[i][k]] = f[q[i][1]]})
<1> DEFINE Eq(f, ms) == \A k \in 1 .. Len(ms) : f[ms[k]] = f[ms[1]]
           F == [i \in 1 .. n |-> [y \in Doms |-> UnifyAll(y, q[i])]]
           IsFold(f) == f = [i \in 0 .. n |-> IF i = 0 THEN d ELSE UnifyAll(f[i - 1], q[i])]
           g == CHOOSE f : IsFold(f)
<1>1. ASSUME NEW y \in Doms, NEW i \in 1 .. n
      PROVE  UnifyAll(y, q[i]) \in Doms /\ Gamma(UnifyAll(y, q[i])) = {f \in Gamma(y) : Eq(f, q[i])}
  <2>1. Means(UnifyAll(y, q[i]), {f \in Gamma(y) : Eq(f, q[i])})
    BY DomsIs, UnifyAllIs
  <2> QED BY <2>1, DomsIs DEF Means
<1>2. d \in Doms
  BY DomsIs
<1> HIDE DEF Eq
<1>3. F \in [1 .. n -> [Doms -> Doms]]
  BY <1>1
<1>4. PICK h : Folds(Doms, n, d, F, h)
  <2> HIDE DEF F
  <2> QED BY <1>2, <1>3, FoldExists
<1>5. IsFold(h)
  <2>1. h = [i \in 0 .. n |-> h[i]]
    BY <1>4 DEF Folds
  <2>2. \A i \in 1 .. n : \A x \in Doms : F[i][x] = UnifyAll(x, q[i])
    OBVIOUS
  <2> HIDE DEF F
  <2>3. \A i \in 1 .. n : h[i - 1] \in Doms /\ h[i] = F[i][h[i - 1]]
    BY <1>4 DEF Folds
  <2>4. \A i \in 0 .. n : i = 0 \/ i \in 1 .. n
    OBVIOUS
  <2>5. \A i \in 0 .. n : h[i] = IF i = 0 THEN d ELSE UnifyAll(h[i - 1], q[i])
    BY <1>4, <2>2, <2>3, <2>4, ZenonT(60) DEF Folds
  <2> QED BY <2>1, <2>5, SMTT(60)
<1>6. IsFold(g)
  <2> HIDE DEF IsFold
  <2> QED BY <1>5
<1>7. UnifyClasses(d, q) = g[n]
  BY DEF UnifyClasses, Folded
<1> HIDE DEF g, F
<1>8. g[0] = d /\ \A i \in 1 .. n : g[i] = UnifyAll(g[i - 1], q[i])
  BY <1>6
<1> DEFINE T == {i \in 0 .. n : g[i] \in Doms /\ Gamma(g[i]) = {f \in Gamma(d) : \A j \in 1 .. i : Eq(f, q[j])}}
<1>9. 0 \in T
  BY <1>2, <1>8
<1>10. \A i \in 0 .. n - 1 : i \in T => i + 1 \in T
  <2> SUFFICES ASSUME NEW i \in 0 .. n - 1, i \in T PROVE i + 1 \in T
    OBVIOUS
  <2>1. i + 1 \in 1 .. n /\ i + 1 \in 0 .. n /\ (i + 1) - 1 = i /\ 1 .. i + 1 = (1 .. i) \cup {i + 1}
    OBVIOUS
  <2>2. g[i + 1] = UnifyAll(g[i], q[i + 1])
    BY <1>8, <2>1
  <2>3. g[i + 1] \in Doms /\ Gamma(g[i + 1]) = {f \in Gamma(g[i]) : Eq(f, q[i + 1])}
    BY <1>1, <2>1, <2>2, SMTT(60)
  <2>4. Gamma(g[i + 1]) = {f \in Gamma(d) : \A j \in 1 .. i + 1 : Eq(f, q[j])}
    <3>1. Gamma(g[i]) = {f \in Gamma(d) : \A j \in 1 .. i : Eq(f, q[j])}
      BY SMTT(60)
    <3>2. \A f : f \in Gamma(g[i + 1]) <=> f \in Gamma(d) /\ (\A j \in 1 .. i : Eq(f, q[j])) /\ Eq(f, q[i + 1])
      BY <2>3, <3>1
    <3>3. \A f : (\A j \in 1 .. i + 1 : Eq(f, q[j])) <=> (\A j \in 1 .. i : Eq(f, q[j])) /\ Eq(f, q[i + 1])
      BY <2>1
    <3> QED BY <3>2, <3>3
  <2> QED BY <2>1, <2>3, <2>4
<1>11. n \in T
  <2> HIDE DEF T
  <2>1. \A i \in 0 .. n : i \in T
    BY <1>9, <1>10, RangeInduction
  <2> QED BY <2>1
<1>12. DomOK(g[n]) /\ Gamma(g[n]) = {f \in Gamma(d) : \A j \in 1 .. n : Eq(f, q[j])}
  BY <1>11, DomsIs
<1> QED BY <1>7, <1>12 DEF Means, Eq

\* Every variable of q is restricted to its types in b.
RestrictAll(d, b, q) == Folded(LAMBDA x, v : UNION {RestrictTo(s, v, GetTypeset(b, v)) : s \in x}, d, q)

LEMMA RestrictAllIs ==
    ASSUME NEW d, DomOK(d), NEW b, StateOK(b), NEW q \in Seq(Vars)
    PROVE  Means(RestrictAll(d, b, q), {f \in Gamma(d) : \A i \in 1 .. Len(q) : f[q[i]] \in GetTypeset(b, q[i])})
<1> DEFINE n == Len(q)
           Ty(v) == GetTypeset(b, v)
           Op(x, v) == UNION {RestrictTo(s, v, Ty(v)) : s \in x}
           F == [i \in 1 .. n |-> [x \in Doms |-> Op(x, q[i])]]
           IsFold(f) == f = [i \in 0 .. n |-> IF i = 0 THEN d ELSE Op(f[i - 1], q[i])]
           g == CHOOSE f : IsFold(f)
<1>1. n \in Nat /\ \A i \in 1 .. n : q[i] \in Vars /\ Ty(q[i]) \in SUBSET Types
  <2>1. n \in Nat /\ \A i \in 1 .. n : q[i] \in Vars
    OBVIOUS
  <2> QED BY <2>1, LikeIs
<1>2. ASSUME NEW x \in Doms, NEW i \in 1 .. n
      PROVE  Op(x, q[i]) \in Doms /\ Gamma(Op(x, q[i])) = {f \in Gamma(x) : f[q[i]] \in Ty(q[i])}
  <2> DEFINE M == Ty(q[i])
  <2>1. M \in SUBSET Types /\ q[i] \in Vars /\ DomOK(x)
    BY <1>1, DomsIs
  <2> HIDE DEF M
  <2>2. Means(UNION {RestrictTo(s, q[i], M) : s \in x}, {f \in Gamma(x) : f[q[i]] \in M})
    BY <2>1, RestrictEach
  <2>3. Op(x, q[i]) = UNION {RestrictTo(s, q[i], M) : s \in x}
    BY DEF M
  <2> HIDE DEF Op
  <2> QED BY <2>2, <2>3, DomsIs DEF Means, M
<1>3. d \in Doms
  BY DomsIs
<1> HIDE DEF Op
<1>4. F \in [1 .. n -> [Doms -> Doms]]
  BY <1>2
<1>5. PICK h : Folds(Doms, n, d, F, h)
  <2> HIDE DEF F
  <2> QED BY <1>1, <1>3, <1>4, FoldExists
<1>6. IsFold(h)
  <2>1. h = [i \in 0 .. n |-> h[i]]
    BY <1>5 DEF Folds
  <2>2. \A i \in 1 .. n : \A x \in Doms : F[i][x] = Op(x, q[i])
    OBVIOUS
  <2> HIDE DEF F
  <2>3. \A i \in 1 .. n : h[i - 1] \in Doms /\ h[i] = F[i][h[i - 1]]
    <3>1. \A i \in 1 .. n : i - 1 \in 0 .. n
      BY <1>1
    <3> QED BY <1>5, <3>1, SMTT(60) DEF Folds
  <2>4. \A i \in 0 .. n : i = 0 \/ i \in 1 .. n
    BY <1>1
  <2>5. \A i \in 0 .. n : h[i] = IF i = 0 THEN d ELSE Op(h[i - 1], q[i])
    BY <1>1, <1>5, <2>2, <2>3, <2>4, SMTT(60) DEF Folds
  <2> QED BY <2>1, <2>5, SMTT(60)
<1>7. IsFold(g)
  <2> HIDE DEF IsFold
  <2> QED BY <1>6
<1>8. RestrictAll(d, b, q) = g[n]
  BY DEF RestrictAll, Folded, Op
<1> HIDE DEF g, F, n, Ty
<1>9. g[0] = d /\ \A i \in 1 .. n : g[i] = Op(g[i - 1], q[i])
  BY <1>1, <1>7
<1> DEFINE T == {i \in 0 .. n : /\ g[i] \in Doms
                               /\ Gamma(g[i]) = {f \in Gamma(d) : \A j \in 1 .. i : f[q[j]] \in Ty(q[j])}}
<1>10. 0 \in T
  BY <1>1, <1>3, <1>9
<1>11. \A i \in 0 .. n - 1 : i \in T => i + 1 \in T
  <2> SUFFICES ASSUME NEW i \in 0 .. n - 1, i \in T PROVE i + 1 \in T
    BY SMTT(60)
  <2>1. i + 1 \in 1 .. n /\ i + 1 \in 0 .. n /\ (i + 1) - 1 = i /\ 1 .. i + 1 = (1 .. i) \cup {i + 1}
    BY <1>1, SMTT(60)
  <2>2. g[i + 1] = Op(g[i], q[i + 1])
    BY <1>9, <2>1
  <2>3. g[i + 1] \in Doms /\ Gamma(g[i + 1]) = {f \in Gamma(g[i]) : f[q[i + 1]] \in Ty(q[i + 1])}
    BY <1>2, <2>1, <2>2
  <2>4. Gamma(g[i + 1]) = {f \in Gamma(d) : \A j \in 1 .. i + 1 : f[q[j]] \in Ty(q[j])}
    <3> DEFINE P(f, j) == f[q[j]] \in Ty(q[j])
    <3>1. Gamma(g[i]) = {f \in Gamma(d) : \A j \in 1 .. i : P(f, j)}
      OBVIOUS
    <3>2. \A f : f \in Gamma(g[i + 1]) <=> f \in Gamma(d) /\ (\A j \in 1 .. i : P(f, j)) /\ P(f, i + 1)
      BY <2>3, <3>1
    <3> HIDE DEF P
    <3>3. \A f : (\A j \in 1 .. i + 1 : P(f, j)) <=> (\A j \in 1 .. i : P(f, j)) /\ P(f, i + 1)
      BY <2>1
    <3>4. Gamma(g[i + 1]) = {f \in Gamma(d) : \A j \in 1 .. i + 1 : P(f, j)}
      BY <3>2, <3>3
    <3> QED BY <3>4 DEF P
  <2> QED BY <2>1, <2>3, <2>4
<1>12. n \in T
  <2> HIDE DEF T
  <2>1. \A i \in 0 .. n : i \in T
    BY <1>1, <1>10, <1>11, RangeInduction
  <2> QED BY <1>1, <2>1
<1>13. DomOK(g[n]) /\ Gamma(g[n]) = {f \in Gamma(d) : \A j \in 1 .. n : f[q[j]] \in Ty(q[j])}
  BY <1>12, DomsIs
<1> QED BY <1>8, <1>13 DEF Means, n, Ty

\* Every class of s is listed, and nothing else.
LEMMA ClassesListed ==
    ASSUME NEW s, StateOK(s)
    PROVE  LET q == EquivalenceClasses(s)
           IN  /\ Len(q) \in Nat /\ DOMAIN q = 1 .. Len(q)
               /\ \A i \in 1 .. Len(q) : \E v \in Known(s) : Enumerates(q[i], {w \in Known(s) : SameClass(s, w, v)})
               /\ \A v \in Known(s) : \E i \in 1 .. Len(q) : Enumerates(q[i], {w \in Known(s) : SameClass(s, w, v)})
<1> DEFINE R == {s.rep[s.vid[v]] : v \in Known(s)}
           reps == Ascending(R)
           Cl(r) == {v \in Known(s) : s.rep[s.vid[v]] = r}
           q == EquivalenceClasses(s)
<1>1. /\ IsFiniteSet(Known(s)) /\ Known(s) \in SUBSET Vars
      /\ \A v \in Known(s) : s.rep[s.vid[v]] \in Int
  BY KnownVars DEF StateOK, Names, Forest, Elements
<1>2. Enumerates(reps, R)
  <2> DEFINE repOf == [v \in Known(s) |-> s.rep[s.vid[v]]]
  <2>1. DOMAIN repOf = Known(s) /\ R = {repOf[v] : v \in Known(s)}
    OBVIOUS
  <2>2. R \in SUBSET Int
    BY <1>1
  <2> HIDE DEF R, repOf
  <2>3. IsFiniteSet(R)
    BY <1>1, <2>1, ImageFinite
  <2> QED BY <2>2, <2>3, AscendingEnumerates
<1>3. q = [i \in DOMAIN reps |-> Ascending(Cl(reps[i]))]
  BY DEF EquivalenceClasses
<1> HIDE DEF reps, q
<1>4. /\ Len(reps) \in Nat /\ DOMAIN reps = 1 .. Len(reps)
      /\ \A i \in 1 .. Len(reps) : reps[i] \in R
      /\ \A r \in R : \E i \in 1 .. Len(reps) : reps[i] = r
  <2> HIDE DEF R
  <2>1. reps \in Seq(R)
    BY <1>2 DEF Enumerates
  <2> QED BY <1>2, <2>1 DEF Enumerates
<1>5. Len(q) = Len(reps) /\ DOMAIN q = 1 .. Len(reps)
  <2>1. DOMAIN q = 1 .. Len(reps)
    BY <1>3, <1>4
  <2>2. q \in Seq({q[i] : i \in 1 .. Len(reps)})
    <3> DEFINE W == {q[i] : i \in 1 .. Len(reps)}
    <3>1. q = [i \in 1 .. Len(reps) |-> q[i]]
      BY <1>3, <1>4
    <3>2. \A i \in 1 .. Len(reps) : q[i] \in W
      OBVIOUS
    <3> HIDE DEF W
    <3>3. q \in [1 .. Len(reps) -> W]
      BY <3>1, <3>2
    <3>4. q \in Seq(W)
      BY ONLY <1>4, <3>3
    <3> QED BY <3>4 DEF W
  <2>3. Len(q) = Len(reps)
    BY ONLY <1>4, <2>1, <2>2
  <2> QED BY <2>1, <2>3
<1>6. \A i \in 1 .. Len(reps) : Enumerates(q[i], Cl(reps[i]))
  <2> SUFFICES ASSUME NEW i \in 1 .. Len(reps) PROVE Enumerates(q[i], Cl(reps[i]))
    OBVIOUS
  <2> DEFINE C == Cl(reps[i])
  <2>1. q[i] = Ascending(C)
    BY <1>3, <1>4
  <2>2. C \in SUBSET Known(s)
    OBVIOUS
  <2> HIDE DEF C
  <2>3. C \in SUBSET Int /\ IsFiniteSet(C)
    <3>1. \A v \in Vars : v \in Int
      BY TypeVarsAssumption
    <3>2. IsFiniteSet(C)
      BY <1>1, <2>2, FS_Subset
    <3> QED BY <1>1, <2>2, <3>1, <3>2
  <2>4. Enumerates(q[i], C)
    BY <2>1, <2>3, AscendingEnumerates
  <2> QED BY <2>4 DEF C
<1>7. \A v \in Known(s) : Cl(s.rep[s.vid[v]]) = {w \in Known(s) : SameClass(s, w, v)}
  BY DEF SameClass
<1> HIDE DEF Cl
<1>8. \A i \in 1 .. Len(q) : \E v \in Known(s) : Enumerates(q[i], {w \in Known(s) : SameClass(s, w, v)})
  <2> SUFFICES ASSUME NEW i \in 1 .. Len(q)
               PROVE  \E v \in Known(s) : Enumerates(q[i], {w \in Known(s) : SameClass(s, w, v)})
    OBVIOUS
  <2>1. PICK v \in Known(s) : reps[i] = s.rep[s.vid[v]]
    BY <1>4, <1>5
  <2>2. Enumerates(q[i], Cl(s.rep[s.vid[v]]))
    BY <1>5, <1>6, <2>1
  <2> QED BY <1>7, <2>2
<1>9. \A v \in Known(s) : \E i \in 1 .. Len(q) : Enumerates(q[i], {w \in Known(s) : SameClass(s, w, v)})
  <2> SUFFICES ASSUME NEW v \in Known(s)
               PROVE  \E i \in 1 .. Len(q) : Enumerates(q[i], {w \in Known(s) : SameClass(s, w, v)})
    OBVIOUS
  <2>1. PICK i \in 1 .. Len(q) : reps[i] = s.rep[s.vid[v]]
    BY <1>4, <1>5, SMTT(60)
  <2>2. Enumerates(q[i], Cl(s.rep[s.vid[v]]))
    BY <1>5, <1>6, <2>1
  <2> QED BY <1>7, <2>2
<1> QED BY <1>4, <1>5, <1>8, <1>9 DEF q

LEMMA MeetIs ==
    ASSUME NEW a, StateOK(a), NEW b, StateOK(b)
    PROVE  Means(MeetStates(a, b), Meaning(a) \cap Meaning(b))
<1> DEFINE names == Ascending(Known(b))
           start == Folded(EnsureVar, a, names)
           q == EquivalenceClasses(b)
           n == Len(q)
           eqs == UnifyClasses({start}, q)
           final == RestrictAll(eqs, b, names)
           Eq(f, ms) == \A k \in 1 .. Len(ms) : f[ms[k]] = f[ms[1]]
           Cl(v) == {w \in Known(b) : SameClass(b, w, v)}
<1>1. Known(b) \in SUBSET Vars /\ IsFiniteSet(Known(b))
  BY KnownVars DEF StateOK, Names
<1>2. names \in Seq(Vars) /\ Enumerates(names, Known(b))
  <2> DEFINE K == Known(b)
  <2>1. K \in SUBSET Int /\ K \in SUBSET Vars
    <3>1. \A v \in Vars : v \in Int
      BY TypeVarsAssumption
    <3> QED BY <1>1, <3>1
  <2>2. Enumerates(names, K)
    BY <1>1, <2>1, AscendingEnumerates
  <2> HIDE DEF K, names
  <2>3. names \in Seq(K) /\ Len(names) \in Nat
    BY <2>2 DEF Enumerates
  <2>4. \A i \in 1 .. Len(names) : names[i] \in Vars
    <3>1. \A i \in 1 .. Len(names) : names[i] \in K
      BY ONLY <2>3
    <3> QED BY <2>1, <3>1
  <2>5. names \in Seq(Vars)
    BY <2>3, <2>4
  <2> QED BY <2>2, <2>5 DEF K
<1> HIDE DEF names
<1>3. StateOK(start) /\ Meaning(start) = Meaning(a)
  BY <1>2, EnsureAllIs
<1>4. /\ n \in Nat
      /\ \A i \in 1 .. n : \E v \in Known(b) : Enumerates(q[i], Cl(v))
      /\ \A v \in Known(b) : \E i \in 1 .. n : Enumerates(q[i], Cl(v))
  BY ClassesListed
<1>5. \A v \in Known(b) : v \in Cl(v) /\ Cl(v) \in SUBSET Vars
  BY <1>1 DEF SameClass
<1> HIDE DEF q, Cl
<1>6. \A i \in 1 .. n : q[i] \in Seq(Vars) /\ q[i] # <<>>
  <2> SUFFICES ASSUME NEW i \in 1 .. n PROVE q[i] \in Seq(Vars) /\ q[i] # <<>>
    OBVIOUS
  <2>1. PICK v \in Known(b) : Enumerates(q[i], Cl(v))
    BY <1>4
  <2> DEFINE c == q[i]
             S == Cl(v)
  <2>2. Enumerates(c, S) /\ v \in S /\ S \in SUBSET Vars
    BY <1>5, <2>1
  <2> HIDE DEF c, S
  <2>3. c \in Seq(S) /\ Len(c) \in Nat /\ \E k \in 1 .. Len(c) : c[k] = v
    BY <2>2 DEF Enumerates
  <2>4. \A k \in 1 .. Len(c) : c[k] \in Vars
    BY <2>2, <2>3
  <2>5. c \in Seq(Vars) /\ c # <<>>
    BY <2>3, <2>4
  <2> QED BY <2>5 DEF c
<1>7. DomOK(eqs) /\ Gamma(eqs) = {f \in Meaning(a) : \A i \in 1 .. n : Eq(f, q[i])}
  <2> HIDE DEF start, n
  <2>1. DomOK({start}) /\ Gamma({start}) = Meaning(a)
    BY <1>3, GammaIs DEF DomOK
  <2>2. n = Len(q)
    BY DEF n
  <2>3. Means(UnifyClasses({start}, q), {f \in Gamma({start}) : \A i \in 1 .. n : Eq(f, q[i])})
    <3> DEFINE d == {start}
    <3> HIDE DEF d
    <3>1. DomOK(d)
      BY <2>1 DEF d
    <3>2. n \in Nat
      BY <1>4
    <3>3. Means(UnifyClasses(d, q), {f \in Gamma(d) : \A i \in 1 .. n : Eq(f, q[i])})
      BY ONLY <1>6, <2>2, <3>1, <3>2, UnifyClassesIs, SMTT(60)
    <3> QED BY <3>3 DEF d
  <2> QED BY <2>1, <2>3 DEF Means
<1>8. MeetStates(a, b) = final
  BY DEF MeetStates, UnifyClasses, UnifyAll, RestrictAll, Folded, names, q
<1> HIDE DEF eqs
<1>9. Means(final, {f \in Gamma(eqs) : \A i \in 1 .. Len(names) : f[names[i]] \in GetTypeset(b, names[i])})
  BY <1>2, <1>7, RestrictAllIs
<1>10. ASSUME NEW f
       PROVE  (\A i \in 1 .. Len(names) : f[names[i]] \in GetTypeset(b, names[i]))
                 <=> \A v \in Known(b) : f[v] \in GetTypeset(b, v)
  <2>1. \A i \in 1 .. Len(names) : names[i] \in Known(b)
    BY <1>2 DEF Enumerates
  <2>2. \A v \in Known(b) : \E i \in 1 .. Len(names) : names[i] = v
    BY <1>2 DEF Enumerates
  <2> QED BY <2>1, <2>2
<1>11. ASSUME NEW f
       PROVE  (\A i \in 1 .. n : Eq(f, q[i])) <=> \A v, w \in Known(b) : SameClass(b, v, w) => f[v] = f[w]
  <2>1. ASSUME \A i \in 1 .. n : Eq(f, q[i]), NEW v \in Known(b), NEW w \in Known(b), SameClass(b, v, w)
        PROVE  f[v] = f[w]
    <3>1. PICK i \in 1 .. n : Enumerates(q[i], Cl(w))
      BY <1>4
    <3>2. v \in Cl(w) /\ w \in Cl(w)
      BY <1>5, <2>1 DEF Cl
    <3>3. (\E k \in 1 .. Len(q[i]) : q[i][k] = v) /\ (\E k \in 1 .. Len(q[i]) : q[i][k] = w)
      BY <3>1, <3>2 DEF Enumerates
    <3>4. Eq(f, q[i])
      BY <2>1
    <3> QED BY <3>3, <3>4
  <2>2. ASSUME \A v, w \in Known(b) : SameClass(b, v, w) => f[v] = f[w], NEW i \in 1 .. n
        PROVE  Eq(f, q[i])
    <3>1. PICK v \in Known(b) : Enumerates(q[i], Cl(v))
      BY <1>4
    <3>2. \A x, y \in Cl(v) : f[x] = f[y]
      BY <2>2 DEF Cl, SameClass
    <3>3. \A k \in 1 .. Len(q[i]) : q[i][k] \in Cl(v) /\ q[i][1] \in Cl(v)
      <4> DEFINE c == q[i]
                 S == Cl(v)
      <4>1. c \in Seq(S) /\ Len(c) \in Nat
        BY <3>1 DEF Enumerates
      <4> HIDE DEF c, S
      <4>2. \A k \in 1 .. Len(c) : c[k] \in S /\ c[1] \in S
        BY <4>1
      <4> QED BY <4>2 DEF c, S
    <3> QED BY <3>2, <3>3, SMTT(60)
  <2> QED BY <2>1, <2>2
<1> HIDE DEF Eq, n
<1>12. \A f : f \in {h \in Gamma(eqs) : \A i \in 1 .. Len(names) : h[names[i]] \in GetTypeset(b, names[i])}
                 <=> /\ f \in Meaning(a)
                     /\ \A v \in Known(b) : f[v] \in GetTypeset(b, v)
                     /\ \A v, w \in Known(b) : SameClass(b, v, w) => f[v] = f[w]
  BY <1>7, <1>10, <1>11
<1>13. ASSUME NEW f \in Valuations
       PROVE  f \in Meaning(b) <=> /\ \A v \in Known(b) : f[v] \in GetTypeset(b, v)
                                   /\ \A v, w \in Known(b) : SameClass(b, v, w) => f[v] = f[w]
  <2>1. \A v \in Vars : f[v] \in Types
    BY DEF Valuations
  <2>2. (\A v \in Vars : f[v] \in GetTypeset(b, v)) <=> \A v \in Known(b) : f[v] \in GetTypeset(b, v)
    BY <1>1, <2>1 DEF GetTypeset
  <2>3. (\A v, w \in Vars : Like(b, v, w) => f[v] = f[w])
           <=> \A v, w \in Known(b) : SameClass(b, v, w) => f[v] = f[w]
    BY <1>1 DEF Like
  <2> QED BY <2>2, <2>3 DEF Meaning
<1>14. Meaning(a) \subseteq Valuations /\ Meaning(b) \subseteq Valuations
  BY DEF Meaning
<1>15. {h \in Gamma(eqs) : \A i \in 1 .. Len(names) : h[names[i]] \in GetTypeset(b, names[i])}
           = Meaning(a) \cap Meaning(b)
  BY <1>12, <1>13, <1>14
<1> QED BY <1>8, <1>9, <1>15

-----------------------------------------------------------------------------
(***************************************************************************)
(* Questions.                                                              *)
(***************************************************************************)
LEMMA ClassKeptIs ==
    ASSUME NEW a, NEW ms, NEW S, Enumerates(ms, S), S # {}
    PROVE  (S \subseteq Known(a) => (ClassKept(a, ms) <=> \A v, w \in S : SameClass(a, v, w)))
<1>1. /\ Len(ms) \in Nat /\ 1 \in 1 .. Len(ms)
      /\ \A k \in 1 .. Len(ms) : ms[k] \in S
      /\ \A v \in S : \E k \in 1 .. Len(ms) : ms[k] = v
  <2>1. /\ ms \in Seq(S) /\ Len(ms) \in Nat
        /\ \A v \in S : \E k \in 1 .. Len(ms) : ms[k] = v
    BY DEF Enumerates
  <2>2. \A k \in 1 .. Len(ms) : ms[k] \in S
    BY <2>1
  <2>3. \E k \in 1 .. Len(ms) : TRUE
    BY <2>1
  <2> QED BY <2>1, <2>2, <2>3
<1> SUFFICES ASSUME S \subseteq Known(a)
             PROVE  ClassKept(a, ms) <=> \A v, w \in S : SameClass(a, v, w)
  OBVIOUS
<1>2. ms[1] \in Known(a)
  BY <1>1
<1>3. ClassKept(a, ms) <=> \A k \in 1 .. Len(ms) : SameClass(a, ms[1], ms[k])
  <2>1. ClassKept(a, ms) <=> Len(ms) <= 1 \/ \A k \in 2 .. Len(ms) : ms[k] \in Known(a) /\ SameClass(a, ms[1], ms[k])
    BY <1>2 DEF ClassKept
  <2>2. \A k \in 2 .. Len(ms) : k \in 1 .. Len(ms) /\ ms[k] \in Known(a)
    BY <1>1
  <2>3. \A k \in 1 .. Len(ms) : k = 1 \/ k \in 2 .. Len(ms)
    BY <1>1
  <2>4. SameClass(a, ms[1], ms[1])
    BY DEF SameClass
  <2>5. Len(ms) <= 1 => \A k \in 1 .. Len(ms) : k = 1
    BY <1>1
  <2> QED BY <2>1, <2>2, <2>3, <2>4, <2>5
<1>4. ASSUME \A k \in 1 .. Len(ms) : SameClass(a, ms[1], ms[k]), NEW v \in S, NEW w \in S
      PROVE  SameClass(a, v, w)
  <2>1. SameClass(a, ms[1], v) /\ SameClass(a, ms[1], w)
    BY <1>1, <1>4
  <2> QED BY <2>1 DEF SameClass
<1> QED BY <1>1, <1>3, <1>4

\* Of a right-hand state whose variables are known to the left-hand one.
LEMMA IncludedIs ==
    ASSUME NEW a, StateOK(a), NEW b, StateOK(b), Known(b) \subseteq Known(a)
    PROVE  Included(a, b) <=> Meaning(a) \subseteq Meaning(b)
<1> DEFINE q == EquivalenceClasses(b)
           Cl(v) == {w \in Known(b) : SameClass(b, w, v)}
<1>1. /\ Len(q) \in Nat /\ DOMAIN q = 1 .. Len(q)
      /\ \A i \in 1 .. Len(q) : \E v \in Known(b) : Enumerates(q[i], Cl(v))
      /\ \A v \in Known(b) : \E i \in 1 .. Len(q) : Enumerates(q[i], Cl(v))
  BY ClassesListed
<1>2. \A v \in Known(b) : v \in Cl(v) /\ Cl(v) \subseteq Known(a)
  BY DEF SameClass
<1>3. Included(a, b) <=> /\ \A v \in Known(a) : GetTypeset(a, v) \subseteq GetTypeset(b, v)
                         /\ \A i \in 1 .. Len(q) : ClassKept(a, q[i])
  BY <1>1 DEF Included
<1>4. \A i \in 1 .. Len(q), v \in Known(b) : Enumerates(q[i], Cl(v)) =>
          (ClassKept(a, q[i]) <=> \A x, y \in Cl(v) : SameClass(a, x, y))
  <2> HIDE DEF q, Cl
  <2> SUFFICES ASSUME NEW i \in 1 .. Len(q), NEW v \in Known(b), Enumerates(q[i], Cl(v))
               PROVE  ClassKept(a, q[i]) <=> \A x, y \in Cl(v) : SameClass(a, x, y)
    OBVIOUS
  <2>1. Cl(v) # {} /\ Cl(v) \subseteq Known(a)
    BY <1>2
  <2> QED BY <2>1, ClassKeptIs
<1> HIDE DEF q
<1>5. (\A i \in 1 .. Len(q) : ClassKept(a, q[i])) <=> \A v \in Known(b) : \A x, y \in Cl(v) : SameClass(a, x, y)
  BY <1>1, <1>4
<1>6. (\A v \in Known(b) : \A x, y \in Cl(v) : SameClass(a, x, y))
         <=> \A v, w \in Known(b) : SameClass(b, v, w) => SameClass(a, v, w)
  BY <1>2 DEF SameClass
<1>7. (\A v, w \in Known(b) : SameClass(b, v, w) => SameClass(a, v, w))
         <=> \A v, w \in Vars : Like(b, v, w) => Like(a, v, w)
  <2>1. Known(a) \subseteq Vars /\ Known(b) \subseteq Vars
    BY KnownVars
  <2>2. \A v : SameClass(a, v, v)
    BY DEF SameClass
  <2> QED BY <2>1, <2>2 DEF Like
<1>8. (\A v \in Known(a) : GetTypeset(a, v) \subseteq GetTypeset(b, v))
         <=> \A v \in Vars : GetTypeset(a, v) \subseteq GetTypeset(b, v)
  <2>1. Known(a) \subseteq Vars /\ \A v \in Vars \ Known(a) : GetTypeset(b, v) = Types
    BY KnownVars DEF GetTypeset
  <2> QED BY <2>1, LikeIs
<1> QED BY <1>3, <1>5, <1>6, <1>7, <1>8, MeaningBelow, SMTT(60)

-----------------------------------------------------------------------------
(***************************************************************************)
(* The operations on abstract states, bottom among them.                   *)
(***************************************************************************)
LEMMA AssignEach ==
    ASSUME NEW d, DomOK(d), NEW v \in Vars, NEW n
    PROVE  Means(UNION {AssignConstant(s, v, n) : s \in d},
                 IF n \in Types THEN {[f EXCEPT ![v] = n] : f \in Gamma(d)} ELSE {})
<1> DEFINE S(G) == IF n \in Types THEN {[f EXCEPT ![v] = n] : f \in G} ELSE {}
<1>1. CASE d = {}
  <2>1. UNION {AssignConstant(s, v, n) : s \in d} = {} /\ S(Gamma(d)) = {}
    BY <1>1 DEF Gamma
  <2> QED BY <2>1, MeansIs
<1>2. ASSUME NEW s, StateOK(s), d = {s}
      PROVE  Means(UNION {AssignConstant(x, v, n) : x \in d}, S(Gamma(d)))
  <2>1. UNION {AssignConstant(x, v, n) : x \in d} = AssignConstant(s, v, n) /\ Gamma(d) = Meaning(s)
    BY <1>2, GammaIs
  <2>2. Means(AssignConstant(s, v, n), S(Meaning(s)))
    BY <1>2, AssignTypeIs
  <2> HIDE DEF S
  <2> QED BY ONLY <2>1, <2>2
<1> QED BY <1>1, <1>2 DEF DomOK

LEMMA RemoveEach ==
    ASSUME NEW d, DomOK(d), NEW v \in Vars, NEW t \in Types
    PROVE  Means(UNION {RemoveType(s, v, t) : s \in d}, {f \in Gamma(d) : f[v] \in Types \ {t}})
<1> DEFINE S(G) == {f \in G : f[v] \in Types \ {t}}
<1>1. CASE d = {}
  <2>1. UNION {RemoveType(s, v, t) : s \in d} = {} /\ S(Gamma(d)) = {}
    BY <1>1 DEF Gamma
  <2> QED BY <2>1, MeansIs
<1>2. ASSUME NEW s, StateOK(s), d = {s}
      PROVE  Means(UNION {RemoveType(x, v, t) : x \in d}, S(Gamma(d)))
  <2>1. UNION {RemoveType(x, v, t) : x \in d} = RemoveType(s, v, t) /\ Gamma(d) = Meaning(s)
    BY <1>2, GammaIs
  <2>2. Means(RemoveType(s, v, t), {f \in Meaning(s) : f[v] # t})
    BY <1>2, RemoveIs
  <2>3. {f \in Meaning(s) : f[v] # t} = S(Meaning(s))
    BY DEF Meaning, Valuations
  <2> HIDE DEF S
  <2> QED BY ONLY <2>1, <2>2, <2>3
<1> QED BY <1>1, <1>2 DEF DomOK

LEMMA HavocEach ==
    ASSUME NEW d, DomOK(d), NEW v \in Vars
    PROVE  Means({Detach(s, v) : s \in d}, {[f EXCEPT ![v] = t] : f \in Gamma(d), t \in Types})
<1> DEFINE S(G) == {[f EXCEPT ![v] = t] : f \in G, t \in Types}
<1>1. CASE d = {}
  <2>1. {Detach(s, v) : s \in d} = {} /\ S(Gamma(d)) = {}
    BY <1>1 DEF Gamma
  <2> QED BY <2>1, MeansIs
<1>2. ASSUME NEW s, StateOK(s), d = {s}
      PROVE  Means({Detach(x, v) : x \in d}, S(Gamma(d)))
  <2>1. {Detach(x, v) : x \in d} = {Detach(s, v)} /\ Gamma(d) = Meaning(s)
    BY <1>2, GammaIs
  <2>2. StateOK(Detach(s, v)) /\ Meaning(Detach(s, v)) = S(Meaning(s))
    BY <1>2, HavocIs
  <2> HIDE DEF S
  <2> QED BY <2>1, <2>2, MeansIs
<1> QED BY <1>1, <1>2 DEF DomOK

\* Copying a register to itself changes nothing.
LEMMA CopyEach ==
    ASSUME NEW d, DomOK(d), NEW v \in Vars, NEW w \in Vars
    PROVE  Means(IF v = w THEN d ELSE {AssignTypeVar(s, v, w) : s \in d},
                 {[f EXCEPT ![v] = f[w]] : f \in Gamma(d)})
<1> DEFINE S(G) == {[f EXCEPT ![v] = f[w]] : f \in G}
           d2 == IF v = w THEN d ELSE {AssignTypeVar(s, v, w) : s \in d}
<1>1. CASE d = {}
  <2>1. d2 = {} /\ S(Gamma(d)) = {}
    BY <1>1 DEF Gamma
  <2> QED BY <2>1, MeansIs
<1>2. ASSUME NEW s, StateOK(s), d = {s}
      PROVE  Means(d2, S(Gamma(d)))
  <2>1. Gamma(d) = Meaning(s)
    BY <1>2, GammaIs
  <2>2. CASE v = w
    <3>1. \A f \in Meaning(s) : [f EXCEPT ![v] = f[w]] = f
      BY <2>2 DEF Meaning, Valuations
    <3>2. S(Meaning(s)) = Meaning(s)
      BY <3>1
    <3> HIDE DEF S
    <3> QED BY <1>2, <2>1, <2>2, <3>2, MeansIs, SMTT(60)
  <2>3. CASE v # w
    <3>1. d2 = {AssignTypeVar(s, v, w)}
      BY <1>2, <2>3
    <3>2. StateOK(AssignTypeVar(s, v, w)) /\ Meaning(AssignTypeVar(s, v, w)) = S(Meaning(s))
      BY <1>2, <2>3, CopyIs
    <3> HIDE DEF S, d2
    <3> QED BY <2>1, <3>1, <3>2, MeansIs
  <2> QED BY <2>2, <2>3
<1> QED BY <1>1, <1>2 DEF DomOK

LEMMA RestoreEach ==
    ASSUME NEW d, DomOK(d), NEW from \in Vars, NEW to \in Vars
    PROVE  Means({RestoreRegister(s, <<from, to>>) : s \in d}, Restored(Gamma(d), from, to))
<1>1. CASE d = {}
  <2>1. {RestoreRegister(s, <<from, to>>) : s \in d} = {} /\ Restored(Gamma(d), from, to) = {}
    BY <1>1 DEF Gamma, Restored
  <2> QED BY <2>1, MeansIs
<1>2. ASSUME NEW s, StateOK(s), d = {s}
      PROVE  Means({RestoreRegister(x, <<from, to>>) : x \in d}, Restored(Gamma(d), from, to))
  <2>1. {RestoreRegister(x, <<from, to>>) : x \in d} = {RestoreRegister(s, <<from, to>>)}
        /\ Gamma(d) = Meaning(s)
    BY <1>2, GammaIs
  <2> QED BY <1>2, <2>1, RestoreIs, MeansIs, SMTT(60)
<1> QED BY <1>1, <1>2 DEF DomOK

LEMMA JoinMeans ==
    ASSUME NEW d, DomOK(d), NEW e, DomOK(e)
    PROVE  Means(Join(d, e), Abstract!Best(Gamma(d) \cup Gamma(e)))
<1>1. CASE d = {} /\ e = {}
  <2>1. Join(d, e) = {} /\ Gamma(d) \cup Gamma(e) = {}
    BY <1>1 DEF Join, Gamma
  <2>2. Abstract!Best({}) = {}
    BY TypeVarsAssumption DEF Abstract!Best
  <2> QED BY <2>1, <2>2, MeansIs
<1>2. ASSUME NEW s, StateOK(s), d = {s}, e = {}
      PROVE  Means(Join(d, e), Abstract!Best(Gamma(d) \cup Gamma(e)))
  <2>1. Gamma({s}) = Meaning(s) /\ Gamma({}) = {} /\ {s} # {}
    BY <1>2, GammaIs DEF Gamma
  <2>2. Join(d, e) = {s}
    BY <1>2, <2>1 DEF Join
  <2>3. Gamma(d) \cup Gamma(e) = Meaning(s)
    BY <1>2, <2>1
  <2> QED BY <1>2, <2>2, <2>3, MeaningIsBest, MeansIs, ZenonT(60)
<1>3. ASSUME NEW s, StateOK(s), e = {s}, d = {}
      PROVE  Means(Join(d, e), Abstract!Best(Gamma(d) \cup Gamma(e)))
  <2>1. Gamma({s}) = Meaning(s) /\ Gamma({}) = {} /\ {s} # {}
    BY <1>3, GammaIs DEF Gamma
  <2>2. Join(d, e) = {s}
    BY <1>3, <2>1 DEF Join
  <2>3. Gamma(d) \cup Gamma(e) = Meaning(s)
    BY <1>3, <2>1
  <2> QED BY <1>3, <2>2, <2>3, MeaningIsBest, MeansIs, ZenonT(60)
<1>4. ASSUME NEW a, StateOK(a), d = {a}, NEW b, StateOK(b), e = {b}
      PROVE  Means(Join(d, e), Abstract!Best(Gamma(d) \cup Gamma(e)))
  <2>1. Join(d, e) = {JoinStates(a, b)} /\ Gamma(d) = Meaning(a) /\ Gamma(e) = Meaning(b)
    BY <1>4, GammaIs DEF Join
  <2> QED BY <1>4, <2>1, JoinIs, MeansIs, SMTT(60)
<1> QED BY <1>1, <1>2, <1>3, <1>4 DEF DomOK

LEMMA MeetMeans ==
    ASSUME NEW d, DomOK(d), NEW e, DomOK(e)
    PROVE  Means(Meet(d, e), Gamma(d) \cap Gamma(e))
<1>1. CASE d = {} \/ e = {}
  <2>1. Meet(d, e) = {} /\ Gamma(d) \cap Gamma(e) = {}
    BY <1>1 DEF Meet, Gamma
  <2> QED BY <2>1, MeansIs
<1>2. ASSUME NEW a, StateOK(a), d = {a}, NEW b, StateOK(b), e = {b}
      PROVE  Means(Meet(d, e), Gamma(d) \cap Gamma(e))
  <2>1. Meet(d, e) = MeetStates(a, b) /\ Gamma(d) = Meaning(a) /\ Gamma(e) = Meaning(b)
    BY <1>2, GammaIs DEF Meet
  <2> QED BY <1>2, <2>1, MeetIs
<1> QED BY <1>1, <1>2 DEF DomOK

-----------------------------------------------------------------------------
(***************************************************************************)
(* The machine.  Its invariant: each abstract state is bottom or one sound *)
(* state.                                                                  *)
(***************************************************************************)
TInv ==
    /\ ops \in 0 .. MaxOps
    /\ dom = [r \in {1, 2} |-> dom[r]]
    /\ \A r \in {1, 2} : DomOK(dom[r])

\* Every step replaces one abstract state by one that means what the abstract
\* specification says.
LEMMA StepIs ==
    ASSUME TInv, NEW r \in {1, 2}, NEW label, NEW new, Step(r, label, new), NEW S, Means(new, S)
    PROVE  TInv' /\ Abstract!Becomes(r, label, S)
<1>1. ops' \in 0 .. MaxOps
  BY OpsAssumption DEF TInv, Step
<1>2. /\ dom' = [q \in {1, 2} |-> dom'[q]]
      /\ \A q \in {1, 2} : dom'[q] = IF q = r THEN new ELSE dom[q]
  BY DEF TInv, Step
<1>3. TInv'
  BY <1>1, <1>2 DEF TInv, Means
<1>4. [q \in {1, 2} |-> Gamma(dom'[q])] = [[q \in {1, 2} |-> Gamma(dom[q])] EXCEPT ![r] = S]
  BY <1>2 DEF Means
<1>5. \A q \in {1, 2} : Gamma(dom[q])' = Gamma(dom'[q])
  BY DEF Gamma
<1>6. last' = label
  BY DEF Step
<1> QED BY <1>3, <1>4, <1>5, <1>6 DEF Abstract!Becomes

LEMMA InitIs == Init => TInv /\ Abstract!Init
<1> SUFFICES ASSUME Init PROVE TInv /\ Abstract!Init
  OBVIOUS
<1>1. \A r \in {1, 2} : dom[r] = {Top} /\ DomOK(dom[r]) /\ Gamma(dom[r]) = Valuations
  BY TopIs, GammaIs DEF Init, DomOK
<1>2. dom = [r \in {1, 2} |-> dom[r]]
  BY DEF Init
<1>3. ops \in 0 .. MaxOps /\ last = <<"none">>
  BY OpsAssumption DEF Init
<1>4. TInv
  BY <1>1, <1>2, <1>3 DEF TInv
<1>5. [r \in {1, 2} |-> Gamma(dom[r])] = [r \in {1, 2} |-> Valuations]
  BY <1>1
<1> QED BY <1>3, <1>4, <1>5 DEF Abstract!Init, Abstract!Valuations, Valuations

\* What the operations on one state mean, one lemma per action.
LEMMA AssignTypeStep ==
    ASSUME TInv, NEW r \in {1, 2}, DoAssignType(r)
    PROVE  TInv' /\ Abstract!AssignType(r)
<1>1. PICK v \in Vars, t \in Types \cup {0} :
          Step(r, <<"type", r, v, t>>, UNION {AssignConstant(s, v, t) : s \in dom[r]})
  BY DEF DoAssignType, Each
<1>2. DomOK(dom[r])
  BY DEF TInv
<1>3. Means(UNION {AssignConstant(s, v, t) : s \in dom[r]},
            IF t \in Types THEN {[f EXCEPT ![v] = t] : f \in Gamma(dom[r])} ELSE {})
  BY <1>2, AssignEach, ZenonT(60)
<1>4. /\ TInv'
      /\ Abstract!Becomes(r, <<"type", r, v, t>>,
             IF t \in Types THEN {[f EXCEPT ![v] = t] : f \in Gamma(dom[r])} ELSE {})
  BY <1>1, <1>3, StepIs
<1> QED BY <1>4 DEF Abstract!AssignType

LEMMA CopyStep ==
    ASSUME TInv, NEW r \in {1, 2}, DoCopy(r)
    PROVE  TInv' /\ Abstract!Copy(r)
<1>1. PICK v \in Vars, w \in Vars :
          Step(r, <<"copy", r, v, w>>, IF v = w THEN dom[r] ELSE {AssignTypeVar(s, v, w) : s \in dom[r]})
  BY DEF DoCopy, Each
<1>2. DomOK(dom[r])
  BY DEF TInv
<1>3. Means(IF v = w THEN dom[r] ELSE {AssignTypeVar(s, v, w) : s \in dom[r]},
            {[f EXCEPT ![v] = f[w]] : f \in Gamma(dom[r])})
  BY <1>2, CopyEach, ZenonT(60)
<1>4. /\ TInv'
      /\ Abstract!Becomes(r, <<"copy", r, v, w>>, {[f EXCEPT ![v] = f[w]] : f \in Gamma(dom[r])})
  BY <1>1, <1>3, StepIs
<1> QED BY <1>4 DEF Abstract!Copy

LEMMA HavocStep ==
    ASSUME TInv, NEW r \in {1, 2}, DoHavoc(r)
    PROVE  TInv' /\ Abstract!Havoc(r)
<1>1. PICK v \in Vars : Step(r, <<"havoc", r, v>>, {Detach(s, v) : s \in dom[r]})
  BY DEF DoHavoc, Each
<1>2. DomOK(dom[r])
  BY DEF TInv
<1>3. Means({Detach(s, v) : s \in dom[r]}, {[f EXCEPT ![v] = t] : f \in Gamma(dom[r]), t \in Types})
  BY <1>2, HavocEach
<1>4. /\ TInv'
      /\ Abstract!Becomes(r, <<"havoc", r, v>>,
             {[f EXCEPT ![v] = t] : f \in Gamma(dom[r]), t \in Types})
  BY <1>1, <1>3, StepIs
<1> QED BY <1>4, SMTT(60) DEF Abstract!Havoc

LEMMA RestrictStep ==
    ASSUME TInv, NEW r \in {1, 2}, DoRestrict(r)
    PROVE  TInv' /\ Abstract!Restrict(r)
<1>1. PICK v \in Vars, m \in Masks :
          Step(r, <<"restrict", r, v, m>>, UNION {RestrictTo(s, v, m) : s \in dom[r]})
  BY DEF DoRestrict, Each
<1>2. DomOK(dom[r]) /\ m \in SUBSET Types
  BY MasksAssumption DEF TInv
<1>3. Means(UNION {RestrictTo(s, v, m) : s \in dom[r]}, {f \in Gamma(dom[r]) : f[v] \in m})
  BY <1>2, RestrictEach
<1>4. TInv' /\ Abstract!Becomes(r, <<"restrict", r, v, m>>, {f \in Gamma(dom[r]) : f[v] \in m})
  BY <1>1, <1>3, StepIs
<1> QED BY <1>2, <1>4 DEF Abstract!Restrict

LEMMA RemoveStep ==
    ASSUME TInv, NEW r \in {1, 2}, DoRemove(r)
    PROVE  TInv' /\ Abstract!Restrict(r)
<1>1. PICK v \in Vars, t \in Types :
          Step(r, <<"restrict", r, v, Types \ {t}>>, UNION {RemoveType(s, v, t) : s \in dom[r]})
  BY DEF DoRemove, Each
<1>2. DomOK(dom[r]) /\ Types \ {t} \in SUBSET Types
  BY DEF TInv
<1>3. Means(UNION {RemoveType(s, v, t) : s \in dom[r]},
            {f \in Gamma(dom[r]) : f[v] \in Types \ {t}})
  BY <1>2, RemoveEach
<1>4. /\ TInv'
      /\ Abstract!Becomes(r, <<"restrict", r, v, Types \ {t}>>,
             {f \in Gamma(dom[r]) : f[v] \in Types \ {t}})
  BY <1>1, <1>3, StepIs, SMTT(60)
<1> QED BY <1>2, <1>4 DEF Abstract!Restrict

LEMMA AssumeEqStep ==
    ASSUME TInv, NEW r \in {1, 2}, DoAssumeEq(r)
    PROVE  TInv' /\ Abstract!AssumeEq(r)
<1>1. PICK v \in Vars, w \in Vars :
          Step(r, <<"equal", r, v, w>>, UNION {AssumeEq(s, v, w) : s \in dom[r]})
  BY DEF DoAssumeEq, Each
<1>2. DomOK(dom[r])
  BY DEF TInv
<1>3. Means(UNION {AssumeEq(s, v, w) : s \in dom[r]}, {f \in Gamma(dom[r]) : f[v] = f[w]})
  BY <1>2, AssumeEach
<1>4. TInv' /\ Abstract!Becomes(r, <<"equal", r, v, w>>, {f \in Gamma(dom[r]) : f[v] = f[w]})
  BY <1>1, <1>3, StepIs
<1> QED BY <1>4 DEF Abstract!AssumeEq

LEMMA RestoreStep ==
    ASSUME TInv, NEW r \in {1, 2}, DoRestore(r)
    PROVE  TInv' /\ Abstract!Restore(r)
<1>1. PICK pair \in Renamings :
          Step(r, <<"restore", r, pair>>, {RestoreRegister(s, pair) : s \in dom[r]})
  BY DEF DoRestore, Each
<1>2. PICK x \in Vars, y \in Vars : pair = <<x, y>>
  BY MasksAssumption
<1>3. DomOK(dom[r])
  BY DEF TInv
<1>4. Means({RestoreRegister(s, <<x, y>>) : s \in dom[r]}, Restored(Gamma(dom[r]), x, y))
  BY <1>3, RestoreEach
<1>5. TInv' /\ Abstract!Becomes(r, <<"restore", r, <<x, y>>>>, Restored(Gamma(dom[r]), x, y))
  BY <1>1, <1>2, <1>4, StepIs, SMTT(60)
<1>6. [q \in {1, 2} |-> Gamma(dom[q])][r] = Gamma(dom[r])
  OBVIOUS
<1>7. Restored(Gamma(dom[r]), x, y) = Abstract!Restored(Gamma(dom[r]), x, y)
  BY DEF Restored, Abstract!Restored
<1>8. Abstract!Becomes(r, <<"restore", r, <<x, y>>>>,
                       Abstract!Restored([q \in {1, 2} |-> Gamma(dom[q])][r], x, y))
  BY <1>5, <1>6, <1>7
<1>9. Abstract!Restore(r)
  BY <1>8 DEF Abstract!Restore
<1> QED BY <1>5, <1>9

LEMMA LatticeStep ==
    ASSUME TInv
    PROVE  /\ \A r \in {1, 2} : DoSetToTop(r) => TInv' /\ Abstract!SetToTop(r)
           /\ DoClone => TInv' /\ Abstract!Clone
           /\ DoJoin => TInv' /\ Abstract!Join
           /\ DoMeet => TInv' /\ Abstract!Meet
<1>1. DomOK(dom[1]) /\ DomOK(dom[2]) /\ 1 \in {1, 2} /\ 2 \in {1, 2}
  BY DEF TInv
<1>2. ASSUME NEW r \in {1, 2}, DoSetToTop(r)
      PROVE  TInv' /\ Abstract!SetToTop(r)
  <2>1. Means({Top}, Valuations)
    BY TopIs, MeansIs
  <2>2. TInv' /\ Abstract!Becomes(r, <<"top", r>>, Valuations)
    BY <1>2, <2>1, StepIs DEF DoSetToTop
  <2> QED BY <2>2 DEF Abstract!SetToTop, Abstract!Valuations, Valuations
<1>3. ASSUME DoClone
      PROVE  TInv' /\ Abstract!Clone
  <2>1. Means(dom[1], Gamma(dom[1]))
    BY <1>1 DEF Means
  <2>2. TInv' /\ Abstract!Becomes(2, <<"clone">>, Gamma(dom[1]))
    BY <1>1, <1>3, <2>1, StepIs DEF DoClone
  <2> QED BY <2>2 DEF Abstract!Clone
<1>4. ASSUME DoJoin
      PROVE  TInv' /\ Abstract!Join
  <2>1. Means(Join(dom[1], dom[2]), Abstract!Best(Gamma(dom[1]) \cup Gamma(dom[2])))
    BY <1>1, JoinMeans
  <2>2. TInv' /\ Abstract!Becomes(1, <<"join">>, Abstract!Best(Gamma(dom[1]) \cup Gamma(dom[2])))
    BY <1>1, <1>4, <2>1, StepIs, SMTT(60) DEF DoJoin
  <2> QED BY <2>2 DEF Abstract!Join
<1>5. ASSUME DoMeet
      PROVE  TInv' /\ Abstract!Meet
  <2>1. Means(Meet(dom[1], dom[2]), Gamma(dom[1]) \cap Gamma(dom[2]))
    BY <1>1, MeetMeans
  <2>2. TInv' /\ Abstract!Becomes(1, <<"meet">>, Gamma(dom[1]) \cap Gamma(dom[2]))
    BY <1>1, <1>5, <2>1, StepIs DEF DoMeet
  <2> QED BY <2>2 DEF Abstract!Meet
<1> QED BY <1>2, <1>3, <1>4, <1>5, SMTT(60)

LEMMA NextIs ==
    TInv /\ [Next]_vars => TInv' /\ [Abstract!Next]_<<[r \in {1, 2} |-> Gamma(dom[r])], last>>
<1> SUFFICES ASSUME TInv, [Next]_vars
             PROVE  TInv' /\ [Abstract!Next]_<<[r \in {1, 2} |-> Gamma(dom[r])], last>>
  OBVIOUS
<1>1. ASSUME NEW r \in {1, 2},
             DoAssignType(r) \/ DoCopy(r) \/ DoHavoc(r) \/ DoRestrict(r) \/ DoRemove(r)
             \/ DoAssumeEq(r) \/ DoRestore(r) \/ DoSetToTop(r)
      PROVE  TInv' /\ Abstract!Next
  BY <1>1, AssignTypeStep, CopyStep, HavocStep, RestrictStep, RemoveStep, AssumeEqStep,
     RestoreStep, LatticeStep, SMTT(60) DEF Abstract!Next
<1>2. CASE DoClone \/ DoJoin \/ DoMeet
  BY <1>2, LatticeStep DEF Abstract!Next
<1>3. CASE UNCHANGED vars
  <2>1. TInv'
    BY <1>3 DEF TInv, vars, DomOK
  <2>2. UNCHANGED <<[r \in {1, 2} |-> Gamma(dom[r])], last>>
    BY <1>3 DEF vars, Gamma
  <2> QED BY <2>1, <2>2
<1> QED BY <1>1, <1>2, <1>3 DEF Next

-----------------------------------------------------------------------------
(***************************************************************************)
(* What the invariant says of the representation and of the answers.       *)
(***************************************************************************)
LEMMA StateRepresents ==
    ASSUME NEW s, StateOK(s)
    PROVE  /\ Known(s) \subseteq Vars
           /\ \A i \in DOMAIN s.rep : s.rep[i] \in DOMAIN s.rep /\ s.rep[s.rep[i]] = s.rep[i]
           /\ Len(s.rank) = Size(s) /\ Len(s.types) = Size(s) /\ Len(s.idv) = Size(s)
           /\ \A v \in Known(s) : s.idv[s.vid[v]] = v
           /\ \A i \in DOMAIN s.idv : s.idv[i] # NoVar => s.idv[i] \in Known(s) /\ s.vid[s.idv[i]] = i
           /\ \A t \in Types : TypesAt(s, t) = {t}
           /\ \A v \in Known(s), t \in Types :
                 TypesAt(s, s.vid[v]) = {t} => s.rep[s.vid[v]] = s.rep[t]
<1>1. s \in State /\ Lengths(s)
  BY DEF StateOK, Forest
<1>2. DOMAIN s.rep = Elements(s) /\ DOMAIN s.idv = Elements(s) /\ Known(s) \subseteq Vars
  BY <1>1, StateParts DEF Elements, Size, Lengths
<1> QED BY <1>1, <1>2 DEF StateOK, Forest, Names, Merged, Lengths

LEMMA InvRepresents == TInv => RepresentationOK
<1> SUFFICES ASSUME TInv PROVE RepresentationOK
  OBVIOUS
<1>1. \A r \in {1, 2} : \A s \in dom[r] : StateOK(s)
  BY DEF TInv, DomOK
<1>2. \A r \in {1, 2} : Cardinality(dom[r]) <= 1
  <2> SUFFICES ASSUME NEW r \in {1, 2} PROVE Cardinality(dom[r]) <= 1
    OBVIOUS
  <2>1. CASE dom[r] = {}
    BY <2>1, FS_EmptySet
  <2>2. CASE \E s : dom[r] = {s}
    BY <2>2, FS_Singleton, SMTT(60)
  <2> QED BY <2>1, <2>2 DEF TInv, DomOK
<1>3. TypeOK
  BY <1>1, <1>2, StateRepresents DEF TypeOK, TInv
<1>4. IdsMatch
  BY <1>1, StateRepresents, SMTT(60) DEF IdsMatch
<1>5. SingletonsMerged
  BY <1>1, StateRepresents DEF SingletonsMerged
<1> QED BY <1>3, <1>4, <1>5 DEF RepresentationOK

\* A set of types that is read off a state, or off bottom.
LEMMA TypesetEach ==
    ASSUME NEW d, DomOK(d), NEW v \in Vars
    PROVE  /\ \A C : (\A s \in d : GetTypeset(s, v) \subseteq C) <=> \A f \in Gamma(d) : f[v] \in C
           /\ \A t : (\A s \in d : GetTypeset(s, v) = {t}) <=> \A f \in Gamma(d) : f[v] = t
<1>1. CASE d = {}
  BY <1>1 DEF Gamma
<1>2. ASSUME NEW s, StateOK(s), d = {s}
      PROVE  /\ \A C : (\A x \in d : GetTypeset(x, v) \subseteq C) <=> \A f \in Gamma(d) : f[v] \in C
             /\ \A t : (\A x \in d : GetTypeset(x, v) = {t}) <=> \A f \in Gamma(d) : f[v] = t
  <2>1. Gamma(d) = Meaning(s)
    BY <1>2, GammaIs
  <2>2. \A t : t \in GetTypeset(s, v) <=> \E f \in Gamma(d) : f[v] = t
    BY <1>2, <2>1, TypesetIs
  <2>3. PICK f \in Gamma(d) : TRUE
    BY <1>2, <2>1, TypesetIs
  <2>4. \A C : GetTypeset(s, v) \subseteq C <=> \A g \in Gamma(d) : g[v] \in C
    BY <2>2
  <2>5. \A t : GetTypeset(s, v) = {t} <=> \A g \in Gamma(d) : g[v] = t
    BY <2>2, <2>3
  <2> QED BY <1>2, <2>4, <2>5
<1> QED BY <1>1, <1>2 DEF DomOK

LEMMA SameTypeIs ==
    ASSUME NEW d, DomOK(d), NEW v \in Vars, NEW w \in Vars, v # w
    PROVE  SameType(d, v, w) <=> \A f \in Gamma(d) : f[v] = f[w]
<1>1. CASE d = {}
  BY <1>1 DEF Gamma, SameType
<1>2. ASSUME NEW s, StateOK(s), d = {s}
      PROVE  SameType(d, v, w) <=> \A f \in Gamma(d) : f[v] = f[w]
  <2>1. Gamma(d) = Meaning(s)
    BY <1>2, GammaIs
  <2>2. Like(s, v, w) <=> \A f \in Gamma(d) : f[v] = f[w]
    BY <1>2, <2>1, EqualIs
  <2> QED BY <1>2, <2>2 DEF SameType, Like
<1> QED BY <1>1, <1>2 DEF DomOK

\* An implication between types is asked of the state that assumes its premise.
LEMMA ImpliesIs ==
    ASSUME NEW d, DomOK(d), NEW v \in Vars, NEW w \in Vars, NEW C
    PROVE  /\ \A m \in SUBSET Types :
                 ImpliesSuperset(d, v, m, w, C) <=> \A f \in Gamma(d) : f[v] \in m => f[w] \in C
           /\ \A t \in Types :
                 ImpliesNotType(d, v, t, w, C) <=> \A f \in Gamma(d) : f[v] # t => f[w] \in C
<1>1. ASSUME NEW m \in SUBSET Types
      PROVE  ImpliesSuperset(d, v, m, w, C) <=> \A f \in Gamma(d) : f[v] \in m => f[w] \in C
  <2> DEFINE e == UNION {RestrictTo(s, v, m) : s \in d}
  <2>1. DomOK(e) /\ Gamma(e) = {f \in Gamma(d) : f[v] \in m}
    BY RestrictEach, SMTT(60) DEF Means
  <2>2. ImpliesSuperset(d, v, m, w, C) <=> \A s \in e : GetTypeset(s, w) \subseteq C
    BY DEF ImpliesSuperset
  <2> HIDE DEF e
  <2>3. (\A s \in e : GetTypeset(s, w) \subseteq C) <=> \A f \in Gamma(e) : f[w] \in C
    BY <2>1, TypesetEach
  <2> QED BY <2>1, <2>2, <2>3
<1>2. ASSUME NEW t \in Types
      PROVE  ImpliesNotType(d, v, t, w, C) <=> \A f \in Gamma(d) : f[v] # t => f[w] \in C
  <2> DEFINE e == UNION {RemoveType(s, v, t) : s \in d}
  <2>1. DomOK(e) /\ Gamma(e) = {f \in Gamma(d) : f[v] \in Types \ {t}}
    BY RemoveEach DEF Means
  <2>2. ImpliesNotType(d, v, t, w, C) <=> \A s \in e : GetTypeset(s, w) \subseteq C
    BY DEF ImpliesNotType
  <2>3. \A f \in Gamma(d) : f[v] \in Types
    BY DEF Gamma
  <2> HIDE DEF e
  <2>4. (\A s \in e : GetTypeset(s, w) \subseteq C) <=> \A f \in Gamma(e) : f[w] \in C
    BY <2>1, TypesetEach
  <2> QED BY <2>1, <2>2, <2>3, <2>4
<1> QED BY <1>1, <1>2

LEMMA InvAnswers == TInv => AnswersExact
<1> SUFFICES ASSUME TInv PROVE AnswersExact
  OBVIOUS
<1> DEFINE G == Gamma(dom[1])
<1>1. DomOK(dom[1]) /\ DomOK(dom[2])
  BY DEF TInv
<1>2. ASSUME NEW v \in Vars, NEW w \in Vars
      PROVE  /\ \A t \in Types : EntailType(dom[1], v, t) <=> \A p \in {<<f[v], f[w]>> : f \in G} : p[1] = t
             /\ v # w => (SameType(dom[1], v, w) <=> \A p \in {<<f[v], f[w]>> : f \in G} : p[1] = p[2])
             /\ \A m, c \in Masks : ImpliesSuperset(dom[1], v, m, w, c)
                    <=> \A p \in {<<f[v], f[w]>> : f \in G} : p[1] \in m => p[2] \in c
             /\ \A t \in Types, c \in Masks : ImpliesNotType(dom[1], v, t, w, c)
                    <=> \A p \in {<<f[v], f[w]>> : f \in G} : p[1] # t => p[2] \in c
  <2> DEFINE P == {<<f[v], f[w]>> : f \in G}
  <2>0. /\ \A f \in G : \E p \in P : p[1] = f[v] /\ p[2] = f[w]
        /\ \A p \in P : \E f \in G : p[1] = f[v] /\ p[2] = f[w]
    <3> HIDE DEF G
    <3>1. ASSUME NEW f \in G PROVE \E p \in P : p[1] = f[v] /\ p[2] = f[w]
      <4> DEFINE p == <<f[v], f[w]>>
      <4>1. p[1] = f[v] /\ p[2] = f[w]
        OBVIOUS
      <4>2. p \in P
        OBVIOUS
      <4> HIDE DEF p, P
      <4> QED BY <4>1, <4>2
    <3>2. ASSUME NEW p \in P PROVE \E f \in G : p[1] = f[v] /\ p[2] = f[w]
      <4>1. PICK f \in G : p = <<f[v], f[w]>>
        OBVIOUS
      <4>2. p[1] = f[v] /\ p[2] = f[w]
        BY <4>1
      <4> HIDE DEF P
      <4> QED BY <4>2
    <3> HIDE DEF P
    <3> QED BY <3>1, <3>2
  <2> HIDE DEF P, G
  <2>1. \A t : (\A f \in G : f[v] = t) <=> \A p \in P : p[1] = t
    BY <2>0
  <2>2. (\A f \in G : f[v] = f[w]) <=> \A p \in P : p[1] = p[2]
    BY <2>0
  <2>3. \A m, c : (\A f \in G : f[v] \in m => f[w] \in c) <=> \A p \in P : p[1] \in m => p[2] \in c
    BY <2>0
  <2>4. \A t, c : (\A f \in G : f[v] # t => f[w] \in c) <=> \A p \in P : p[1] # t => p[2] \in c
    BY <2>0
  <2>5. \A t \in Types : EntailType(dom[1], v, t) <=> \A f \in G : f[v] = t
    BY <1>1, TypesetEach, SMTT(60) DEF EntailType, G
  <2>6. v # w => (SameType(dom[1], v, w) <=> \A f \in G : f[v] = f[w])
    BY <1>1, SameTypeIs DEF G
  <2>7. \A m, c \in Masks : ImpliesSuperset(dom[1], v, m, w, c) <=> \A f \in G : f[v] \in m => f[w] \in c
    BY <1>1, ImpliesIs, MasksAssumption DEF G
  <2>8. \A t \in Types, c \in Masks : ImpliesNotType(dom[1], v, t, w, c) <=> \A f \in G : f[v] # t => f[w] \in c
    BY <1>1, ImpliesIs DEF G
  <2>9. \A t \in Types : EntailType(dom[1], v, t) <=> \A p \in P : p[1] = t
    BY <2>1, <2>5
  <2>10. v # w => (SameType(dom[1], v, w) <=> \A p \in P : p[1] = p[2])
    BY <2>2, <2>6
  <2>11. \A m, c \in Masks : ImpliesSuperset(dom[1], v, m, w, c) <=> \A p \in P : p[1] \in m => p[2] \in c
    BY <2>3, <2>7
  <2>12. \A t \in Types, c \in Masks : ImpliesNotType(dom[1], v, t, w, c) <=> \A p \in P : p[1] # t => p[2] \in c
    BY <2>4, <2>8
  <2> QED BY <2>9, <2>10, <2>11, <2>12 DEF P, G
<1>3. QueriesExact
  BY <1>2 DEF QueriesExact
<1>4. InclusionExactWhenKnown
  <2> SUFFICES ASSUME NEW a \in dom[1], NEW b \in dom[2], Known(b) \subseteq Known(a)
               PROVE  IsIncludedIn({a}, {b}) <=> Gamma({a}) \subseteq Gamma({b})
    BY DEF InclusionExactWhenKnown
  <2>1. StateOK(a) /\ StateOK(b)
    BY <1>1 DEF DomOK
  <2>2. Gamma({a}) = Meaning(a) /\ Gamma({b}) = Meaning(b)
    BY <2>1, GammaIs
  <2>3. IsIncludedIn({a}, {b}) <=> Included(a, b)
    BY DEF IsIncludedIn
  <2>4. Included(a, b) <=> Meaning(a) \subseteq Meaning(b)
    BY <2>1, IncludedIs
  <2> QED BY <2>2, <2>3, <2>4
<1> QED BY <1>3, <1>4 DEF AnswersExact

-----------------------------------------------------------------------------
LEMMA Invariance == Spec => []TInv
<1>1. Init => TInv
  BY InitIs
<1>2. TInv /\ [Next]_vars => TInv'
  BY NextIs
<1> QED BY <1>1, <1>2, PTL DEF Spec

(***************************************************************************)
(* In every state the type domain reaches, the disjoint-set forest is flat *)
(* at its representatives, its two variable maps are inverse to each other *)
(* and a class with one type is the class of that type's sentinel, however *)
(* many types, variables and operations there are.                         *)
(***************************************************************************)
THEOREM RepresentationAlways == Spec => []RepresentationOK
<1>1. TInv => RepresentationOK
  BY InvRepresents
<1> QED BY <1>1, Invariance, PTL

(***************************************************************************)
(* What the checker and the transformer ask of the types of registers is   *)
(* answered yes if and only if it holds in every valuation of the state,   *)
(* and inclusion between two states is exact when the left one has seen    *)
(* the variables of the right one.                                         *)
(***************************************************************************)
THEOREM AnswersExactAlways == Spec => []AnswersExact
<1>1. TInv => AnswersExact
  BY InvAnswers
<1> QED BY <1>1, Invariance, PTL

(***************************************************************************)
(* Every operation of the type domain does to the valuations its state     *)
(* stands for exactly what TypeValuations says: assignments, assumptions,  *)
(* renamings and meets are exact, bottom is found whenever there is no     *)
(* valuation left, and a join is the best one.                             *)
(***************************************************************************)
THEOREM DomainImplementsValuations == Spec => ImplementsTypeValuations
<1>1. Init => Abstract!Init
  BY InitIs
<1>2. TInv /\ [Next]_vars => [Abstract!Next]_<<[r \in {1, 2} |-> Gamma(dom[r])], last>>
  BY NextIs
<1> QED BY <1>1, <1>2, Invariance, PTL DEF Spec, ImplementsTypeValuations, Abstract!Spec

-----------------------------------------------------------------------------
(***************************************************************************)
(* The zone domain: graphs, and the valuations that satisfy them.          *)
(***************************************************************************)
\* A graph over the vertices V with integer weights, and a valuation of V.
IsGraph(g, V) == /\ g = [e \in DOMAIN g |-> g[e]]
                 /\ DOMAIN g \subseteq V \X V
                 /\ \A e \in DOMAIN g : g[e] \in Int

IsValuation(val, V) == val \in [V -> Int]

(***************************************************************************)
(* graph_join loses no valuation of either graph.                          *)
(***************************************************************************)
THEOREM JoinSound ==
    ASSUME NEW V, NEW l, NEW r, NEW val,
           IsGraph(l, V), IsGraph(r, V), IsValuation(val, V),
           Models(val, l) \/ Models(val, r)
    PROVE  Models(val, GraphJoin(l, r))
<1> SUFFICES ASSUME NEW e \in DOMAIN GraphJoin(l, r)
             PROVE  val[e[2]] - val[e[1]] <= GraphJoin(l, r)[e]
    BY DEF Models
<1>1. e \in DOMAIN l /\ e \in DOMAIN r
    BY DEF GraphJoin
<1>2. /\ l[e] \in Int /\ r[e] \in Int
      /\ val[e[2]] \in Int /\ val[e[1]] \in Int
    BY <1>1 DEF IsGraph, IsValuation
<1>3. val[e[2]] - val[e[1]] <= l[e] \/ val[e[2]] - val[e[1]] <= r[e]
    BY <1>1 DEF Models
<1>4. GraphJoin(l, r)[e] = IF l[e] < r[e] THEN r[e] ELSE l[e]
    BY <1>1 DEF GraphJoin
<1> QED  BY <1>2, <1>3, <1>4

(***************************************************************************)
(* The domain and the edges of a meet.                                     *)
(***************************************************************************)
LEMMA MeetEdges ==
    ASSUME NEW l, NEW r
    PROVE  /\ DOMAIN GraphMeet(l, r) = DOMAIN l \cup DOMAIN r
           /\ \A e \in DOMAIN GraphMeet(l, r) :
                 GraphMeet(l, r)[e] = IF e \in DOMAIN r /\ Improves(l, e, r[e])
                                      THEN r[e] ELSE l[e]
BY DEF GraphMeet, Improves

LEMMA MeetIsGraph ==
    ASSUME NEW V, NEW l, NEW r, IsGraph(l, V), IsGraph(r, V)
    PROVE  IsGraph(GraphMeet(l, r), V)
<1>1. GraphMeet(l, r) = [e \in DOMAIN GraphMeet(l, r) |-> GraphMeet(l, r)[e]]
    BY DEF GraphMeet
<1>2. DOMAIN GraphMeet(l, r) = DOMAIN l \cup DOMAIN r
    BY MeetEdges
<1>3. DOMAIN GraphMeet(l, r) \subseteq V \X V
    BY <1>2 DEF IsGraph
<1>4. ASSUME NEW e \in DOMAIN GraphMeet(l, r)
      PROVE  GraphMeet(l, r)[e] \in Int
  <2>1. CASE e \in DOMAIN r /\ Improves(l, e, r[e])
    <3>1. GraphMeet(l, r)[e] = r[e]
        BY <2>1, MeetEdges
    <3> QED  BY <2>1, <3>1 DEF IsGraph
  <2>2. CASE ~(e \in DOMAIN r /\ Improves(l, e, r[e]))
    <3>1. GraphMeet(l, r)[e] = l[e]
        BY <2>2, MeetEdges
    <3>2. e \in DOMAIN l
        BY <1>2, <2>2 DEF Improves
    <3> QED  BY <3>1, <3>2 DEF IsGraph
  <2> QED  BY <2>1, <2>2
<1> QED  BY <1>1, <1>3, <1>4 DEF IsGraph

(***************************************************************************)
(* graph_meet, relax and update_edge: the valuations of the result are     *)
(* exactly those that both graphs admit.                                   *)
(***************************************************************************)
THEOREM MeetExact ==
    ASSUME NEW V, NEW l, NEW r, NEW val,
           IsGraph(l, V), IsGraph(r, V), IsValuation(val, V)
    PROVE  Models(val, GraphMeet(l, r)) <=> Models(val, l) /\ Models(val, r)
<1> DEFINE m == GraphMeet(l, r)
           d(e) == val[e[2]] - val[e[1]]
<1>1. \A e \in DOMAIN l \cup DOMAIN r : d(e) \in Int
    BY DEF IsGraph, IsValuation
<1>2. \A e \in DOMAIN l : l[e] \in Int
    BY DEF IsGraph
<1>3. \A e \in DOMAIN r : r[e] \in Int
    BY DEF IsGraph
<1>4. DOMAIN m = DOMAIN l \cup DOMAIN r
    BY MeetEdges
<1>5. \A e \in DOMAIN m : m[e] = IF e \in DOMAIN r /\ (e \notin DOMAIN l \/ r[e] < l[e])
                                 THEN r[e] ELSE l[e]
    BY MeetEdges DEF Improves
<1>6. Models(val, m) <=> \A e \in DOMAIN m : d(e) <= m[e]
    BY DEF Models
<1>7. Models(val, l) <=> \A e \in DOMAIN l : d(e) <= l[e]
    BY DEF Models
<1>8. Models(val, r) <=> \A e \in DOMAIN r : d(e) <= r[e]
    BY DEF Models
<1> HIDE DEF m, d
<1>9. Models(val, m) => Models(val, l) /\ Models(val, r)
    BY <1>1, <1>2, <1>3, <1>4, <1>5, <1>6, <1>7, <1>8
<1>10. Models(val, l) /\ Models(val, r) => Models(val, m)
    BY <1>1, <1>2, <1>3, <1>4, <1>5, <1>6, <1>7, <1>8
<1> QED  BY <1>9, <1>10 DEF m

(***************************************************************************)
(* graph_widen loses no valuation of either graph.                         *)
(***************************************************************************)
THEOREM WidenSound ==
    ASSUME NEW V, NEW l, NEW r, NEW val,
           IsGraph(l, V), IsGraph(r, V), IsValuation(val, V),
           Models(val, l) \/ Models(val, r)
    PROVE  Models(val, GraphWiden(l, r))
<1> SUFFICES ASSUME NEW e \in DOMAIN GraphWiden(l, r)
             PROVE  val[e[2]] - val[e[1]] <= GraphWiden(l, r)[e]
    BY DEF Models
<1>1. e \in DOMAIN l /\ e \in DOMAIN r /\ r[e] <= l[e] /\ GraphWiden(l, r)[e] = l[e]
    BY DEF GraphWiden
<1>2. /\ l[e] \in Int /\ r[e] \in Int
      /\ val[e[2]] \in Int /\ val[e[1]] \in Int
    BY <1>1 DEF IsGraph, IsValuation
<1>3. val[e[2]] - val[e[1]] <= l[e] \/ val[e[2]] - val[e[1]] <= r[e]
    BY <1>1 DEF Models
<1> QED  BY <1>1, <1>2, <1>3

(***************************************************************************)
(* compute_deferred: a deferred relation follows from the bounds.          *)
(***************************************************************************)
THEOREM DeferredSound ==
    ASSUME NEW V, NEW bounds, NEW rel, NEW val,
           IsGraph(bounds, V), IsValuation(val, V), Models(val, bounds)
    PROVE  Models(val, ComputeDeferred(bounds, rel))
<1> SUFFICES ASSUME NEW e \in DOMAIN ComputeDeferred(bounds, rel)
             PROVE  val[e[2]] - val[e[1]] <= ComputeDeferred(bounds, rel)[e]
    BY DEF Models
<1>1. /\ <<e[1], 0>> \in DOMAIN bounds /\ <<0, e[2]>> \in DOMAIN bounds
      /\ ComputeDeferred(bounds, rel)[e] = bounds[<<e[1], 0>>] + bounds[<<0, e[2]>>]
    BY DEF ComputeDeferred, Elem
<1>2. /\ val[0] - val[e[1]] <= bounds[<<e[1], 0>>]
      /\ val[e[2]] - val[0] <= bounds[<<0, e[2]>>]
    BY <1>1 DEF Models
<1>3. /\ val[0] \in Int /\ val[e[1]] \in Int /\ val[e[2]] \in Int
      /\ bounds[<<e[1], 0>>] \in Int /\ bounds[<<0, e[2]>>] \in Int
    BY <1>1 DEF IsGraph, IsValuation
<1> QED  BY <1>1, <1>2, <1>3

(***************************************************************************)
(* is_subsumed_by: if it accepts, every valuation of g, read through the   *)
(* correspondence of vertices perm, satisfies og.  The fixpoint iterator   *)
(* takes a loop to be stable on the word of this test.                     *)
(***************************************************************************)
THEOREM SubsumptionSound ==
    ASSUME NEW V, NEW W, NEW g, NEW og, NEW perm \in [W -> V], NEW val,
           IsGraph(g, V), IsGraph(og, W), IsValuation(val, V), 0 \in V,
           IsSubsumedBy(g, og, perm), Models(val, g)
    PROVE  Models([v \in W |-> val[perm[v]]], og)
<1> SUFFICES ASSUME NEW e \in DOMAIN og
             PROVE  val[perm[e[2]]] - val[perm[e[1]]] <= og[e]
    BY DEF Models, IsGraph
<1> DEFINE x == perm[e[1]]
           y == perm[e[2]]
<1>1. /\ x \in V /\ y \in V
      /\ val[x] \in Int /\ val[y] \in Int /\ val[0] \in Int /\ og[e] \in Int
    BY DEF IsGraph, IsValuation
<1>2. Implied(g, x, y, og[e])
    BY DEF IsSubsumedBy
<1> HIDE DEF x, y
<1>3. CASE Elem(g, x, y) /\ g[<<x, y>>] <= og[e]
  <2>1. val[y] - val[x] <= g[<<x, y>>]
      BY <1>3 DEF Models, Elem
  <2>2. g[<<x, y>>] \in Int
      BY <1>3 DEF IsGraph, Elem
  <2> QED  BY <1>1, <1>3, <2>1, <2>2 DEF x, y
<1>4. CASE Elem(g, x, 0) /\ Elem(g, 0, y) /\ g[<<x, 0>>] + g[<<0, y>>] <= og[e]
  <2>1. val[0] - val[x] <= g[<<x, 0>>] /\ val[y] - val[0] <= g[<<0, y>>]
      BY <1>4 DEF Models, Elem
  <2>2. g[<<x, 0>>] \in Int /\ g[<<0, y>>] \in Int
      BY <1>4 DEF IsGraph, Elem
  <2> QED  BY <1>1, <1>4, <2>1, <2>2 DEF x, y
<1> QED  BY <1>2, <1>3, <1>4 DEF Implied

(***************************************************************************)
(* close_over_edge: closing over a new edge changes nothing of what the    *)
(* graph means; the edges it adds or tightens follow from the others.      *)
(***************************************************************************)
LEMMA TwoStep ==
    ASSUME NEW V, NEW g, NEW val, NEW a, NEW b, NEW c,
           IsGraph(g, V), IsValuation(val, V), Models(val, g),
           <<a, b>> \in DOMAIN g, <<b, c>> \in DOMAIN g
    PROVE  /\ a \in V /\ b \in V /\ c \in V
           /\ g[<<a, b>>] \in Int /\ g[<<b, c>>] \in Int
           /\ val[c] - val[a] <= g[<<a, b>>] + g[<<b, c>>]
<1>1. a \in V /\ b \in V /\ c \in V
    BY DEF IsGraph
<1>2. g[<<a, b>>] \in Int /\ g[<<b, c>>] \in Int
    BY DEF IsGraph
<1>3. val[b] - val[a] <= g[<<a, b>>] /\ val[c] - val[b] <= g[<<b, c>>]
    BY DEF Models
<1>4. val[a] \in Int /\ val[b] \in Int /\ val[c] \in Int
    BY <1>1 DEF IsValuation
<1> QED  BY <1>1, <1>2, <1>3, <1>4

THEOREM CloseOverEdgeExact ==
    ASSUME NEW V, NEW g, NEW val, NEW ii, NEW jj,
           IsGraph(g, V), IsValuation(val, V), <<ii, jj>> \in DOMAIN g
    PROVE  Models(val, CloseOverEdge(g, ii, jj)) <=> Models(val, g)
<1> DEFINE c    == g[<<ii, jj>>]
           src  == {s \in Preds(g, ii) \ {0, jj} : Improves(g, <<s, jj>>, g[<<s, ii>>] + c)}
           d1   == [e \in src \X {jj} |-> g[<<e[1], ii>>] + c]
           g1   == GraphMeet(g, d1)
           dest == {d \in Succs(g1, jj) \ {0, ii} : Improves(g1, <<ii, d>>, g1[<<jj, d>>] + c)}
           d2   == [e \in {ii} \X dest |-> g1[<<jj, e[2]>>] + c]
           g2   == GraphMeet(g1, d2)
           d3   == [e \in src \X dest |-> g[<<e[1], ii>>] + c + g1[<<jj, e[2]>>]]
<1>1. CloseOverEdge(g, ii, jj) = GraphMeet(g2, d3)
    BY DEF CloseOverEdge
<1>2. ii \in V /\ jj \in V /\ c \in Int
    BY DEF IsGraph
<1>3. \A s \in src : <<s, ii>> \in DOMAIN g /\ s \in V /\ g[<<s, ii>>] \in Int
  <2> TAKE s \in src
  <2>1. PICK x \in DOMAIN g : x[2] = ii /\ s = x[1]
      BY DEF Preds
  <2>2. x = <<s, ii>>
      BY <2>1 DEF IsGraph
  <2> QED  BY <2>1, <2>2 DEF IsGraph
<1>4. IsGraph(d1, V)
  <2> HIDE DEF src, c
  <2>1. DOMAIN d1 = src \X {jj} /\ d1 = [e \in DOMAIN d1 |-> d1[e]]
      OBVIOUS
  <2>2. src \X {jj} \subseteq V \X V
      BY <1>2, <1>3
  <2>3. \A e \in src \X {jj} : d1[e] \in Int
      BY <1>2, <1>3
  <2> QED  BY <2>1, <2>2, <2>3 DEF IsGraph
<1>5. IsGraph(g1, V)
    BY <1>4, MeetIsGraph
<1>7. \A d \in dest : <<jj, d>> \in DOMAIN g1 /\ d \in V /\ g1[<<jj, d>>] \in Int
  <2> HIDE DEF g1
  <2> TAKE d \in dest
  <2>1. PICK x \in DOMAIN g1 : x[1] = jj /\ d = x[2]
      BY DEF Succs
  <2>2. x = <<jj, d>>
      BY <2>1, <1>5 DEF IsGraph
  <2> QED  BY <1>5, <2>1, <2>2 DEF IsGraph
<1> HIDE DEF src, dest, g1
<1>8. IsGraph(d2, V) /\ IsGraph(d3, V)
  <2> HIDE DEF c
  <2>1. /\ DOMAIN d2 = {ii} \X dest /\ d2 = [e \in DOMAIN d2 |-> d2[e]]
        /\ DOMAIN d3 = src \X dest /\ d3 = [e \in DOMAIN d3 |-> d3[e]]
      OBVIOUS
  <2>2. {ii} \X dest \subseteq V \X V /\ src \X dest \subseteq V \X V
      BY <1>2, <1>3, <1>7
  <2>3. \A e \in {ii} \X dest : d2[e] \in Int
      BY <1>2, <1>7
  <2>4. \A e \in src \X dest : d3[e] \in Int
      BY <1>2, <1>3, <1>7
  <2> QED  BY <2>1, <2>2, <2>3, <2>4 DEF IsGraph
<1>9. IsGraph(g2, V)
    BY <1>5, <1>8, MeetIsGraph
<1>10. Models(val, g1) <=> Models(val, g) /\ Models(val, d1)
    BY <1>4, MeetExact DEF g1
<1>11. Models(val, g2) <=> Models(val, g1) /\ Models(val, d2)
    BY <1>5, <1>8, MeetExact
<1>12. Models(val, GraphMeet(g2, d3)) <=> Models(val, g2) /\ Models(val, d3)
    BY <1>8, <1>9, MeetExact
<1>13. ASSUME Models(val, g)
       PROVE  Models(val, d1)
  <2> SUFFICES ASSUME NEW s \in src
               PROVE  val[jj] - val[s] <= g[<<s, ii>>] + c
      BY DEF Models
  <2> QED  BY <1>3, <1>13, TwoStep
<1>14. ASSUME Models(val, g), Models(val, g1)
       PROVE  Models(val, d2) /\ Models(val, d3)
  <2>0. /\ val[ii] \in Int /\ val[jj] \in Int
        /\ val[jj] - val[ii] <= c
      BY <1>2, <1>14 DEF IsValuation, Models
  <2>1. ASSUME NEW d \in dest
        PROVE  val[d] \in Int /\ val[d] - val[jj] <= g1[<<jj, d>>]
      BY <1>7, <1>14 DEF Models, IsValuation
  <2>2. ASSUME NEW s \in src
        PROVE  val[s] \in Int /\ val[ii] - val[s] <= g[<<s, ii>>]
      BY <1>3, <1>14 DEF Models, IsValuation
  <2>3. Models(val, d2)
    <3> SUFFICES ASSUME NEW d \in dest
                 PROVE  val[d] - val[ii] <= g1[<<jj, d>>] + c
        BY DEF Models
    <3> QED  BY <1>2, <1>7, <2>0, <2>1
  <2>4. Models(val, d3)
    <3> SUFFICES ASSUME NEW s \in src, NEW d \in dest
                 PROVE  val[d] - val[s] <= g[<<s, ii>>] + c + g1[<<jj, d>>]
        BY DEF Models
    <3> HIDE DEF c
    <3> QED  BY <1>2, <1>3, <1>7, <2>0, <2>1, <2>2
  <2> QED  BY <2>3, <2>4
<1> HIDE DEF d1, d2, d3, g2
<1> QED  BY <1>1, <1>10, <1>11, <1>12, <1>13, <1>14
=============================================================================
