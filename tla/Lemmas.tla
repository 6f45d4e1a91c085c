------------------------------ MODULE Lemmas -------------------------------
(***************************************************************************)
(* What the proofs keep needing: multiples of a period, remainders of a    *)
(* counter that wraps, the least and greatest element of a set, what a     *)
(* stable sort does with the entries of a queue, and sums of finite sets.  *)
(***************************************************************************)
EXTENDS Integers, Sequences, StableSort, Sums, FiniteSetTheorems, WellFoundedInduction, TLAPS

-----------------------------------------------------------------------------
(* Lemmas of a period.                                                  *)

(* An instant of period p is p times its quotient.                         *)
LEMMA Quotient ==
  ASSUME NEW a \in Nat, NEW p \in Nat \ {0}, a % p = 0
  PROVE  a \div p \in Nat /\ a = p * (a \div p)
  BY SMT

(* A multiple of p leaves no remainder.                                    *)
LEMMA MultipleIsZero ==
  ASSUME NEW p \in Nat \ {0}, NEW k \in Nat
  PROVE  (p * k) % p = 0
  BY SMT

(* activation_us += period_us steps to an instant of the node.             *)
LEMMA MultipleNext ==
  ASSUME NEW a \in Nat, NEW p \in Nat \ {0}, a % p = 0
  PROVE  (a + p) % p = 0
<1> DEFINE k == a \div p
<1>1. k \in Nat /\ a = p * k  BY Quotient
<1> HIDE DEF k
<1>2. a + p = p * (k + 1) /\ k + 1 \in Nat  BY <1>1
<1> QED  BY <1>2, MultipleIsZero

(* The instant before a positive one of the node.                          *)
LEMMA MultiplePrevious ==
  ASSUME NEW x \in Nat, NEW p \in Nat \ {0}, x % p = 0, x >= p
  PROVE  x - p \in Nat /\ (x - p) % p = 0
<1> DEFINE k == x \div p
<1>1. k \in Nat /\ x = p * k  BY Quotient
<1> HIDE DEF k
<1>2. k # 0  BY <1>1
<1>3. k - 1 \in Nat /\ x - p = p * (k - 1)  BY <1>1, <1>2
<1> QED  BY <1>3, MultipleIsZero

(* ... and skips none.                                                     *)
LEMMA MultipleGap ==
  ASSUME NEW a \in Nat, NEW b \in Nat, NEW p \in Nat \ {0},
         a % p = 0, b % p = 0, a < b
  PROVE  a + p <= b
<1> DEFINE k == a \div p
           j == b \div p
<1>1. k \in Nat /\ a = p * k /\ j \in Nat /\ b = p * j  BY Quotient
<1> HIDE DEF k, j
<1>2. k < j  BY <1>1
<1> QED  BY <1>1, <1>2

(* An instant of the longer of two harmonic periods is one of the other.   *)
LEMMA Divides ==
  ASSUME NEW x \in Nat, NEW p \in Nat \ {0}, NEW q \in Nat \ {0}, x % p = 0, p % q = 0
  PROVE  x % q = 0
<1> DEFINE k == x \div p
           j == p \div q
<1>1. k \in Nat /\ x = p * k /\ j \in Nat /\ p = q * j  BY Quotient
<1> HIDE DEF k, j
<1>2. x = q * (j * k) /\ j * k \in Nat
  <2>1. j * k \in Nat  BY <1>1, SMT
  <2>2. x = (q * j) * k  BY <1>1
  <2>3. (q * j) * k = q * (j * k)  BY <1>1, SMT
  <2> QED  BY <2>1, <2>2, <2>3
<1> QED  BY <1>2, MultipleIsZero

-----------------------------------------------------------------------------
(* Remainders.                                                             *)

(* Quotient and remainder.                                                *)
LEMMA DivMod ==
  ASSUME NEW x \in Int, NEW m \in Nat \ {0}
  PROVE  x \div m \in Int /\ x % m \in 0 .. m - 1 /\ x = m * (x \div m) + (x % m)
OBVIOUS

(* There is one remainder.                                                 *)
LEMMA ModUnique ==
  ASSUME NEW x \in Int, NEW m \in Nat \ {0}, NEW q \in Int, NEW r \in 0 .. m - 1,
         x = m * q + r
  PROVE  x % m = r
<1> DEFINE d == x \div m
           s == x % m
<1>1. d \in Int /\ s \in 0 .. m - 1 /\ x = m * d + s  BY DivMod
<1> HIDE DEF d, s
<1>2. m * (d - q) = r - s  BY <1>1
<1>3. d - q = 0
  <2>1. PICK k \in Int : k = d - q  BY <1>1
  <2>2. m * k < m /\ m * k > -m  BY <1>1, <1>2, <2>1
  <2>3. CASE k >= 1   BY <2>2, <2>3
  <2>4. CASE k <= -1  BY <2>2, <2>4
  <2> QED  BY <2>1, <2>3, <2>4
<1>4. m * (d - q) = 0  BY <1>1, <1>3
<1>5. r = s  BY <1>1, <1>2, <1>4
<1> QED  BY <1>5 DEF s

(* Numbers a multiple of m apart have the same remainder.                  *)
LEMMA ModShift ==
  ASSUME NEW x \in Int, NEW y \in Int, NEW m \in Nat \ {0},
         \E q \in Int : x = y + m * q
  PROVE  x % m = y % m
<1>0. PICK q \in Int : x = y + m * q  OBVIOUS
<1> DEFINE d == y \div m
           s == y % m
<1>1. d \in Int /\ s \in 0 .. m - 1 /\ y = m * d + s  BY DivMod
<1> HIDE DEF d, s
<1>2. x = m * (d + q) + s /\ d + q \in Int  BY <1>0, <1>1
<1>3. x % m = s  BY <1>1, <1>2, ModUnique
<1> QED  BY <1>3 DEF s

(* Different numbers with the same remainder are at least m apart.         *)
LEMMA ModApart ==
  ASSUME NEW x \in Int, NEW y \in Int, NEW m \in Nat \ {0}, x % m = y % m, x < y
  PROVE  x + m <= y
<1> DEFINE d == x \div m
           e == y \div m
           s == x % m
<1>1. d \in Int /\ e \in Int /\ s \in 0 .. m - 1 /\ x = m * d + s /\ y = m * e + s
  BY DivMod
<1> HIDE DEF d, e, s
<1>2. d < e  BY <1>1
<1>3. PICK k \in Int : k = e - d /\ k >= 1  BY <1>1, <1>2
<1>4. y = x + m * k  BY <1>1, <1>3
<1>5. m * k >= m  BY <1>3
<1> QED  BY <1>4, <1>5

(* The remainder of a remainder, when the one modulus divides the other.   *)
LEMMA ModMod ==
  ASSUME NEW x \in Int, NEW h \in Nat \ {0}, NEW c \in Nat \ {0}, h % c = 0
  PROVE  (x % h) % c = x % c
<1> DEFINE d == x \div h
           s == x % h
           k == h \div c
<1>1. d \in Int /\ s \in Int /\ x = h * d + s /\ k \in Int /\ h = c * k  BY DivMod
<1> HIDE DEF d, s, k
<1>2. \E q \in Int : x = s + c * q
  <2>1. k * d \in Int  BY <1>1
  <2>2. (c * k) * d = c * (k * d)  BY <1>1
  <2> QED  BY <1>1, <2>1, <2>2
<1>3. x % c = s % c  BY <1>1, <1>2, ModShift, ZenonT(40)
<1> QED  BY <1>3 DEF s

(* The remainder of a sum.                                                 *)
LEMMA ModPlus ==
  ASSUME NEW a \in Int, NEW b \in Int, NEW m \in Nat \ {0}
  PROVE  (a + (b % m)) % m = (a + b) % m
<1> DEFINE d == b \div m
           s == b % m
<1>1. d \in Int /\ s \in Int /\ b = m * d + s  BY DivMod
<1> HIDE DEF d, s
<1>2. PICK x \in Int, y \in Int : x = a + b /\ y = a + s  BY <1>1
<1>3. \E q \in Int : x = y + m * q  BY <1>1, <1>2
<1>4. x % m = y % m  BY <1>3, ModShift
<1> QED  BY <1>2, <1>4 DEF s

-----------------------------------------------------------------------------
(* Least and greatest.                                                     *)

(* The earliest of some instants is one of them, and none is earlier.      *)
LEMMA Least ==
  ASSUME NEW S \in SUBSET Nat, S # {}
  PROVE  \E x \in S : \A y \in S : x <= y
<1>1. PICK x \in S : \A y \in S : ~ (<<y, x>> \in OpToRel(<, Nat))
  BY WFMin, NatLessThanWellFounded, Zenon
<1>2. \A y \in S : y \in Nat /\ x \in Nat
  OBVIOUS
<1>3. \A y \in S : ~ (y < x)
  BY <1>1, <1>2 DEF OpToRel
<1> QED  BY <1>2, <1>3

(* A set with a bound has a greatest element.                              *)
LEMMA Greatest ==
  ASSUME NEW bound \in Nat, NEW S \in SUBSET (0 .. bound), S # {}
  PROVE  \E x \in S : \A y \in S : x >= y
<1> DEFINE rest == {bound - y : y \in S}
<1>1. rest \in SUBSET Nat /\ rest # {}
  <2>1. \A y \in S : bound - y \in Nat /\ bound - y \in rest  OBVIOUS
  <2> QED  BY <2>1, Zenon
<1>2. PICK k \in rest : \A y \in rest : k <= y  BY <1>1, Least, Zenon
<1>3. PICK x \in S : k = bound - x  BY <1>2
<1>4. ASSUME NEW y \in S  PROVE x >= y
  <2>1. bound - y \in rest  OBVIOUS
  <2>2. bound - x <= bound - y  BY <1>2, <1>3, <2>1
  <2> QED  BY <2>2
<1> QED  BY <1>4

-----------------------------------------------------------------------------
(* Stable sorting.                                                         *)

(* Of two entries one goes first, and its place is before the other's.     *)
LEMMA PlacesAreApart ==
  ASSUME NEW q, NEW n \in Nat, DOMAIN q = 1 .. n,
         \A i \in DOMAIN q : q[i].priority \in Int
  PROVE  /\ \A i \in DOMAIN q : PlaceOf(q, i) \in 1 .. n
         /\ \A i, j \in DOMAIN q : GoesFirst(q, i, j) => PlaceOf(q, i) < PlaceOf(q, j)
         /\ \A i, j \in DOMAIN q : i # j => GoesFirst(q, i, j) \/ GoesFirst(q, j, i)
<1> DEFINE Ahead(i) == {j \in DOMAIN q : GoesFirst(q, j, i)}
<1>1. IsFiniteSet(DOMAIN q) /\ Cardinality(DOMAIN q) = n  BY FS_Interval
<1>2. \A i \in DOMAIN q : ~ GoesFirst(q, i, i)  BY DEF GoesFirst
<1>3. \A i, j, k \in DOMAIN q : GoesFirst(q, i, j) /\ GoesFirst(q, j, k) => GoesFirst(q, i, k)
  BY DEF GoesFirst
<1>4. \A i, j \in DOMAIN q : i # j => GoesFirst(q, i, j) \/ GoesFirst(q, j, i)
  BY DEF GoesFirst
<1>5. \A i \in DOMAIN q : IsFiniteSet(Ahead(i)) /\ Cardinality(Ahead(i)) \in Nat
  <2> TAKE i \in DOMAIN q
  <2>1. Ahead(i) \in SUBSET DOMAIN q  OBVIOUS
  <2>2. IsFiniteSet(Ahead(i))  BY <1>1, <2>1, FS_Subset
  <2> QED  BY <2>2, FS_CardinalityType
<1>6. ASSUME NEW i \in DOMAIN q  PROVE PlaceOf(q, i) \in 1 .. n
  <2>1. Ahead(i) \cup {i} \in SUBSET DOMAIN q /\ i \notin Ahead(i)  BY <1>2
  <2>2. Cardinality(Ahead(i) \cup {i}) = Cardinality(Ahead(i)) + 1
    BY <1>5, <2>1, FS_AddElement
  <2>3. Cardinality(Ahead(i) \cup {i}) <= n  BY <1>1, <2>1, FS_Subset
  <2>4. PlaceOf(q, i) = 1 + Cardinality(Ahead(i))  BY DEF PlaceOf
  <2> HIDE DEF Ahead
  <2> QED  BY <1>5, <2>2, <2>3, <2>4
<1>7. ASSUME NEW i \in DOMAIN q, NEW j \in DOMAIN q, GoesFirst(q, i, j)
      PROVE  PlaceOf(q, i) < PlaceOf(q, j)
  <2>1. Ahead(i) \cup {i} \in SUBSET Ahead(j) /\ i \notin Ahead(i)  BY <1>2, <1>3, <1>7
  <2>2. Cardinality(Ahead(i) \cup {i}) = Cardinality(Ahead(i)) + 1
    BY <1>5, <2>1, FS_AddElement
  <2>3. Cardinality(Ahead(i) \cup {i}) <= Cardinality(Ahead(j))
    <3>1. IsFiniteSet(Ahead(j))  BY <1>5
    <3> HIDE DEF Ahead
    <3> QED  BY <2>1, <3>1, FS_Subset
  <2>4. /\ PlaceOf(q, i) = 1 + Cardinality(Ahead(i))
        /\ PlaceOf(q, j) = 1 + Cardinality(Ahead(j))
    BY DEF PlaceOf
  <2> HIDE DEF Ahead
  <2> QED  BY <1>5, <2>2, <2>3, <2>4
<1> QED  BY <1>4, <1>6, <1>7

(* The sorted queue holds each entry once, and in the order of GoesFirst:  *)
(* from[k] is where the entry at place k was before.                       *)
SortedFrom(q, from) ==
  /\ \A k \in DOMAIN q : SortDescending(q)[k] = q[from[k]]
  /\ \A i \in DOMAIN q : \E k \in DOMAIN q : from[k] = i
  /\ \A k, l \in DOMAIN q : k < l => GoesFirst(q, from[k], from[l])
  /\ \A k, l \in DOMAIN q : k # l => from[k] # from[l]

LEMMA SortFacts ==
  ASSUME NEW S, NEW q \in Seq(S), \A i \in DOMAIN q : q[i].priority \in Int
  PROVE  /\ SortDescending(q) \in Seq(S)
         /\ Len(SortDescending(q)) = Len(q) /\ DOMAIN SortDescending(q) = DOMAIN q
         /\ \E from \in [DOMAIN q -> DOMAIN q] : SortedFrom(q, from)
<1> DEFINE n     == Len(q)
           place == [i \in DOMAIN q |-> PlaceOf(q, i)]
           from  == [k \in DOMAIN q |-> CHOOSE i \in DOMAIN q : PlaceOf(q, i) = k]
<1>1. n \in Nat /\ DOMAIN q = 1 .. n  OBVIOUS
<1> HIDE DEF n
<1>2. /\ \A i \in DOMAIN q : PlaceOf(q, i) \in 1 .. n
      /\ \A i, j \in DOMAIN q : GoesFirst(q, i, j) => PlaceOf(q, i) < PlaceOf(q, j)
      /\ \A i, j \in DOMAIN q : i # j => GoesFirst(q, i, j) \/ GoesFirst(q, j, i)
  BY <1>1, PlacesAreApart
<1>3. \A i, j \in DOMAIN q : i # j => PlaceOf(q, i) # PlaceOf(q, j)  BY <1>2
<1>4. place \in Injection(DOMAIN q, DOMAIN q)  BY <1>1, <1>2, <1>3 DEF Injection, IsInjective
<1>5. IsFiniteSet(DOMAIN q)
  <2>1. n \in Int /\ 1 \in Int  BY <1>1
  <2>2. IsFiniteSet(1 .. n)  BY <2>1, FS_Interval
  <2> QED  BY <1>1, <2>2
<1>6. place \in Surjection(DOMAIN q, DOMAIN q)  BY <1>4, <1>5, FS_Injection
<1>7. \A k \in DOMAIN q : \E i \in DOMAIN q : PlaceOf(q, i) = k  BY <1>6 DEF Surjection
<1>8. \A k \in DOMAIN q : from[k] \in DOMAIN q /\ PlaceOf(q, from[k]) = k  BY <1>7
<1>9. SortDescending(q) = [k \in DOMAIN q |-> q[from[k]]]  BY DEF SortDescending
<1> HIDE DEF from
<1>10. from \in [DOMAIN q -> DOMAIN q]  BY <1>8 DEF from
<1>11. \A k \in DOMAIN q : q[from[k]] \in S  BY <1>8
<1>12. SortDescending(q) \in [1 .. n -> S]  BY <1>1, <1>9, <1>11
<1>13. SortDescending(q) \in Seq(S) /\ Len(SortDescending(q)) = n
  BY <1>1, <1>12
<1>14. \A k, l \in DOMAIN q : k < l => GoesFirst(q, from[k], from[l])
  <2> SUFFICES ASSUME NEW k \in DOMAIN q, NEW l \in DOMAIN q, k < l
               PROVE  GoesFirst(q, from[k], from[l])
    OBVIOUS
  <2>1. from[k] # from[l]  BY <1>1, <1>8
  <2>2. ~ GoesFirst(q, from[l], from[k])
    <3>1. ~ (l < k)  BY <1>1
    <3> QED  BY <1>2, <1>8, <3>1
  <2> QED  BY <1>2, <1>8, <2>1, <2>2
<1>15. \A i \in DOMAIN q : \E k \in DOMAIN q : from[k] = i
  <2> SUFFICES ASSUME NEW i \in DOMAIN q  PROVE from[PlaceOf(q, i)] = i
    BY <1>1, <1>2
  <2>1. PlaceOf(q, i) \in DOMAIN q  BY <1>1, <1>2
  <2> QED  BY <1>3, <1>8, <2>1
<1>16. \A k, l \in DOMAIN q : k # l => from[k] # from[l]  BY <1>8
<1>17. DOMAIN SortDescending(q) = DOMAIN q /\ \A k \in DOMAIN q : SortDescending(q)[k] = q[from[k]]
  BY <1>9
<1> QED  BY <1>10, <1>13, <1>14, <1>15, <1>16, <1>17 DEF n, SortedFrom
-----------------------------------------------------------------------------
(* Ascending lists a set of numbers, each of them once.                    *)
LEMMA AscendingFacts ==
  ASSUME NEW N \in Nat, NEW S \in SUBSET (1 .. N)
  PROVE  /\ Ascending(S) \in Seq(S)
         /\ \A x \in S : \E k \in DOMAIN Ascending(S) : Ascending(S)[k] = x
         /\ \A k, l \in DOMAIN Ascending(S) : k # l => Ascending(S)[k] # Ascending(S)[l]
<1> DEFINE Upto(x) == {y \in S : y <= x}
           c       == Cardinality(S)
           rank    == [x \in S |-> Cardinality(Upto(x))]
           A       == Ascending(S)
<1>1. IsFiniteSet(S) /\ c \in Nat
  <2>1. IsFiniteSet(1 .. N)  BY FS_Interval
  <2>2. IsFiniteSet(S)  BY <2>1, FS_Subset
  <2> QED  BY <2>2, FS_CardinalityType
<1>2. \A x \in S : /\ IsFiniteSet(Upto(x)) /\ Cardinality(Upto(x)) \in Nat
                   /\ Cardinality(Upto(x)) <= c
  <2> TAKE x \in S
  <2>1. Upto(x) \in SUBSET S  OBVIOUS
  <2>2. IsFiniteSet(Upto(x)) /\ Cardinality(Upto(x)) <= c  BY <1>1, <2>1, FS_Subset
  <2> QED  BY <2>2, FS_CardinalityType
<1>3. \A x \in S : Cardinality(Upto(x)) \in 1 .. c
  <2> TAKE x \in S
  <2>1. Upto(x) # {}  OBVIOUS
  <2>2. Cardinality(Upto(x)) # 0  BY <1>2, <2>1, FS_EmptySet
  <2> HIDE DEF Upto
  <2> QED  BY <1>1, <1>2, <2>2
<1>4. ASSUME NEW x \in S, NEW z \in S, x < z
      PROVE  Cardinality(Upto(x)) < Cardinality(Upto(z))
  <2>1. Upto(x) \cup {z} \in SUBSET Upto(z) /\ z \notin Upto(x)
    <3>1. x \in Int /\ z \in Int /\ \A y \in S : y \in Int  OBVIOUS
    <3>2. \A y \in S : y <= x => y <= z  BY <1>4, <3>1
    <3>3. z \notin Upto(x) /\ z \in Upto(z)  BY <1>4, <3>1
    <3> QED  BY <3>2, <3>3
  <2>2. Cardinality(Upto(x) \cup {z}) = Cardinality(Upto(x)) + 1
    BY <1>2, <2>1, FS_AddElement
  <2>3. Cardinality(Upto(x) \cup {z}) <= Cardinality(Upto(z))
    <3>1. IsFiniteSet(Upto(z))  BY <1>2
    <3> HIDE DEF Upto
    <3> QED  BY <2>1, <3>1, FS_Subset
  <2> HIDE DEF Upto
  <2> QED  BY <1>2, <2>2, <2>3
<1>5. \A x, z \in S : x # z => rank[x] # rank[z]
  <2> SUFFICES ASSUME NEW x \in S, NEW z \in S, x # z  PROVE rank[x] # rank[z]
    OBVIOUS
  <2>1. x < z \/ z < x  OBVIOUS
  <2>2. /\ x < z => Cardinality(Upto(x)) < Cardinality(Upto(z))
        /\ z < x => Cardinality(Upto(z)) < Cardinality(Upto(x))
    BY <1>4
  <2>3. /\ Cardinality(Upto(x)) \in Nat /\ Cardinality(Upto(z)) \in Nat
        /\ rank[x] = Cardinality(Upto(x)) /\ rank[z] = Cardinality(Upto(z))
    BY <1>2
  <2> HIDE DEF Upto, rank
  <2> QED  BY <2>1, <2>2, <2>3
<1>6. rank \in Injection(S, 1 .. c)  BY <1>3, <1>5 DEF Injection, IsInjective
<1>7. IsFiniteSet(1 .. c) /\ Cardinality(1 .. c) = c
  <2> HIDE DEF c
  <2> QED  BY <1>1, FS_Interval
<1>8. rank \in Surjection(S, 1 .. c)  BY <1>6, <1>7, FS_Injection
<1>9. \A k \in 1 .. c : \E x \in S : Cardinality(Upto(x)) = k  BY <1>8 DEF Surjection
<1>10. A = [k \in 1 .. c |-> CHOOSE x \in S : Cardinality(Upto(x)) = k]  BY DEF Ascending
<1>11. \A k \in 1 .. c : A[k] \in S /\ Cardinality(Upto(A[k])) = k  BY <1>9, <1>10
<1>12. DOMAIN A = 1 .. c  BY <1>10
<1> HIDE DEF A, c
<1>13. A \in Seq(S)
  <2> DEFINE pick(k) == CHOOSE x \in S : Cardinality(Upto(x)) = k
  <2>1. A = [k \in 1 .. c |-> pick(k)]  BY <1>10
  <2>2. \A k \in 1 .. c : pick(k) \in S  BY <1>9
  <2> HIDE DEF pick
  <2>3. A \in [1 .. c -> S]  BY <2>1, <2>2
  <2> QED  BY <1>1, <2>3
<1>14. \A x \in S : \E k \in DOMAIN A : A[k] = x
  <2> SUFFICES ASSUME NEW x \in S
               PROVE  rank[x] \in 1 .. c /\ A[rank[x]] = x
    BY <1>12
  <2>1. rank[x] \in 1 .. c /\ rank[x] = Cardinality(Upto(x))  BY <1>3
  <2>2. A[rank[x]] \in S /\ rank[A[rank[x]]] = rank[x]  BY <1>11, <2>1
  <2> QED  BY <1>5, <2>1, <2>2
<1>15. ASSUME NEW k \in DOMAIN A, NEW l \in DOMAIN A, k # l  PROVE A[k] # A[l]
  <2>1. Cardinality(Upto(A[k])) = k /\ Cardinality(Upto(A[l])) = l  BY <1>11, <1>12
  <2> QED  BY <1>15, <2>1
<1> QED  BY <1>13, <1>14, <1>15 DEF A

-----------------------------------------------------------------------------
(* Sums over a finite set, which MapThenSumSet computes with a recursive   *)
(* function on its subsets.  Where the elements are taken by CHOOSE the    *)
(* order is unknown; SumFacts says that it does not matter.                *)
Picked(s) == CHOOSE x \in s : TRUE

IsSumOf(f, T, g) ==
  g = [s \in SUBSET T |-> IF s = {} THEN 0 ELSE f[Picked(s)] + g[s \ {Picked(s)}]]

(* The sum as the library computes it.                                    *)
LEMMA SumIsComputed ==
  ASSUME NEW f, NEW T
  PROVE  SumOver(f, T) = (CHOOSE g : IsSumOf(f, T, g))[T]
BY DEF SumOver, MapThenSumSet, MapThenFoldSet, IsSumOf, Picked

(* There is such a function, level by level of the size of the sets ...    *)
LEMMA SumExists ==
  ASSUME NEW f, NEW S, IsFiniteSet(S)
  PROVE  \E g : IsSumOf(f, S, g)
<1> DEFINE Level(n) == {s \in SUBSET S : Cardinality(s) <= n}
           Value(s, g) == IF s = {} THEN 0 ELSE f[Picked(s)] + g[s \ {Picked(s)}]
           Computes(n, g) == g = [s \in Level(n) |-> Value(s, g)]
           Without == {n \in Nat : ~ \E g : Computes(n, g)}
<1>1. \A s \in SUBSET S : IsFiniteSet(s) /\ Cardinality(s) \in Nat
  BY FS_Subset, FS_CardinalityType
<1>2. \A s \in SUBSET S : s # {} =>
        /\ Picked(s) \in s /\ s \ {Picked(s)} \in SUBSET S
        /\ Cardinality(s \ {Picked(s)}) = Cardinality(s) - 1
        /\ Cardinality(s) > 0
  <2> SUFFICES ASSUME NEW s \in SUBSET S, s # {}
               PROVE  /\ Picked(s) \in s /\ s \ {Picked(s)} \in SUBSET S
                      /\ Cardinality(s \ {Picked(s)}) = Cardinality(s) - 1
                      /\ Cardinality(s) > 0
    OBVIOUS
  <2>1. Picked(s) \in s  BY DEF Picked
  <2>2. Cardinality(s \ {Picked(s)}) = Cardinality(s) - 1  BY <1>1, <2>1, FS_RemoveElement
  <2>3. Cardinality(s \ {Picked(s)}) \in Nat /\ Cardinality(s) \in Nat  BY <1>1
  <2> QED  BY <2>1, <2>2, <2>3
<1>3. \A n \in Nat : \E g : Computes(n, g)
  <2> SUFFICES ASSUME Without # {}  PROVE FALSE
    OBVIOUS
  <2>1. PICK n \in Without : \A k \in Without : n <= k
    <3>1. Without \in SUBSET Nat  OBVIOUS
    <3> HIDE DEF Without
    <3> QED  BY <3>1, Least, Zenon
  <2>2. n # 0
    <3> DEFINE g == [s \in Level(0) |-> 0]
    <3>1. ASSUME NEW s \in Level(0)  PROVE s = {}
      <4>1. s \in SUBSET S /\ Cardinality(s) <= 0  OBVIOUS
      <4>2. ~ (Cardinality(s) > 0)  BY <1>1, <4>1
      <4> QED  BY <1>2, <4>1, <4>2
    <3>2. g = [s \in Level(0) |-> Value(s, g)]
      <4> HIDE DEF Level
      <4>1. \A s \in Level(0) : Value(s, g) = 0  BY <3>1
      <4> HIDE DEF Value
      <4> QED  BY <4>1
    <3>3. \E e : Computes(0, e)  BY <3>2
    <3> HIDE DEF Computes
    <3> QED  BY <2>1, <3>3
  <2>3. n - 1 \in Nat /\ n - 1 \notin Without
    <3>1. n \in Nat  OBVIOUS
    <3>2. n - 1 \in Nat /\ ~ (n <= n - 1)  BY <2>2, <3>1
    <3> QED  BY <2>1, <3>2, Zenon
  <2>4. PICK g : Computes(n - 1, g)  BY <2>3
  <2> DEFINE h == [s \in Level(n) |-> Value(s, g)]
  <2>5. \A s \in Level(n) : s # {} => s \ {Picked(s)} \in Level(n - 1)
    BY <1>1, <1>2, <2>3
  <2>6. \A s \in Level(n - 1) : s \in Level(n)  BY <1>1, <2>3
  <2>7. \A s \in Level(n - 1) : g[s] = Value(s, g)  BY <2>4
  <2>8. \A s \in Level(n - 1) : h[s] = g[s]  BY <2>6, <2>7
  <2>9. \A s \in Level(n) : Value(s, g) = Value(s, h)  BY <2>5, <2>8
  <2>10. h = [s \in Level(n) |-> Value(s, h)]
    <3>1. h = [s \in Level(n) |-> Value(s, g)]  OBVIOUS
    <3> HIDE DEF h, Level, Value
    <3> QED  BY <2>9, <3>1
  <2> HIDE DEF h
  <2>11. \E e : Computes(n, e)  BY <2>10
  <2> QED  BY <2>1, <2>11
<1>4. Cardinality(S) \in Nat /\ Level(Cardinality(S)) = SUBSET S
  <2>1. \A s \in SUBSET S : Cardinality(s) <= Cardinality(S)  BY FS_Subset
  <2> QED  BY <1>1, <2>1
<1>5. PICK g : Computes(Cardinality(S), g)  BY <1>3, <1>4
<1>6. g = [s \in SUBSET S |-> Value(s, g)]  BY <1>4, <1>5
<1> QED  BY <1>6 DEF IsSumOf

(* ... and one only, whatever set it is made for.                          *)
LEMMA SumIsUnique ==
  ASSUME NEW f, NEW S, IsFiniteSet(S), NEW T \in SUBSET S, NEW g, NEW h,
         IsSumOf(f, S, g), IsSumOf(f, T, h)
  PROVE  g[T] = h[T]
<1> DEFINE differ == {s \in SUBSET T : g[s] # h[s]}
           sizes  == {Cardinality(s) : s \in differ}
<1>1. \A s \in SUBSET T : IsFiniteSet(s) /\ Cardinality(s) \in Nat
  BY FS_Subset, FS_CardinalityType
<1>2. /\ \A s \in SUBSET T : g[s] = IF s = {} THEN 0 ELSE f[Picked(s)] + g[s \ {Picked(s)}]
      /\ \A s \in SUBSET T : h[s] = IF s = {} THEN 0 ELSE f[Picked(s)] + h[s \ {Picked(s)}]
  BY DEF IsSumOf
<1> SUFFICES ASSUME differ # {}  PROVE FALSE
  OBVIOUS
<1>3. sizes \in SUBSET Nat /\ sizes # {}  BY <1>1
<1>4. PICK s \in differ : \A t \in differ : Cardinality(s) <= Cardinality(t)
  <2> HIDE DEF differ
  <2>1. PICK c \in sizes : \A d \in sizes : c <= d  BY <1>3, Least, Zenon
  <2> QED  BY <2>1
<1>5. s # {}  BY <1>2
<1> DEFINE rest == s \ {Picked(s)}
<1>6. Picked(s) \in s  BY <1>5 DEF Picked
<1>7. rest \in SUBSET T /\ Cardinality(rest) = Cardinality(s) - 1
  <2>1. Cardinality(s \ {Picked(s)}) = Cardinality(s) - 1  BY <1>1, <1>6, FS_RemoveElement
  <2> QED  BY <2>1
<1> HIDE DEF rest
<1>8. rest \notin differ
  <2>1. Cardinality(s) \in Nat  BY <1>1
  <2>2. ~ (Cardinality(s) <= Cardinality(rest))  BY <1>7, <2>1
  <2> QED  BY <1>4, <2>2, Zenon
<1>9. g[rest] = h[rest]  BY <1>7, <1>8
<1> QED  BY <1>2, <1>5, <1>9 DEF rest

(* So a sum is one element and the sum of the rest: the one picked ...      *)
LEMMA SumUnfolds ==
  ASSUME NEW f, NEW T, IsFiniteSet(T)
  PROVE  SumOver(f, T) =
           IF T = {} THEN 0 ELSE f[Picked(T)] + SumOver(f, T \ {Picked(T)})
<1> DEFINE G == CHOOSE g : IsSumOf(f, T, g)
           rest == T \ {Picked(T)}
           H == CHOOSE h : IsSumOf(f, rest, h)
<1>1. IsFiniteSet(rest) /\ rest \in SUBSET T  BY FS_Subset
<1>2. IsSumOf(f, T, G)  BY SumExists
<1>3. IsSumOf(f, rest, H)
  <2> HIDE DEF rest
  <2> QED  BY <1>1, SumExists
<1>4. SumOver(f, T) = G[T] /\ SumOver(f, rest) = H[rest]  BY SumIsComputed
<1> HIDE DEF rest, G, H
<1>5. G[rest] = H[rest]  BY <1>1, <1>2, <1>3, SumIsUnique
<1>6. G[T] = IF T = {} THEN 0 ELSE f[Picked(T)] + G[rest]  BY <1>2 DEF IsSumOf, rest
<1>7. SumOver(f, T) = IF T = {} THEN 0 ELSE f[Picked(T)] + SumOver(f, rest)
  BY <1>4, <1>5, <1>6
<1> QED  BY <1>7 DEF rest

(* ... and, since integers add up in any order, any other.                 *)
LEMMA SumFacts ==
  ASSUME NEW S, IsFiniteSet(S), NEW f, \A x \in S : f[x] \in Int
  PROVE  /\ SumOver(f, {}) = 0
         /\ SumOver(f, S) \in Int
         /\ \A x \in S : SumOver(f, S) = f[x] + SumOver(f, S \ {x})
<1> DEFINE Good(T) == /\ SumOver(f, T) \in Int
                      /\ \A x \in T : SumOver(f, T) = f[x] + SumOver(f, T \ {x})
           bad   == {T \in SUBSET S : ~ Good(T)}
           sizes == {Cardinality(T) : T \in bad}
<1>0. IsFiniteSet({})  BY FS_EmptySet
<1>1. SumOver(f, {}) = 0  BY <1>0, SumUnfolds
<1>2. \A T \in SUBSET S : IsFiniteSet(T) /\ Cardinality(T) \in Nat
  BY FS_Subset, FS_CardinalityType
<1>3. ASSUME bad # {}  PROVE FALSE
  <2>1. sizes \in SUBSET Nat /\ sizes # {}  BY <1>2, <1>3
  <2>2. PICK T \in bad : \A U \in bad : Cardinality(T) <= Cardinality(U)
    <3> HIDE DEF bad
    <3>1. PICK c \in sizes : \A d \in sizes : c <= d  BY <2>1, Least, Zenon
    <3> QED  BY <3>1
  <2>3. T \in SUBSET S /\ ~ Good(T) /\ IsFiniteSet(T)  BY <1>2
  <2>4. T # {}
    <3>1. Good({})  BY <1>1
    <3> HIDE DEF Good
    <3> QED  BY <2>3, <3>1
  <2>5. ASSUME NEW x \in T  PROVE Good(T \ {x})
    <3>1. Cardinality(T \ {x}) = Cardinality(T) - 1  BY <2>3, FS_RemoveElement
    <3>2. Cardinality(T) \in Nat  BY <1>2, <2>3
    <3>3. ~ (Cardinality(T) <= Cardinality(T \ {x}))  BY <3>1, <3>2
    <3>4. T \ {x} \notin bad
      <4> HIDE DEF bad
      <4> QED  BY <2>2, <3>3
    <3> HIDE DEF Good
    <3> QED  BY <2>3, <3>4
  <2> DEFINE p == Picked(T)
  <2>6. p \in T  BY <2>4 DEF Picked
  <2>7. SumOver(f, T) = f[p] + SumOver(f, T \ {p})  BY <2>3, <2>4, SumUnfolds
  <2> HIDE DEF p
  <2>8. \A x \in T : f[x] \in Int /\ SumOver(f, T \ {x}) \in Int  BY <2>3, <2>5
  <2>9. SumOver(f, T) \in Int  BY <2>6, <2>7, <2>8
  <2>10. ASSUME NEW x \in T, x # p
         PROVE  SumOver(f, T) = f[x] + SumOver(f, T \ {x})
    <3> DEFINE both == T \ {x, p}
    <3>1. (T \ {p}) \ {x} = both /\ (T \ {x}) \ {p} = both
          /\ x \in T \ {p} /\ p \in T \ {x}
      BY <2>6, <2>10
    <3> HIDE DEF both
    <3>2. SumOver(f, T \ {p}) = f[x] + SumOver(f, both)  BY <2>5, <2>6, <3>1, ZenonT(30)
    <3>3. SumOver(f, T \ {x}) = f[p] + SumOver(f, both)  BY <2>5, <2>10, <3>1
    <3>4. SumOver(f, both) \in Int
      <4>1. Good(T \ {p})  BY <2>5, <2>6
      <4>2. T \ {p} \in SUBSET S /\ \A y \in T \ {p} : f[y] \in Int  BY <2>3
      <4>3. PICK a \in Int, b \in Int : a = SumOver(f, T \ {p}) /\ b = f[x]
        BY <2>8, <2>6, <2>10
      <4>4. Good((T \ {p}) \ {x})
        <5>1. Cardinality(T \ {p}) = Cardinality(T) - 1
              /\ Cardinality(both) = Cardinality(T \ {p}) - 1
          <6>1. IsFiniteSet(T \ {p})  BY <1>2, <4>2
          <6>2. Cardinality(T \ {p}) = Cardinality(T) - 1
            BY <2>3, <2>6, FS_RemoveElement
          <6>3. Cardinality((T \ {p}) \ {x}) = Cardinality(T \ {p}) - 1
            BY <3>1, <6>1, FS_RemoveElement
          <6> QED  BY <3>1, <6>2, <6>3
        <5>2. both \in SUBSET S  BY <2>3 DEF both
        <5>3. Cardinality(T) \in Nat  BY <1>2, <2>3
        <5>4. ~ (Cardinality(T) <= Cardinality(both))  BY <5>1, <5>3
        <5>5. both \notin bad
          <6> HIDE DEF bad
          <6> QED  BY <2>2, <5>4
        <5> HIDE DEF Good
        <5> QED  BY <3>1, <5>2, <5>5
      <4> QED  BY <3>1, <4>4
    <3> QED  BY <2>6, <2>7, <2>8, <2>10, <3>2, <3>3, <3>4
  <2>11. Good(T)  BY <2>7, <2>9, <2>10
  <2> QED  BY <2>3, <2>11
<1>4. Good(S)
  <2> HIDE DEF Good
  <2> QED  BY <1>3
<1> QED  BY <1>1, <1>4

(* The values that a loop takes, from one to the next.                     *)
Iterates(f, first, next, n) ==
  f[0] = first /\ \A k \in 0 .. n : k # 0 => f[k] = next[f[k - 1]]

LEMMA IterationExists ==
  ASSUME NEW first, NEW next, NEW n \in Nat
  PROVE  \E f : Iterates(f, first, next, n)
<1> DEFINE Value(k, f) == IF k = 0 THEN first ELSE next[f[k - 1]]
           Computes(m, f) == f = [k \in 0 .. m |-> Value(k, f)]
           Without == {m \in Nat : ~ \E f : Computes(m, f)}
<1> SUFFICES ASSUME Without # {}  PROVE FALSE
  <2>1. PICK f : Computes(n, f)  OBVIOUS
  <2>2. \A k \in 0 .. n : f[k] = Value(k, f)  BY <2>1
  <2>3. Iterates(f, first, next, n)  BY <2>2 DEF Iterates
  <2> HIDE DEF Computes
  <2> QED  BY <2>3
<1>1. PICK m \in Without : \A k \in Without : m <= k
  <2>1. Without \in SUBSET Nat  OBVIOUS
  <2> HIDE DEF Without
  <2> QED  BY <2>1, Least, Zenon
<1>2. m # 0
  <2> DEFINE f == [k \in 0 .. 0 |-> first]
  <2>1. Computes(0, f)  OBVIOUS
  <2> HIDE DEF f
  <2>2. \E e : Computes(0, e)  BY <2>1
  <2> HIDE DEF Computes
  <2> QED  BY <1>1, <2>2
<1>3. m - 1 \in Nat /\ m - 1 \notin Without
  <2>1. m \in Nat  OBVIOUS
  <2>2. m - 1 \in Nat /\ ~ (m <= m - 1)  BY <1>2, <2>1
  <2> QED  BY <1>1, <2>2, Zenon
<1>4. PICK f : Computes(m - 1, f)  BY <1>3
<1> DEFINE h == [k \in 0 .. m |-> Value(k, f)]
<1>5. \A k \in 0 .. m - 1 : f[k] = Value(k, f) /\ h[k] = f[k]  BY <1>3, <1>4
<1>6. \A k \in 0 .. m : Value(k, f) = Value(k, h)
  <2> TAKE k \in 0 .. m
  <2>1. k = 0 \/ k - 1 \in 0 .. m - 1  BY <1>3
  <2> HIDE DEF h
  <2> QED  BY <1>5, <2>1
<1>7. h = [k \in 0 .. m |-> Value(k, h)]
  <2>1. h = [k \in 0 .. m |-> Value(k, f)]  OBVIOUS
  <2> HIDE DEF h, Value
  <2> QED  BY <1>6, <2>1
<1> HIDE DEF h
<1>8. \E e : Computes(m, e)  BY <1>7
<1> QED  BY <1>1, <1>8

(* Among finite sets that are wanted there is one of which none is wanted  *)
(* any more with one element less.                                         *)
LEMMA SmallestSet ==
  ASSUME NEW S, IsFiniteSet(S), NEW wanted \in SUBSET SUBSET S, wanted # {}
  PROVE  \E T \in wanted : IsFiniteSet(T) /\ \A x \in T : T \ {x} \notin wanted
<1> DEFINE sizes == {Cardinality(T) : T \in wanted}
<1>1. \A T \in wanted : T \in SUBSET S /\ IsFiniteSet(T) /\ Cardinality(T) \in Nat
  BY FS_Subset, FS_CardinalityType
<1>2. sizes \in SUBSET Nat /\ sizes # {}  BY <1>1
<1>3. PICK T \in wanted : \A U \in wanted : Cardinality(T) <= Cardinality(U)
  <2>1. PICK c \in sizes : \A d \in sizes : c <= d  BY <1>2, Least, Zenon
  <2> QED  BY <2>1
<1>4. ASSUME NEW x \in T  PROVE T \ {x} \notin wanted
  <2>1. Cardinality(T \ {x}) = Cardinality(T) - 1  BY <1>1, <1>3, FS_RemoveElement
  <2>2. Cardinality(T) \in Nat  BY <1>1, <1>3
  <2>3. ~ (Cardinality(T) <= Cardinality(T \ {x}))  BY <2>1, <2>2
  <2> QED  BY <1>3, <2>3
<1> QED  BY <1>1, <1>3, <1>4

(* The values of a function on a finite set are finitely many.             *)
LEMMA FiniteImage ==
  ASSUME NEW S, IsFiniteSet(S), NEW f
  PROVE  IsFiniteSet({f[x] : x \in S})
<1> DEFINE T == {f[x] : x \in S}
           g == [x \in S |-> f[x]]
<1>1. g \in [S -> T] /\ \A y \in T : \E x \in S : g[x] = y  OBVIOUS
<1>2. g \in Surjection(S, T)  BY <1>1 DEF Surjection
<1> HIDE DEF g, T
<1>3. IsFiniteSet(T)  BY <1>2, FS_Surjection
<1> QED  BY <1>3 DEF T

(* A finite set of integers has a greatest element, and Max is that.       *)
LEMMA MaxFacts ==
  ASSUME NEW S \in SUBSET Int, IsFiniteSet(S), S # {}
  PROVE  Max(S) \in S /\ \A x \in S : x <= Max(S)
<1> DEFINE Top(T) == \E x \in T : \A y \in T : y <= x
           bad == {T \in SUBSET S : T # {} /\ ~ Top(T)}
<1>1. ASSUME bad # {}  PROVE FALSE
  <2>1. PICK T \in bad : \A x \in T : T \ {x} \notin bad
    <3>1. bad \in SUBSET SUBSET S  OBVIOUS
    <3> HIDE DEF bad
    <3> QED  BY <1>1, <3>1, SmallestSet
  <2>2. T \in SUBSET S /\ T # {} /\ ~ Top(T)  OBVIOUS
  <2>3. PICK x \in T : TRUE  BY <2>2
  <2>4. T \ {x} = {} \/ Top(T \ {x})  BY <2>1, <2>2
  <2>5. \A y \in T : y \in Int  BY <2>2
  <2>6. CASE T \ {x} = {}
    <3>1. \A y \in T : y = x  BY <2>6
    <3> QED  BY <2>2, <2>3, <2>5, <3>1
  <2>7. CASE Top(T \ {x})
    <3>1. PICK z \in T \ {x} : \A y \in T \ {x} : y <= z  BY <2>7
    <3>2. z \in Int /\ x \in Int /\ z \in T  BY <2>5, <3>1
    <3>3. CASE x <= z
      <4>1. \A y \in T : y <= z  BY <3>1, <3>3
      <4> QED  BY <2>2, <3>2, <4>1
    <3>4. CASE z <= x
      <4>1. \A y \in T : y <= x  BY <2>5, <3>1, <3>2, <3>4
      <4> QED  BY <2>2, <2>3, <4>1
    <3> QED  BY <3>2, <3>3, <3>4
  <2> QED  BY <2>4, <2>6, <2>7
<1>2. PICK x \in S : \A y \in S : y <= x
  <2>1. Top(S)  BY <1>1
  <2> QED  BY <2>1
<1>3. \A y \in S : x >= y  BY <1>2
<1>4. Max(S) \in S /\ \A y \in S : Max(S) >= y  BY <1>2, <1>3 DEF Max
<1> QED  BY <1>4

(* Sums keep the order of what is summed.                                  *)
LEMMA SumsInOrder ==
  ASSUME NEW S, IsFiniteSet(S), NEW f, NEW g,
         \A x \in S : f[x] \in Int /\ g[x] \in Int /\ f[x] <= g[x]
  PROVE  SumOver(f, S) <= SumOver(g, S)
<1> DEFINE bad == {T \in SUBSET S : ~ (SumOver(f, T) <= SumOver(g, T))}
<1>1. ASSUME bad # {}  PROVE FALSE
  <2>1. PICK T \in bad : IsFiniteSet(T) /\ \A x \in T : T \ {x} \notin bad
    <3>1. bad \in SUBSET SUBSET S  OBVIOUS
    <3> HIDE DEF bad
    <3> QED  BY <1>1, <3>1, SmallestSet
  <2>2. T \in SUBSET S /\ ~ (SumOver(f, T) <= SumOver(g, T))  OBVIOUS
  <2>3. /\ SumOver(f, T) \in Int /\ SumOver(g, T) \in Int
        /\ SumOver(f, {}) = 0 /\ SumOver(g, {}) = 0
        /\ \A x \in T : SumOver(f, T) = f[x] + SumOver(f, T \ {x})
                     /\ SumOver(g, T) = g[x] + SumOver(g, T \ {x})
    BY <2>1, <2>2, SumFacts
  <2>4. T # {}  BY <2>2, <2>3
  <2>5. PICK x \in T : TRUE  BY <2>4
  <2>6. SumOver(f, T \ {x}) <= SumOver(g, T \ {x})  BY <2>1, <2>2
  <2>7. SumOver(f, T \ {x}) \in Int /\ SumOver(g, T \ {x}) \in Int
    <3>1. IsFiniteSet(T \ {x}) /\ \A y \in T \ {x} : f[y] \in Int /\ g[y] \in Int
      BY <2>1, <2>2, FS_Subset
    <3> QED  BY <3>1, SumFacts
  <2>8. f[x] \in Int /\ g[x] \in Int /\ f[x] <= g[x]  BY <2>2
  <2> QED  BY <2>2, <2>3, <2>6, <2>7, <2>8
<1> QED  BY <1>1

(* A sum with one element more, the others being the same.                 *)
LEMMA SumMoves ==
  ASSUME NEW S, IsFiniteSet(S), NEW f, NEW g, NEW x \in S,
         \A y \in S : f[y] \in Int /\ g[y] \in Int,
         \A y \in S \ {x} : f[y] = g[y]
  PROVE  SumOver(g, S) = SumOver(f, S) + g[x] - f[x]
<1> DEFINE rest == S \ {x}
<1>1. IsFiniteSet(rest) /\ \A y \in rest : f[y] \in Int /\ g[y] \in Int /\ f[y] <= g[y] /\ g[y] <= f[y]
  BY FS_Subset
<1>2. SumOver(f, S) = f[x] + SumOver(f, rest) /\ SumOver(g, S) = g[x] + SumOver(g, rest)
  BY SumFacts
<1> HIDE DEF rest
<1>3. SumOver(f, rest) <= SumOver(g, rest) /\ SumOver(g, rest) <= SumOver(f, rest)
  BY <1>1, SumsInOrder
<1>4. SumOver(f, rest) \in Int /\ SumOver(g, rest) \in Int  BY <1>1, SumFacts
<1> QED  BY <1>2, <1>3, <1>4

(* Equal summands, equal sums; and a sum of naturals is at least each.     *)
LEMMA SumsEqual ==
  ASSUME NEW S, IsFiniteSet(S), NEW f, NEW g, \A x \in S : f[x] \in Int /\ g[x] = f[x]
  PROVE  SumOver(g, S) = SumOver(f, S)
<1>1. SumOver(f, S) <= SumOver(g, S) /\ SumOver(g, S) <= SumOver(f, S)  BY SumsInOrder
<1>2. SumOver(f, S) \in Int /\ SumOver(g, S) \in Int  BY SumFacts
<1> QED  BY <1>1, <1>2

LEMMA SumOfNaturals ==
  ASSUME NEW S, IsFiniteSet(S), NEW f, \A x \in S : f[x] \in Nat
  PROVE  /\ SumOver(f, S) \in Nat
         /\ \A x \in S : f[x] <= SumOver(f, S)
         /\ SumOver(f, S) = 0 <=> \A x \in S : f[x] = 0
<1> DEFINE bad == {T \in SUBSET S : ~ (SumOver(f, T) \in Nat)}
<1>0. \A T \in SUBSET S :
        /\ IsFiniteSet(T) /\ SumOver(f, T) \in Int /\ SumOver(f, {}) = 0
        /\ \A x \in T : SumOver(f, T) = f[x] + SumOver(f, T \ {x})
  <2> TAKE T \in SUBSET S
  <2>1. IsFiniteSet(T) /\ \A x \in T : f[x] \in Int  BY FS_Subset
  <2> QED  BY <2>1, SumFacts
<1>1. ASSUME bad # {}  PROVE FALSE
  <2>1. PICK T \in bad : \A x \in T : T \ {x} \notin bad
    <3>1. bad \in SUBSET SUBSET S  OBVIOUS
    <3> HIDE DEF bad
    <3> QED  BY <1>1, <3>1, SmallestSet
  <2>2. T \in SUBSET S /\ ~ (SumOver(f, T) \in Nat)  OBVIOUS
  <2>3. CASE T = {}  BY <1>0, <2>2, <2>3
  <2>4. CASE T # {}
    <3>1. PICK x \in T : TRUE  BY <2>4
    <3>2. SumOver(f, T) = f[x] + SumOver(f, T \ {x}) /\ f[x] \in Nat  BY <1>0, <2>2
    <3>3. SumOver(f, T \ {x}) \in Nat  BY <2>1, <2>2
    <3> QED  BY <2>2, <3>2, <3>3
  <2> QED  BY <2>3, <2>4
<1>2. \A T \in SUBSET S : SumOver(f, T) \in Nat  BY <1>1
<1>3. \A x \in S : /\ SumOver(f, S) = f[x] + SumOver(f, S \ {x})
                   /\ f[x] \in Nat /\ SumOver(f, S \ {x}) \in Nat
  BY <1>0, <1>2
<1>4. ASSUME NEW x \in S  PROVE f[x] <= SumOver(f, S)
  <2>1. PICK a \in Nat, b \in Nat : a = f[x] /\ b = SumOver(f, S \ {x})  BY <1>3
  <2>2. SumOver(f, S) = a + b /\ f[x] = a  BY <1>3, <2>1
  <2> QED  BY <2>2
<1>5. SumOver(f, S) \in Nat  BY <1>2
<1>6. SumOver(f, S) = 0 => \A x \in S : f[x] = 0  BY <1>3, <1>4
<1>7. ASSUME \A x \in S : f[x] = 0  PROVE SumOver(f, S) = 0
  <2> DEFINE more == {T \in SUBSET S : SumOver(f, T) # 0}
  <2> SUFFICES ASSUME more # {}  PROVE FALSE
    OBVIOUS
  <2>1. PICK T \in more : \A x \in T : T \ {x} \notin more
    <3>1. more \in SUBSET SUBSET S  OBVIOUS
    <3> HIDE DEF more
    <3> QED  BY <3>1, SmallestSet
  <2>2. T \in SUBSET S /\ SumOver(f, T) # 0  OBVIOUS
  <2>3. CASE T = {}  BY <1>0, <2>2, <2>3
  <2>4. CASE T # {}
    <3>1. PICK x \in T : TRUE  BY <2>4
    <3>2. SumOver(f, T) = f[x] + SumOver(f, T \ {x}) /\ f[x] = 0  BY <1>0, <1>7, <2>2
    <3>3. SumOver(f, T \ {x}) = 0  BY <2>1, <2>2
    <3> QED  BY <2>2, <3>2, <3>3
  <2> QED  BY <2>3, <2>4
<1> QED  BY <1>4, <1>5, <1>6, <1>7

(* A part of natural numbers sums up to no more than all of them.          *)
LEMMA SumOfSubset ==
  ASSUME NEW T, IsFiniteSet(T), NEW f, \A x \in T : f[x] \in Nat, NEW S \in SUBSET T
  PROVE  SumOver(f, S) <= SumOver(f, T)
<1> DEFINE bad == {U \in SUBSET T : S \in SUBSET U /\ ~ (SumOver(f, S) <= SumOver(f, U))}
<1>1. ASSUME bad # {}  PROVE FALSE
  <2>1. PICK U \in bad : IsFiniteSet(U) /\ \A x \in U : U \ {x} \notin bad
    <3>1. bad \in SUBSET SUBSET T  OBVIOUS
    <3> HIDE DEF bad
    <3> QED  BY <1>1, <3>1, SmallestSet
  <2>2. U \in SUBSET T /\ S \in SUBSET U /\ ~ (SumOver(f, S) <= SumOver(f, U))  OBVIOUS
  <2>3. IsFiniteSet(S)  BY FS_Subset
  <2>4. SumOver(f, S) \in Int  BY <2>3, SumFacts
  <2>5. U # S  BY <2>2, <2>4
  <2>6. PICK x \in U \ S : TRUE  BY <2>2, <2>5
  <2>7. U \ {x} \in SUBSET T /\ S \in SUBSET (U \ {x})  BY <2>2, <2>6
  <2>8. SumOver(f, S) <= SumOver(f, U \ {x})  BY <2>1, <2>6, <2>7
  <2>9. SumOver(f, U) = f[x] + SumOver(f, U \ {x}) /\ f[x] \in Nat /\ SumOver(f, U \ {x}) \in Int
    <3>1. IsFiniteSet(U \ {x})  BY <2>1, FS_Subset
    <3>2. SumOver(f, U \ {x}) \in Int  BY <2>7, <3>1, SumFacts
    <3>3. SumOver(f, U) = f[x] + SumOver(f, U \ {x})  BY <2>1, <2>2, <2>6, SumFacts
    <3> QED  BY <2>2, <2>6, <3>2, <3>3
  <2> QED  BY <2>2, <2>4, <2>8, <2>9
<1> QED  BY <1>1
=============================================================================
