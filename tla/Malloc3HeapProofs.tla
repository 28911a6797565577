------------------------- MODULE Malloc3HeapProofs --------------------------
(***************************************************************************)
(* Lemmas about the heap of Malloc3, for every heap and request: what its  *)
(* blocks and lists are after a split, a merge, the rounds of sfree and    *)
(* the rounds of srealloc.                                                 *)
(***************************************************************************)
EXTENDS Malloc3HeapTerms, WellFoundedInduction, TLAPS

(* Every non-empty set of naturals has a least element. *)
LEMMA LeastNatural ==
    ASSUME NEW T, T \subseteq Nat, T # {}
    PROVE  \E x \in T : \A y \in T : x <= y
<1> DEFINE R == OpToRel(<, Nat)
<1>1. PICK x \in T : \A y \in T : ~ (<<y, x>> \in R)
  <2> HIDE DEF R
  <2>1. IsWellFoundedOn(R, Nat)
    BY Zenon, NatLessThanWellFounded DEF R
  <2> QED BY Zenon, <2>1, WFMin
<1>2. ASSUME NEW y \in T PROVE x <= y
  <2>1. ~(y < x)
    BY Zenon, <1>1 DEF OpToRel
  <2> QED BY <2>1
<1> QED BY <1>2

(* What concatenation returns. *)
LEMMA SeqConcat ==
    ASSUME NEW S, NEW s \in Seq(S), NEW t \in Seq(S)
    PROVE  /\ s \o t \in Seq(S) /\ Len(s \o t) = Len(s) + Len(t)
           /\ \A i \in 1..(Len(s) + Len(t)) :
                 (s \o t)[i] = IF i <= Len(s) THEN s[i] ELSE t[i - Len(s)]
OBVIOUS

(* What SubSeq returns. *)
LEMMA SeqPart ==
    ASSUME NEW S, NEW s, NEW m \in Int, NEW n \in Int, \A i \in m..n : s[i] \in S
    PROVE  /\ SubSeq(s, m, n) \in Seq(S)
           /\ Len(SubSeq(s, m, n)) = IF m <= n THEN n - m + 1 ELSE 0
           /\ \A i \in 1..(n - m + 1) : SubSeq(s, m, n)[i] = s[m + i - 1]
OBVIOUS
-----------------------------------------------------------------------------
(* A power of two is positive. *)
LEMMA PowersPositive == \A P : Doubling(P) => \A n \in Nat : P[n] \in Nat \ {0}
<1> TAKE P
<1> DEFINE T == {n \in Nat : P[n] \notin Nat \ {0}}
<1> SUFFICES ASSUME Doubling(P), T # {} PROVE FALSE
  OBVIOUS
<1>1. PICK n \in T : \A m \in T : n <= m
  <2>1. T \subseteq Nat
    OBVIOUS
  <2> HIDE DEF T
  <2> QED BY Zenon, <2>1, LeastNatural
<1>2. CASE n = 0
  BY <1>1, <1>2 DEF Doubling
<1>3. CASE n # 0
  <2>1. n - 1 \in Nat /\ n - 1 \notin T /\ (n - 1) + 1 = n
    BY <1>1, <1>3
  <2>2. P[n - 1] \in Nat \ {0} /\ P[(n - 1) + 1] = 2 * P[n - 1]
    BY <2>1 DEF Doubling
  <2> QED BY <1>1, <2>1, <2>2
<1> QED BY <1>2, <1>3

(* Multiples are what the code tests with a remainder. *)
LEMMA MultipleIsAligned ==
    \A a \in Nat, p \in Nat \ {0} : Multiple(a, p) <=> a % p = 0
<1> TAKE a \in Nat, p \in Nat \ {0}
<1>1. a = p * (a \div p) + (a % p) /\ a \div p \in Nat
  OBVIOUS
<1>2. \A q \in Nat : (q * p) % p = 0
  OBVIOUS
<1>3. a % p = 0 => Multiple(a, p)
  <2>1. a % p = 0 => a = (a \div p) * p
    BY <1>1
  <2> QED BY <1>1, <2>1 DEF Multiple
<1> QED BY Zenon, <1>2, <1>3 DEF Multiple

(* A power divides the greater ones. *)
LEMMA PowersDivide ==
    ASSUME NEW P, Doubling(P), NEW j \in Nat, NEW k \in Nat, j <= k
    PROVE  \E m \in Nat \ {0} : P[k] = m * P[j]
<1> DEFINE T == {n \in Nat : ~ \E m \in Nat \ {0} : P[j + n] = m * P[j]}
<1>0. \A n \in Nat : P[n] \in Nat \ {0}
  BY PowersPositive
<1>1. T = {}
  <2> SUFFICES ASSUME T # {} PROVE FALSE
    OBVIOUS
  <2>1. PICK n \in T : \A m \in T : n <= m
    <3>1. T \subseteq Nat
      OBVIOUS
    <3> HIDE DEF T
    <3> QED BY Zenon, <3>1, LeastNatural
  <2>2. CASE n = 0
    <3>1. P[j + n] = 1 * P[j]
      BY <1>0, <2>2
    <3> QED BY <2>1, <3>1
  <2>3. CASE n # 0
    <3>1. n - 1 \in Nat /\ n - 1 \notin T /\ j + (n - 1) \in Nat /\ (j + (n - 1)) + 1 = j + n
      BY <2>1, <2>3
    <3>2. PICK m \in Nat \ {0} : P[j + (n - 1)] = m * P[j]
      BY <3>1
    <3>3. P[j + n] = 2 * P[j + (n - 1)]
      <4>1. P[(j + (n - 1)) + 1] = 2 * P[j + (n - 1)]
        BY <3>1 DEF Doubling
      <4> QED BY <3>1, <4>1
    <3>4. \A x, y \in Nat : 2 * (x * y) = (2 * x) * y /\ (x # 0 => 2 * x \in Nat \ {0})
      OBVIOUS
    <3>5. P[j + n] = (2 * m) * P[j] /\ 2 * m \in Nat \ {0}
      BY <1>0, <3>2, <3>3, <3>4
    <3> QED BY <2>1, <3>5
  <2> QED BY <2>2, <2>3
<1>2. k - j \in Nat /\ j + (k - j) = k
  OBVIOUS
<1>3. k - j \notin T
  BY Zenon, <1>1
<1> QED BY <1>2, <1>3

(* A greater power of two is at least twice as large. *)
LEMMA PowersGrow ==
    ASSUME NEW P, Doubling(P), NEW j \in Nat, NEW k \in Nat, j < k
    PROVE  2 * P[j] <= P[k] /\ P[j] < P[k]
<1>1. j + 1 \in Nat /\ j + 1 <= k
  OBVIOUS
<1>2. PICK m \in Nat \ {0} : P[k] = m * P[j + 1]
  BY Zenon, <1>1, PowersDivide
<1>3. P[j + 1] = 2 * P[j] /\ P[j] \in Nat \ {0}
  BY PowersPositive DEF Doubling
<1>4. \A x \in Nat \ {0}, y \in Nat : y <= x * y
  OBVIOUS
<1> QED BY <1>2, <1>3, <1>4

(* A multiple of a power of two is one of every smaller power. *)
LEMMA MultipleDown ==
    ASSUME NEW P, Doubling(P), NEW j \in Nat, NEW k \in Nat, j <= k, NEW a, Multiple(a, P[k])
    PROVE  Multiple(a, P[j])
<1>1. PICK m \in Nat \ {0} : P[k] = m * P[j]
  BY PowersDivide
<1>2. PICK q \in Nat : a = q * P[k]
  BY DEF Multiple
<1>3. P[j] \in Nat
  BY PowersPositive
<1>4. \A x, y, z \in Nat : x * (y * z) = (x * y) * z /\ x * y \in Nat
  OBVIOUS
<1>5. a = (q * m) * P[j] /\ q * m \in Nat
  BY <1>1, <1>2, <1>3, <1>4
<1> QED BY <1>5 DEF Multiple

(* Different multiples are at least p apart. *)
LEMMA MultiplesApart ==
    ASSUME NEW p \in Nat \ {0}, NEW a, NEW b, Multiple(a, p), Multiple(b, p), a < b
    PROVE  a + p <= b
<1>1. PICK q \in Nat : a = q * p
  BY Zenon DEF Multiple
<1>2. PICK r \in Nat : b = r * p
  BY DEF Multiple
<1>3. \A x, y \in Nat : \A z \in Nat \ {0} : x * z < y * z => x * z + z <= y * z
  OBVIOUS
<1> QED BY <1>1, <1>2, <1>3

(* The sum of two multiples is a multiple. *)
LEMMA MultiplesAdd ==
    ASSUME NEW p \in Nat \ {0}, NEW a, NEW b, Multiple(a, p), Multiple(b, p)
    PROVE  a \in Nat /\ b \in Nat /\ Multiple(a + b, p)
<1>1. PICK q \in Nat : a = q * p
  BY DEF Multiple
<1>2. PICK r \in Nat : b = r * p
  BY DEF Multiple
<1>3. \A x, y, z \in Nat : x * z + y * z = (x + y) * z /\ x * z \in Nat
  OBVIOUS
<1>4. a + b = (q + r) * p /\ q + r \in Nat /\ a \in Nat /\ b \in Nat
  BY <1>1, <1>2, <1>3
<1> QED BY Zenon, <1>4 DEF Multiple

(* The two halves, and where the whole begins. *)
LEMMA FlippedHalf ==
    ASSUME NEW p \in Nat \ {0}, NEW a, Multiple(a, p)
    PROVE  /\ a \in Nat /\ flipped(a, p) \in Nat /\ Multiple(flipped(a, p), p)
           /\ flipped(flipped(a, p), p) = a
           /\ \/ flipped(a, p) = a + p /\ Multiple(a, 2 * p)
              \/ flipped(a, p) + p = a /\ Multiple(flipped(a, p), 2 * p)
<1>1. PICK q \in Nat : a = q * p
  BY DEF Multiple
<1>2. q % 2 \in {0, 1} /\ q = 2 * (q \div 2) + (q % 2) /\ q \div 2 \in Nat
  OBVIOUS
<1>3. \A x \in Nat : (x * p) \div p = x
  OBVIOUS
<1>4. \A x, y \in Nat : x * (2 * y) = (2 * x) * y /\ (x + 1) * y = x * y + y /\ x * y \in Nat
  OBVIOUS
<1>5. CASE q % 2 = 0
  <2>1. flipped(a, p) = a + p
    BY <1>1, <1>3, <1>5 DEF flipped
  <2>2. Multiple(a, 2 * p)
    BY <1>1, <1>2, <1>4, <1>5 DEF Multiple
  <2>3. a + p = (q + 1) * p /\ a \in Nat
    BY <1>1, <1>4
  <2>4. (q + 1) % 2 = 1 /\ q + 1 \in Nat
    BY <1>5
  <2>5. flipped(a + p, p) = (a + p) - p
    <3>1. ((a + p) \div p) % 2 # 0
      BY <1>3, <2>3, <2>4
    <3> QED BY <3>1 DEF flipped
  <2> QED BY <2>1, <2>2, <2>3, <2>4, <2>5 DEF Multiple
<1>6. CASE q % 2 = 1
  <2>1. flipped(a, p) = a - p
    BY <1>1, <1>3, <1>6 DEF flipped
  <2>2. q - 1 \in Nat /\ q - 1 = 2 * (q \div 2) /\ (q - 1) % 2 = 0 /\ (q - 1) + 1 = q
    BY <1>2, <1>6
  <2>3. a - p = (q - 1) * p /\ a \in Nat /\ a - p \in Nat
    BY <1>1, <1>4, <2>2
  <2>4. Multiple(a - p, 2 * p)
    <3>1. (q - 1) * p = (q \div 2) * (2 * p)
      BY <1>2, <1>4, <2>2
    <3> QED BY <1>2, <2>3, <3>1 DEF Multiple
  <2>5. flipped(a - p, p) = (a - p) + p
    <3>1. ((a - p) \div p) % 2 = 0
      BY <1>3, <2>2, <2>3
    <3> QED BY <3>1 DEF flipped
  <2>6. Multiple(a - p, p)
    BY <2>2, <2>3 DEF Multiple
  <2>7. (a - p) + p = a
    BY <2>3
  <2> QED BY <2>1, <2>3, <2>4, <2>5, <2>6, <2>7
<1> QED BY <1>2, <1>5, <1>6

-----------------------------------------------------------------------------

(* There is such a table for every n. *)
LEMMA PowersExist == \A n \in Nat : \E p : Powers(p, n)
<1> DEFINE T == {n \in Nat : ~ \E p : Powers(p, n)}
<1> SUFFICES ASSUME T # {} PROVE FALSE
  OBVIOUS
<1>1. PICK n \in T : \A m \in T : n <= m
  <2>1. T \subseteq Nat
    OBVIOUS
  <2> HIDE DEF T
  <2> QED BY Zenon, <2>1, LeastNatural
<1>2. CASE n = 0
  <2> DEFINE p == [k \in 0..0 |-> 1]
  <2>1. Powers(p, 0)
    BY DEF Powers
  <2> QED BY <1>1, <1>2, <2>1
<1>3. CASE n # 0
  <2>1. n - 1 \in Nat /\ n \in Nat /\ n - 1 \notin T
    BY <1>1, <1>3
  <2>2. PICK q : Powers(q, n - 1)
    BY <2>1
  <2>3. \A k \in 0..(n - 1) : q[k] = IF k = 0 THEN 1 ELSE 2 * q[k - 1]
    BY <2>2 DEF Powers
  <2> DEFINE p == [k \in 0..n |-> IF k = n THEN 2 * q[n - 1] ELSE q[k]]
  <2>4. \A k \in 0..n : k # n => k \in 0..(n - 1) /\ p[k] = q[k]
    BY <2>1
  <2>5. \A k \in 0..n : k # 0 => p[k - 1] = q[k - 1]
    BY <2>1
  <2>6. ASSUME NEW k \in 0..n PROVE p[k] = IF k = 0 THEN 1 ELSE 2 * p[k - 1]
    <3>1. CASE k = n
      <4>1. p[k] = 2 * q[n - 1] /\ p[k - 1] = q[k - 1]
        BY <1>3, <2>1, <2>5, <3>1
      <4> HIDE DEF p
      <4> QED BY <1>3, <3>1, <4>1
    <3>2. CASE k # n
      <4>1. k \in 0..(n - 1) /\ p[k] = q[k] /\ (k # 0 => p[k - 1] = q[k - 1])
        BY <2>4, <2>5, <3>2
      <4> HIDE DEF p
      <4> QED BY <2>3, <4>1
    <3> QED BY <3>1, <3>2
  <2>7. Powers(p, n)
    <3>1. p = [k \in 0..n |-> p[k]]
      OBVIOUS
    <3> HIDE DEF p
    <3> QED BY Zenon, <2>6, <3>1 DEF Powers
  <2> QED BY <1>1, <2>7
<1> QED BY <1>2, <1>3

(* Two of them agree as far as both go. *)
LEMMA PowersAgree ==
    ASSUME NEW m \in Nat, NEW n \in Nat, NEW p, NEW q, Powers(p, m), Powers(q, n)
    PROVE  \A k \in Nat : k <= m /\ k <= n => p[k] = q[k]
<1> DEFINE T == {k \in Nat : k <= m /\ k <= n /\ p[k] # q[k]}
<1> SUFFICES ASSUME T # {} PROVE FALSE
  OBVIOUS
<1>1. PICK k \in T : \A j \in T : k <= j
  <2>1. T \subseteq Nat
    OBVIOUS
  <2> HIDE DEF T
  <2> QED BY Zenon, <2>1, LeastNatural
<1>2. /\ \A i \in 0..m : p[i] = IF i = 0 THEN 1 ELSE 2 * p[i - 1]
      /\ \A i \in 0..n : q[i] = IF i = 0 THEN 1 ELSE 2 * q[i - 1]
  BY DEF Powers
<1>3. k \in 0..m /\ k \in 0..n /\ p[k] # q[k]
  BY <1>1
<1>4. k # 0
  BY <1>2, <1>3
<1>5. k - 1 \in Nat /\ k - 1 <= m /\ k - 1 <= n /\ k - 1 \notin T
  BY <1>1, <1>3, <1>4
<1>6. p[k - 1] = q[k - 1]
  BY <1>5
<1> QED BY <1>2, <1>3, <1>4, <1>6

(* The sizes double from order to order. *)
LEMMA SizesDouble == Doubling(pow2)
<1> DEFINE p(n) == CHOOSE f : Powers(f, n)
           g == [n \in Nat |-> p(n)[n]]
<1>1. \A n \in Nat : Powers(p(n), n)
  BY PowersExist
<1>2. ASSUME NEW n \in Nat PROVE g[n] = IF n = 0 THEN 1 ELSE 2 * g[n - 1]
  <2>1. Powers(p(n), n)
    BY <1>1
  <2>2. p(n)[n] = IF n = 0 THEN 1 ELSE 2 * p(n)[n - 1]
    <3> HIDE DEF p
    <3> QED BY <2>1 DEF Powers
  <2>3. ASSUME n # 0 PROVE p(n)[n - 1] = p(n - 1)[n - 1]
    <3>1. n - 1 \in Nat /\ n - 1 <= n - 1 /\ n - 1 <= n
      BY <2>3
    <3>2. Powers(p(n - 1), n - 1)
      BY <1>1, <3>1
    <3> HIDE DEF p
    <3> QED BY <2>1, <3>1, <3>2, PowersAgree
  <2>4. g[n] = p(n)[n] /\ (n # 0 => g[n - 1] = p(n - 1)[n - 1])
    <3> HIDE DEF p
    <3> QED OBVIOUS
  <2> HIDE DEF p, g
  <2> QED BY <2>2, <2>3, <2>4
<1>3. g = [n \in Nat |-> IF n = 0 THEN 1 ELSE 2 * g[n - 1]]
  <2>1. g = [n \in Nat |-> g[n]]
    OBVIOUS
  <2> HIDE DEF g
  <2> QED BY Zenon, <1>2, <2>1
<1>4. pow2 = [n \in Nat |-> IF n = 0 THEN 1 ELSE 2 * pow2[n - 1]]
  <2> HIDE DEF g
  <2> QED BY <1>3 DEF pow2
<1>5. \A n \in Nat : pow2[n] = IF n = 0 THEN 1 ELSE 2 * pow2[n - 1]
  BY <1>4
<1>6. \A n \in Nat : n + 1 \in Nat /\ n + 1 # 0 /\ (n + 1) - 1 = n
  OBVIOUS
<1> QED BY <1>5, <1>6 DEF Doubling

(* The sizes of the blocks and of the heap. *)
LEMMA SizeFacts ==
    /\ \A k \in Nat : pow2[k] \in Nat \ {0} /\ pow2[k + 1] = 2 * pow2[k]
    /\ \A j, k \in Nat : j < k => 2 * pow2[j] <= pow2[k]
    /\ Units \in Nat \ {0} /\ MaxOrder \in Nat
    /\ \A k \in Orders : k \in Nat /\ Multiple(Units, pow2[k])
    /\ \A x \in Addr : x \in Nat
<1>1. \A k \in Nat : pow2[k] \in Nat \ {0} /\ pow2[k + 1] = 2 * pow2[k]
  BY SizesDouble, PowersPositive DEF Doubling
<1>2. \A j, k \in Nat : j < k => 2 * pow2[j] <= pow2[k]
  BY SizesDouble, PowersGrow
<1>3. MaxOrder \in Nat /\ Roots \in Nat \ {0}
  BY HeapAssumption
<1>4. Units \in Nat \ {0}
  <2>1. pow2[MaxOrder] \in Nat \ {0}
    BY <1>1, <1>3
  <2>2. \A x, y \in Nat \ {0} : x * y \in Nat \ {0}
    OBVIOUS
  <2> QED BY <1>3, <2>1, <2>2 DEF Units
<1>5. Multiple(Units, pow2[MaxOrder])
  BY <1>3 DEF Multiple, Units
<1>6. ASSUME NEW k \in Orders PROVE k \in Nat /\ Multiple(Units, pow2[k])
  <2>1. k \in Nat /\ k <= MaxOrder
    BY <1>3 DEF Orders
  <2> QED BY <1>3, <1>5, <2>1, SizesDouble, MultipleDown
<1>7. \A x \in Addr : x \in Nat
  BY <1>4 DEF Addr
<1> QED BY <1>1, <1>2, <1>3, <1>4, <1>6, <1>7

-----------------------------------------------------------------------------

(* What is known of a block. *)
LEMMA BlockFacts ==
    ASSUME NEW md, Tiled(md), NEW a \in Live(md)
    PROVE  /\ a \in Addr /\ a \in Nat /\ md[a] \in Metadata
           /\ md[a].order \in Orders /\ md[a].order \in Nat /\ md[a].is_free \in BOOLEAN
           /\ pow2[md[a].order] \in Nat \ {0}
           /\ Multiple(a, pow2[md[a].order]) /\ EndOf(md, a) <= Units
<1>1. a \in Addr /\ md[a] \in Metadata
  BY DEF Tiled, Live
<1>2. md[a].order \in Orders /\ md[a].is_free \in BOOLEAN
  BY <1>1 DEF Metadata
<1>3. md[a].order \in Nat /\ Multiple(Units, pow2[md[a].order]) /\ a \in Nat
      /\ pow2[md[a].order] \in Nat \ {0}
  BY <1>1, <1>2, SizeFacts
<1>4. Multiple(a, pow2[md[a].order])
  BY DEF Tiled
<1>5. a < Units
  BY <1>1, <1>3, SizeFacts DEF Addr
<1>6. a + pow2[md[a].order] <= Units
  BY <1>3, <1>4, <1>5, MultiplesApart
<1> QED BY <1>1, <1>2, <1>3, <1>4, <1>6 DEF EndOf

(* findNeighboringBlock flips the bit of the size. *)
LEMMA NeighbourIsFlipped ==
    \A a, k : findNeighboringBlock(a, k) = flipped(a, pow2[k])
BY DEF findNeighboringBlock, flipped

(* Where a neighbour is looked for. *)
LEMMA NeighbourFacts ==
    ASSUME NEW md, Tiled(md), NEW a \in Live(md), md[a].order # MaxOrder,
           NEW b, b = findNeighboringBlock(a, md[a].order),
           NEW p, p = pow2[md[a].order]
    PROVE  /\ p \in Nat \ {0} /\ a \in Nat /\ b \in Nat /\ Multiple(b, p)
           /\ findNeighboringBlock(b, md[a].order) = a
           /\ md[a].order + 1 \in Orders /\ pow2[md[a].order + 1] = 2 * p
           /\ \/ b = a + p /\ Multiple(a, 2 * p)
              \/ b + p = a /\ Multiple(b, 2 * p)
           /\ b + p <= Units /\ b \in Addr
<1> DEFINE k == md[a].order
<1>1. /\ k \in Orders /\ k \in Nat /\ p \in Nat \ {0} /\ Multiple(a, p) /\ a \in Addr
      /\ a \in Nat /\ a + p <= Units
  BY BlockFacts DEF EndOf
<1>2. k + 1 \in Orders /\ k + 1 \in Nat
  <2>1. MaxOrder \in Nat
    BY SizeFacts
  <2>2. \A x \in 0..MaxOrder : x # MaxOrder => x + 1 \in 0..MaxOrder /\ x + 1 \in Nat
    BY <2>1
  <2> QED BY <1>1, <2>2 DEF Orders
<1>3. pow2[k + 1] = 2 * p /\ Multiple(Units, 2 * p) /\ Units \in Nat
  BY Zenon, <1>1, <1>2, SizeFacts
<1>4. b = flipped(a, p) /\ findNeighboringBlock(b, k) = flipped(b, p)
  BY NeighbourIsFlipped
<1> HIDE DEF k
<1>5. /\ b \in Nat /\ Multiple(b, p) /\ flipped(b, p) = a
      /\ \/ b = a + p /\ Multiple(a, 2 * p)
         \/ b + p = a /\ Multiple(b, 2 * p)
  BY <1>1, <1>4, FlippedHalf
<1>6. b + p <= Units
  <2>1. CASE b = a + p /\ Multiple(a, 2 * p)
    <3>1. a < Units /\ 2 * p \in Nat \ {0}
      BY <1>1, <1>3
    <3>2. a + 2 * p <= Units
      BY <1>3, <2>1, <3>1, MultiplesApart
    <3> QED BY <1>1, <1>3, <2>1, <3>2
  <2>2. CASE b + p = a
    BY <1>1, <1>3, <2>2
  <2> QED BY <1>5, <2>1, <2>2
<1>7. b \in Addr
  BY <1>1, <1>3, <1>5, <1>6 DEF Addr
<1> QED BY <1>1, <1>2, <1>3, <1>4, <1>5, <1>6, <1>7 DEF k

(* The neighbour of a neighbour is the block itself. *)
LEMMA NeighbourOf ==
    ASSUME NEW md, Tiled(md), NEW a \in Live(md), md[a].order # MaxOrder,
           NEW b, b = findNeighboringBlock(a, md[a].order)
    PROVE  IsNeighbour(a, b, md[a].order)
<1> DEFINE p == pow2[md[a].order]
<1>1. /\ p \in Nat \ {0} /\ a \in Nat /\ b \in Nat /\ b \in Addr
      /\ findNeighboringBlock(b, md[a].order) = a
      /\ b = a + p \/ b + p = a
  BY NeighbourFacts
<1> HIDE DEF p
<1>2. b # a
  BY <1>1
<1> QED BY <1>1, <1>2 DEF IsNeighbour

(* At a neighbour's address a block begins, and it is not larger. *)
LEMMA NeighbourIsBlock ==
    ASSUME NEW md, Tiled(md), NEW a \in Live(md), md[a].order # MaxOrder,
           NEW b, b = findNeighboringBlock(a, md[a].order)
    PROVE  b \in Live(md) /\ md[b].order <= md[a].order
<1> DEFINE k == md[a].order
           p == pow2[k]
<1>1. /\ p \in Nat \ {0} /\ a \in Nat /\ b \in Nat /\ Multiple(b, p) /\ b \in Addr
      /\ \/ b = a + p /\ Multiple(a, 2 * p)
         \/ b + p = a /\ Multiple(b, 2 * p)
  BY NeighbourFacts
<1>2. PICK c \in Live(md) : c <= b /\ b < EndOf(md, c)
  BY <1>1 DEF Tiled
<1> DEFINE j == md[c].order
           q == pow2[j]
<1>3. c \in Nat /\ j \in Nat /\ q \in Nat \ {0} /\ Multiple(c, q) /\ EndOf(md, c) = c + q
  BY BlockFacts DEF EndOf
<1>4. k \in Nat /\ EndOf(md, a) = a + p
  BY BlockFacts DEF EndOf
<1>5. a < c => a + p <= c
  BY <1>4 DEF Tiled
<1>6. c < a => c + q <= a
  BY <1>3 DEF Tiled
<1>7. Doubling(pow2) /\ pow2[k + 1] = 2 * p
  BY <1>4, SizesDouble, SizeFacts
<1>8. a # b /\ c # a
  <2>1. a # b
    BY <1>1
  <2>2. ASSUME c = a PROVE FALSE
    <3>1. b < a + p /\ a <= b
      BY <1>2, <1>4, <2>2
    <3> HIDE DEF p
    <3> QED BY <1>1, <3>1
  <2> QED BY <2>1, <2>2
<1> HIDE DEF p, q, k, j
<1>9. j <= k
  <2> SUFFICES ASSUME j > k PROVE FALSE
    BY <1>3, <1>4
  <2>1. k + 1 \in Nat /\ k + 1 <= j
    BY <1>3, <1>4
  <2>2. Multiple(c, 2 * p) /\ 2 * p \in Nat \ {0} /\ 2 * p <= q
    <3>1. Multiple(c, pow2[k + 1])
      BY <1>3, <1>7, <2>1, MultipleDown DEF q
    <3>2. 2 * p <= q
      BY <1>3, <1>4, SizeFacts DEF p, q
    <3> QED BY <1>1, <1>7, <3>1, <3>2
  <2>3. CASE b = a + p /\ Multiple(a, 2 * p)
    <3>1. a < c
      BY <1>1, <1>2, <1>3, <1>6, <1>8, <2>3
    <3>2. a + 2 * p <= c
      BY <2>2, <2>3, <3>1, MultiplesApart
    <3> QED BY <1>1, <1>2, <1>3, <2>3, <3>2
  <2>4. CASE b + p = a /\ Multiple(b, 2 * p)
    <3>1. c < a
      BY <1>1, <1>2, <1>3, <2>4
    <3>2. CASE c = b
      BY <1>1, <1>3, <1>6, <2>2, <2>4, <3>1, <3>2
    <3>3. CASE c < b
      <4>1. c + q <= b + p
        BY <1>6, <2>4, <3>1
      <4>2. c + q > b
        BY <1>2, <1>3
      <4>3. Multiple(c + q, 2 * p)
        <5>1. Multiple(q, q)
          <6>1. q = 1 * q
            BY <1>3
          <6> QED BY <6>1 DEF Multiple
        <5>2. Multiple(q, pow2[k + 1])
          BY <1>3, <1>7, <2>1, <5>1, MultipleDown DEF q
        <5>3. Multiple(q, 2 * p)
          BY <1>7, <5>2
        <5> QED BY <2>2, <5>3, MultiplesAdd
      <4>4. b + 2 * p <= c + q
        BY <2>2, <2>4, <4>2, <4>3, MultiplesApart
      <4> QED BY <1>1, <1>3, <4>1, <4>4
    <3> QED BY <1>1, <1>2, <1>3, <3>2, <3>3
  <2> QED BY <1>1, <2>3, <2>4
<1>10. c = b
  <2> SUFFICES ASSUME c < b PROVE FALSE
    BY <1>1, <1>2, <1>3
  <2>1. Multiple(b, q)
    BY <1>1, <1>3, <1>4, <1>7, <1>9, MultipleDown DEF p, q
  <2>2. c + q <= b
    BY <1>3, <2>1, MultiplesApart
  <2> QED BY <1>1, <1>2, <1>3, <2>2
<1> QED BY <1>9, <1>10 DEF j, k

(* A merge leaves the heap tiled. *)
LEMMA MergedTiled ==
    ASSUME NEW md, NEW md2, NEW lo, NEW hi,
           Tiled(md), Halves(md, lo, hi), Merged(md, md2, lo, hi)
    PROVE  Tiled(md2) /\ Live(md2) = Live(md) \ {hi}
<1> DEFINE p == pow2[md[lo].order]
<1>1. /\ lo \in Live(md) /\ hi \in Live(md) /\ hi = lo + p /\ Multiple(lo, 2 * p)
      /\ md[hi].order = md[lo].order
  BY DEF Halves
<1>2. /\ lo \in Nat /\ lo \in Addr /\ hi \in Nat /\ hi \in Addr /\ p \in Nat \ {0}
      /\ md[lo].order \in Nat
  BY Zenon, <1>1, BlockFacts
<1>3. EndOf(md, lo) = hi /\ EndOf(md, hi) = hi + p
  BY <1>1 DEF EndOf
<1>4. lo < hi
  BY <1>1, <1>2
<1>5. Live(md2) = Live(md) \ {hi}
  <2>1. ASSUME NEW x \in Addr PROVE md2[x] # NoMD <=> md[x] # NoMD /\ x # hi
    BY <1>1, <1>4 DEF Merged, Live
  <2> QED BY <2>1 DEF Live
<1>6. pow2[md2[lo].order] = 2 * p /\ EndOf(md2, lo) = hi + p
  <2>1. md2[lo].order = md[lo].order + 1
    BY DEF Merged
  <2>2. pow2[md[lo].order + 1] = 2 * p
    BY <1>2, SizeFacts
  <2>3. pow2[md2[lo].order] = 2 * p
    BY <2>1, <2>2
  <2> HIDE DEF p
  <2>4. lo + 2 * p = hi + p
    BY <1>1, <1>2
  <2> QED BY <2>3, <2>4 DEF EndOf
<1>7. ASSUME NEW c \in Live(md2), c # lo
      PROVE  c \in Live(md) /\ c # hi /\ md2[c] = md[c] /\ EndOf(md2, c) = EndOf(md, c)
  <2>1. c \in Live(md) /\ c # hi /\ c \in Addr
    BY <1>5 DEF Live
  <2>2. md2[c] = md[c]
    BY <1>7, <2>1 DEF Merged
  <2> QED BY <2>1, <2>2 DEF EndOf
<1> HIDE DEF p
<1>8. \A c \in Live(md2) : Multiple(c, pow2[md2[c].order])
  BY <1>1, <1>6, <1>7 DEF Tiled
<1>9. ASSUME NEW c \in Live(md2), NEW d \in Live(md2), c < d PROVE EndOf(md2, c) <= d
  <2>1. CASE c = lo
    <3>1. d # lo /\ d # hi /\ d \in Live(md)
      BY <1>2, <1>7, <1>9, <2>1
    <3>2. d \in Nat
      BY <3>1, BlockFacts
    <3>3. hi <= d
      BY <1>1, <1>3, <1>9, <2>1, <3>1 DEF Tiled
    <3>4. hi < d
      BY <1>2, <3>1, <3>2, <3>3
    <3>5. hi + p <= d
      BY <1>1, <1>3, <3>1, <3>4 DEF Tiled
    <3> QED BY <1>6, <2>1, <3>5
  <2>2. CASE c # lo
    <3>1. c \in Live(md) /\ EndOf(md2, c) = EndOf(md, c)
      BY <1>7, <2>2
    <3>2. d \in Live(md)
      BY <1>5
    <3> QED BY <1>9, <3>1, <3>2 DEF Tiled
  <2> QED BY <2>1, <2>2
<1>10. ASSUME NEW x \in Addr PROVE \E c \in Live(md2) : c <= x /\ x < EndOf(md2, c)
  <2>1. PICK c \in Live(md) : c <= x /\ x < EndOf(md, c)
    BY DEF Tiled
  <2>2. lo \in Live(md2) /\ x \in Nat
    BY <1>1, <1>2, <1>4, <1>5, SizeFacts
  <2>3. CASE c = lo \/ c = hi
    <3>1. lo <= x /\ x < hi + p
      BY <1>2, <1>3, <1>4, <2>1, <2>2, <2>3
    <3> QED BY <1>6, <2>2, <3>1
  <2>4. CASE c # lo /\ c # hi
    <3>1. c \in Live(md2)
      BY <1>5, <2>4
    <3> QED BY <1>7, <2>1, <2>4, <3>1
  <2> QED BY <2>3, <2>4
<1>11. md2 \in [Addr -> Metadata \cup {NoMD}]
  BY DEF Merged
<1>12. \A c, d \in Live(md2) : c < d => EndOf(md2, c) <= d
  BY <1>9
<1>13. \A x \in Addr : \E c \in Live(md2) : c <= x /\ x < EndOf(md2, c)
  BY <1>10
<1>14. Tiled(md2)
  BY <1>8, <1>11, <1>12, <1>13 DEF Tiled
<1> QED BY <1>5, <1>14

(* The pieces lie within the block. *)
LEMMA PiecesWithin ==
    ASSUME NEW md, Tiled(md), NEW a \in Live(md), NEW k \in Orders, k < md[a].order,
           NEW j \in k..(md[a].order - 1)
    PROVE  /\ j \in Nat /\ j \in Orders /\ j < md[a].order /\ pow2[j] \in Nat \ {0}
           /\ a + pow2[j] \in Addr /\ a + pow2[j] \notin Live(md)
           /\ a + pow2[j] + pow2[j] <= EndOf(md, a)
           /\ Multiple(a + pow2[j], pow2[j]) /\ Multiple(a, pow2[j + 1])
<1> DEFINE i == md[a].order
           p == pow2[j]
<1>1. /\ a \in Addr /\ a \in Nat /\ i \in Orders /\ i \in Nat /\ Multiple(a, pow2[i])
      /\ EndOf(md, a) <= Units /\ EndOf(md, a) = a + pow2[i] /\ pow2[i] \in Nat
  BY BlockFacts DEF EndOf
<1>2. MaxOrder \in Nat /\ Units \in Nat
  BY SizeFacts
<1>3. j \in Nat /\ j < i /\ j + 1 \in Nat /\ j + 1 <= i /\ j \in Orders
  <2>1. k \in 0..MaxOrder /\ i \in 0..MaxOrder
    BY <1>1 DEF Orders
  <2> HIDE DEF i
  <2>2. j \in k..(i - 1)
    BY DEF i
  <2> QED BY <1>1, <1>2, <2>1, <2>2 DEF Orders
<1>4. p \in Nat \ {0} /\ 2 * p <= pow2[i]
  BY <1>1, <1>3, SizeFacts
<1>5. Multiple(a, pow2[j + 1]) /\ Multiple(a, p)
  <2>1. j <= i
    BY <1>1, <1>3
  <2> QED BY <1>1, <1>3, <2>1, SizesDouble, MultipleDown
<1>6. Multiple(a + p, p)
  <2>1. p = 1 * p
    BY <1>4
  <2>2. Multiple(p, p)
    BY <2>1 DEF Multiple
  <2> QED BY <1>4, <1>5, <2>2, MultiplesAdd
<1> HIDE DEF p
<1>7. a + p + p <= EndOf(md, a) /\ a + p < EndOf(md, a) /\ a < a + p
  BY <1>1, <1>4
<1>8. a + p \in Addr
  BY <1>1, <1>2, <1>4, <1>7 DEF Addr
<1>9. a + p \notin Live(md)
  <2> SUFFICES ASSUME a + p \in Live(md) PROVE FALSE
    OBVIOUS
  <2>1. EndOf(md, a) <= a + p
    BY <1>7 DEF Tiled
  <2> QED BY <1>1, <1>4, <1>7, <2>1
<1> QED BY <1>3, <1>4, <1>5, <1>6, <1>7, <1>8, <1>9 DEF p, i

(* Every place of the halved block lies in one of the pieces. *)
LEMMA PieceAt ==
    ASSUME NEW k \in Nat, NEW i \in Nat, k < i, NEW n \in Nat, n < pow2[i]
    PROVE  n < pow2[k] \/ \E j \in k..(i - 1) : pow2[j] <= n /\ n < 2 * pow2[j]
<1> DEFINE T == {m \in Nat : n < pow2[m]}
<1>1. PICK m \in T : \A j \in T : m <= j
  <2>1. T \subseteq Nat /\ i \in T
    OBVIOUS
  <2> HIDE DEF T
  <2> QED BY Zenon, <2>1, LeastNatural
<1>2. m \in Nat /\ n < pow2[m] /\ m <= i
  BY <1>1
<1>3. CASE m <= k
  <2>1. CASE m = k
    BY <1>2, <2>1
  <2>2. CASE m < k
    <3>1. 2 * pow2[m] <= pow2[k] /\ pow2[m] \in Nat /\ pow2[k] \in Nat
      BY <1>2, <2>2, SizeFacts
    <3> QED BY <1>2, <3>1
  <2> QED BY <1>2, <1>3, <2>1, <2>2
<1>4. CASE m > k
  <2>1. m - 1 \in Nat /\ m - 1 \in k..(i - 1) /\ (m - 1) + 1 = m /\ ~(m <= m - 1)
    BY <1>2, <1>4
  <2>2. m - 1 \notin T
    BY <1>1, <2>1
  <2>3. pow2[m] = 2 * pow2[m - 1] /\ pow2[m - 1] \in Nat
    <3>1. pow2[(m - 1) + 1] = 2 * pow2[m - 1] /\ pow2[m - 1] \in Nat
      BY <2>1, SizeFacts
    <3> QED BY <2>1, <3>1
  <2>4. pow2[m - 1] <= n /\ n < 2 * pow2[m - 1]
    BY <1>2, <2>1, <2>2, <2>3
  <2> QED BY <2>1, <2>4
<1> QED BY <1>2, <1>3, <1>4

(* Cutting a block down leaves the heap tiled. *)
LEMMA HalvedTiled ==
    ASSUME NEW md, Tiled(md), NEW a \in Live(md), NEW i, i = md[a].order,
           NEW k \in Orders, k < i, NEW md2, Halved(md, md2, a, i, k)
    PROVE  /\ Tiled(md2)
           /\ Live(md2) = Live(md) \cup {a + pow2[j] : j \in k..(i - 1)}
<1> DEFINE S == {a + pow2[j] : j \in k..(i - 1)}
           e == EndOf(md, a)
<1>1. /\ a \in Addr /\ a \in Nat /\ i \in Orders /\ i \in Nat /\ Multiple(a, pow2[i])
      /\ e = a + pow2[i] /\ pow2[i] \in Nat /\ e \in Nat
  BY BlockFacts DEF EndOf
<1>2. /\ k \in Nat /\ pow2[k] \in Nat \ {0} /\ pow2[k] < pow2[i] /\ MaxOrder \in Nat
      /\ 2 * pow2[k] <= pow2[i]
  <2>1. k \in Nat /\ MaxOrder \in Nat
    BY SizeFacts
  <2>2. pow2[k] \in Nat \ {0} /\ 2 * pow2[k] <= pow2[i]
    BY <1>1, <2>1, SizeFacts
  <2> QED BY <1>1, <2>1, <2>2
<1>3. ASSUME NEW j \in k..(i - 1)
      PROVE  /\ j \in Nat /\ j < i /\ pow2[j] \in Nat \ {0}
             /\ a + pow2[j] \in Addr /\ a + pow2[j] \notin Live(md)
             /\ a + pow2[j] + pow2[j] <= e
             /\ Multiple(a + pow2[j], pow2[j])
             /\ md2[a + pow2[j]] # NoMD /\ md2[a + pow2[j]].order = j
             /\ EndOf(md2, a + pow2[j]) = a + pow2[j] + pow2[j]
  <2>1. md2[a + pow2[j]] # NoMD /\ md2[a + pow2[j]].order = j
    BY DEF Halved
  <2>2. EndOf(md2, a + pow2[j]) = a + pow2[j] + pow2[j]
    BY <2>1 DEF EndOf
  <2> QED BY <2>1, <2>2, PiecesWithin
<1>4. /\ md2[a] # NoMD /\ md2[a].order = k /\ EndOf(md2, a) = a + pow2[k]
      /\ Multiple(a, pow2[k])
  <2>1. md2[a] # NoMD /\ md2[a].order = k
    BY DEF Halved
  <2>2. k <= i
    BY <1>1, <1>2
  <2>3. Multiple(a, pow2[k])
    BY <1>1, <1>2, <2>2, SizesDouble, MultipleDown
  <2> QED BY <2>1, <2>3 DEF EndOf
<1>5. ASSUME NEW x \in Addr, x # a, x \notin S PROVE md2[x] = md[x]
  <2>1. \A j \in k..(i - 1) : x # a + pow2[j]
    BY <1>5
  <2> QED BY <1>5, <2>1 DEF Halved
<1> HIDE DEF e
<1>6. Live(md2) = Live(md) \cup S
  <2>1. ASSUME NEW x \in Addr PROVE x \in Live(md2) <=> x \in Live(md) \/ x \in S
    <3>1. CASE x = a
      BY <1>4, <3>1 DEF Live
    <3>2. CASE x \in S
      <4>1. PICK j \in k..(i - 1) : x = a + pow2[j]
        BY <3>2
      <4> QED BY <1>3, <3>2, <4>1 DEF Live
    <3>3. CASE x # a /\ x \notin S
      BY <1>5, <3>3 DEF Live
    <3> QED BY <3>1, <3>2, <3>3
  <2>2. S \subseteq Addr
    BY <1>3
  <2>3. Live(md2) \subseteq Addr /\ Live(md) \subseteq Addr
    BY DEF Live
  <2> HIDE DEF S
  <2> QED BY <2>1, <2>2, <2>3
<1>7. ASSUME NEW c \in S
      PROVE  \E j \in k..(i - 1) : c = a + pow2[j]
  OBVIOUS
<1> HIDE DEF S
(* A piece lies within the block, a block that is no piece beside it. *)
<1>8. ASSUME NEW c \in Live(md2), c = a \/ c \in S
      PROVE  /\ c \in Nat /\ a <= c /\ EndOf(md2, c) \in Nat /\ EndOf(md2, c) <= e
             /\ Multiple(c, pow2[md2[c].order]) /\ c < e
  <2>1. CASE c = a
    BY <1>1, <1>2, <1>4, <2>1
  <2>2. CASE c \in S
    <3>1. PICK j \in k..(i - 1) : c = a + pow2[j]
      BY <1>7, <2>2
    <3> QED BY <1>1, <1>3, <3>1
  <2> QED BY <1>8, <2>1, <2>2
<1>9. ASSUME NEW c \in Live(md2), c # a, c \notin S
      PROVE  /\ c \in Live(md) /\ c \in Nat /\ md2[c] = md[c] /\ EndOf(md2, c) = EndOf(md, c)
             /\ EndOf(md, c) <= a \/ e <= c
  <2>1. c \in Live(md) /\ c \in Addr
    BY <1>6, <1>9 DEF Live
  <2>2. md2[c] = md[c]
    BY <1>5, <1>9, <2>1
  <2>3. EndOf(md2, c) = EndOf(md, c)
    BY <2>2 DEF EndOf
  <2>4. c \in Nat
    BY <2>1, SizeFacts
  <2>5. c < a => EndOf(md, c) <= a
    BY <2>1 DEF Tiled
  <2>6. a < c => e <= c
    BY <2>1 DEF Tiled, e
  <2> QED BY <1>1, <1>9, <2>1, <2>2, <2>3, <2>4, <2>5, <2>6
<1>10. \A c \in Live(md2) : Multiple(c, pow2[md2[c].order])
  <2> TAKE c \in Live(md2)
  <2>1. CASE c = a \/ c \in S
    BY <1>8, <2>1
  <2>2. CASE c # a /\ c \notin S
    <3>1. c \in Live(md) /\ md2[c] = md[c]
      BY <1>9, <2>2
    <3> QED BY <3>1 DEF Tiled
  <2> QED BY <2>1, <2>2
<1>11. ASSUME NEW c \in Live(md2), NEW d \in Live(md2), c < d PROVE EndOf(md2, c) <= d
  <2>1. CASE (c = a \/ c \in S) /\ (d = a \/ d \in S)
    <3>1. CASE d = a
      BY <1>1, <1>8, <1>11, <2>1, <3>1
    <3>2. CASE d \in S
      <4>1. PICK j \in k..(i - 1) : d = a + pow2[j]
        BY <1>7, <3>2
      <4>2. j \in Nat /\ pow2[j] \in Nat /\ k <= j
        BY <1>1, <1>2, <1>3, <4>1
      <4>3. CASE c = a
        <5>1. pow2[k] <= pow2[j]
          BY <1>2, <4>2, SizeFacts
        <5> QED BY <1>1, <1>2, <1>4, <4>1, <4>2, <4>3, <5>1
      <4>4. CASE c \in S
        <5>1. PICK m \in k..(i - 1) : c = a + pow2[m]
          BY <1>7, <4>4
        <5>2. m \in Nat /\ pow2[m] \in Nat /\ EndOf(md2, c) = a + pow2[m] + pow2[m]
          BY <1>3, <5>1
        <5>3. pow2[m] < pow2[j]
          BY <1>1, <1>11, <4>1, <4>2, <5>1, <5>2
        <5>4. m < j
          <6> SUFFICES ASSUME j <= m PROVE FALSE
            BY <4>2, <5>2
          <6>1. j = m \/ 2 * pow2[j] <= pow2[m]
            <7>1. j = m \/ j < m
              BY <4>2, <5>2
            <7> QED BY <4>2, <5>2, <7>1, SizeFacts
          <6> QED BY <4>2, <5>2, <5>3, <6>1
        <5>5. 2 * pow2[m] <= pow2[j]
          BY <4>2, <5>2, <5>4, SizeFacts
        <5> QED BY <1>1, <4>1, <4>2, <5>2, <5>5
      <4> QED BY <2>1, <4>3, <4>4
    <3> QED BY <2>1, <3>1, <3>2
  <2>2. CASE (c = a \/ c \in S) /\ d # a /\ d \notin S
    <3>1. EndOf(md, d) <= a \/ e <= d
      BY <1>9, <2>2
    <3>2. d \in Live(md) /\ d \in Nat /\ d < EndOf(md, d) /\ EndOf(md, d) \in Nat
      <4>1. d \in Live(md)
        BY <1>9, <2>2
      <4>2. d \in Nat /\ pow2[md[d].order] \in Nat \ {0}
        BY <4>1, BlockFacts
      <4> QED BY <4>1, <4>2 DEF EndOf
    <3>3. c \in Nat /\ a <= c /\ EndOf(md2, c) \in Nat /\ EndOf(md2, c) <= e
      BY <1>8, <2>2
    <3> QED BY <1>1, <1>11, <3>1, <3>2, <3>3
  <2>3. CASE c # a /\ c \notin S /\ (d = a \/ d \in S)
    <3>1. (EndOf(md, c) <= a \/ e <= c) /\ c \in Live(md) /\ EndOf(md2, c) = EndOf(md, c)
      BY <1>9, <2>3
    <3>2. EndOf(md, c) \in Nat /\ c \in Nat
      <4>1. c \in Nat /\ pow2[md[c].order] \in Nat
        BY <3>1, BlockFacts
      <4> QED BY <4>1 DEF EndOf
    <3>3. d \in Nat /\ a <= d /\ d < e
      BY <1>8, <2>3
    <3> QED BY <1>1, <1>11, <3>1, <3>2, <3>3
  <2>4. CASE c # a /\ c \notin S /\ d # a /\ d \notin S
    <3>1. c \in Live(md) /\ EndOf(md2, c) = EndOf(md, c) /\ d \in Live(md)
      BY <1>9, <2>4
    <3> QED BY <1>11, <3>1 DEF Tiled
  <2> QED BY <2>1, <2>2, <2>3, <2>4
<1>12. ASSUME NEW x \in Addr PROVE \E c \in Live(md2) : c <= x /\ x < EndOf(md2, c)
  <2>0. x \in Nat
    BY SizeFacts
  <2>1. PICK c \in Live(md) : c <= x /\ x < EndOf(md, c)
    BY DEF Tiled
  <2>2. CASE c = a
    <3>1. x - a \in Nat /\ x - a < pow2[i] /\ a + (x - a) = x
      BY <1>1, <2>0, <2>1, <2>2 DEF e
    <3>2. CASE x - a < pow2[k]
      <4>1. a \in Live(md2) /\ a <= x /\ x < EndOf(md2, a)
        BY <1>1, <1>2, <1>4, <1>6, <2>0, <2>1, <2>2, <3>1, <3>2
      <4> QED BY <4>1
    <3>3. CASE \E j \in k..(i - 1) : pow2[j] <= x - a /\ x - a < 2 * pow2[j]
      <4>1. PICK j \in k..(i - 1) : pow2[j] <= x - a /\ x - a < 2 * pow2[j]
        BY <3>3
      <4>2. pow2[j] \in Nat /\ EndOf(md2, a + pow2[j]) = a + pow2[j] + pow2[j]
        BY <1>3
      <4>3. a + pow2[j] <= x /\ x < EndOf(md2, a + pow2[j])
        BY <1>1, <2>0, <3>1, <4>1, <4>2
      <4>4. a + pow2[j] \in Live(md2)
        BY <1>6 DEF S
      <4> QED BY <4>3, <4>4
    <3> QED BY Zenon, <1>1, <1>2, <3>1, <3>2, <3>3, PieceAt
  <2>3. CASE c # a
    <3>1. c \notin S
      <4> SUFFICES ASSUME c \in S PROVE FALSE
        OBVIOUS
      <4>1. PICK j \in k..(i - 1) : c = a + pow2[j]
        BY <1>7
      <4> QED BY <1>3, <4>1
    <3>2. c \in Live(md2)
      BY <1>6
    <3> QED BY <1>9, <2>1, <2>3, <3>1, <3>2
  <2> QED BY <2>2, <2>3
<1>13. md2 \in [Addr -> Metadata \cup {NoMD}]
  BY DEF Halved
<1>14. \A c, d \in Live(md2) : c < d => EndOf(md2, c) <= d
  BY <1>11
<1>15. \A x \in Addr : \E c \in Live(md2) : c <= x /\ x < EndOf(md2, c)
  BY <1>12
<1>16. Tiled(md2)
  BY <1>10, <1>13, <1>14, <1>15 DEF Tiled
<1> QED BY <1>6, <1>16 DEF S

-----------------------------------------------------------------------------

(* What addMD builds from the two parts of the list. *)
LEMMA PutIn ==
    ASSUME NEW l \in Seq(Addr), NEW n \in 0..Len(l), NEW a \in Addr,
           NEW r, r = SubSeq(l, 1, n) \o <<a>> \o SubSeq(l, n + 1, Len(l))
    PROVE  IsPutIn(r, l, n, a)
<1> DEFINE u == SubSeq(l, 1, n)
           v == SubSeq(l, n + 1, Len(l))
           w == u \o <<a>>
<1>0. Len(l) \in Nat /\ n \in Nat /\ n <= Len(l) /\ \A i \in 1..Len(l) : l[i] \in Addr
  OBVIOUS
<1>1. u \in Seq(Addr) /\ Len(u) = n /\ \A i \in 1..n : u[i] = l[i]
  <2>1. \A i \in 1..n : l[i] \in Addr /\ 1 + i - 1 = i
    BY <1>0
  <2>2. n - 1 + 1 = n /\ (1 <= n \/ n = 0)
    BY <1>0
  <2> QED BY <1>0, <2>1, <2>2, SeqPart
<1>2. /\ v \in Seq(Addr) /\ Len(v) = Len(l) - n
      /\ \A i \in 1..(Len(l) - n) : v[i] = l[n + i]
  <2> DEFINE m == Len(l)
  <2>1. \A i \in (n + 1)..m : l[i] \in Addr
    BY <1>0
  <2>2. m - (n + 1) + 1 = m - n /\ (n + 1 <= m \/ m - n = 0)
    BY <1>0
  <2>3. \A i \in 1..(m - n) : (n + 1) + i - 1 = n + i
    BY <1>0
  <2>4. m \in Int /\ n + 1 \in Int
    BY <1>0
  <2>5. v \in Seq(Addr) /\ Len(v) = (IF n + 1 <= m THEN m - (n + 1) + 1 ELSE 0)
        /\ \A i \in 1..(m - (n + 1) + 1) : v[i] = l[(n + 1) + i - 1]
    BY <2>1, <2>4, SeqPart
  <2> HIDE DEF v, m
  <2>6. Len(v) = m - n
    BY <2>2, <2>5
  <2>7. \A i \in 1..(m - n) : v[i] = l[n + i]
    BY <2>2, <2>3, <2>5
  <2> QED BY <2>5, <2>6, <2>7 DEF m
<1> HIDE DEF u, v
<1>3. <<a>> \in Seq(Addr) /\ Len(<<a>>) = 1 /\ <<a>>[1] = a
  OBVIOUS
<1>4. /\ w \in Seq(Addr) /\ Len(w) = n + 1
      /\ \A i \in 1..(n + 1) : w[i] = IF i <= n THEN u[i] ELSE a
  <2>1. /\ w \in Seq(Addr) /\ Len(w) = Len(u) + Len(<<a>>)
        /\ \A i \in 1..(Len(u) + Len(<<a>>)) :
             w[i] = IF i <= Len(u) THEN u[i] ELSE <<a>>[i - Len(u)]
    BY <1>1, <1>3, SeqConcat
  <2>2. \A i \in 1..(n + 1) : ~(i <= n) => i - n = 1
    BY <1>0
  <2> QED BY <1>1, <1>3, <2>1, <2>2
<1> HIDE DEF w
<1>5. r = w \o v
  BY DEF u, v, w
<1>6. /\ r \in Seq(Addr) /\ Len(r) = Len(w) + Len(v)
      /\ \A i \in 1..(Len(w) + Len(v)) : r[i] = IF i <= Len(w) THEN w[i] ELSE v[i - Len(w)]
  <2>1. /\ w \o v \in Seq(Addr) /\ Len(w \o v) = Len(w) + Len(v)
        /\ \A i \in 1..(Len(w) + Len(v)) :
             (w \o v)[i] = IF i <= Len(w) THEN w[i] ELSE v[i - Len(w)]
    BY Zenon, <1>2, <1>4, SeqConcat
  <2> QED BY Zenon, <1>5, <2>1
<1>7. Len(w) + Len(v) = Len(l) + 1
  BY <1>0, <1>2, <1>4
<1>8. ASSUME NEW i \in 1..(Len(l) + 1)
      PROVE  r[i] = IF i <= n THEN l[i] ELSE IF i = n + 1 THEN a ELSE l[i - 1]
  <2>1. CASE i <= n
    <3>1. i \in 1..n /\ i \in 1..(n + 1) /\ i <= n + 1
      BY <1>0, <2>1
    <3> QED BY Zenon, <1>1, <1>4, <1>6, <1>7, <2>1, <3>1
  <2>2. CASE i = n + 1
    <3>1. i \in 1..(n + 1) /\ ~(i <= n) /\ i <= n + 1
      BY <1>0, <2>2
    <3> QED BY Zenon, <1>4, <1>6, <1>7, <2>2, <3>1
  <2>3. CASE i > n + 1
    <3>1. ~(i <= n + 1) /\ ~(i <= n) /\ i # n + 1
      BY <1>0, <2>3
    <3>2. i - (n + 1) \in 1..(Len(l) - n) /\ n + (i - (n + 1)) = i - 1
      BY <1>0, <2>3
    <3>3. r[i] = v[i - (n + 1)]
      BY Zenon, <1>4, <1>6, <1>7, <3>1
    <3> QED BY Zenon, <1>2, <3>1, <3>2, <3>3
  <2>4. i <= n \/ i = n + 1 \/ i > n + 1
    BY <1>0
  <2> QED BY Zenon, <2>1, <2>2, <2>3, <2>4
<1> QED BY Zenon, <1>6, <1>7, <1>8 DEF IsPutIn

(* addMD keeps a list in order. *)
LEMMA AddAscending ==
    ASSUME NEW l, NEW S, Ascending(l, S), NEW a \in Addr, a \notin S
    PROVE  Ascending(addMD(l, a), S \cup {a})
<1> DEFINE above == {i \in 1..Len(l) : l[i] > a}
           m == CHOOSE i \in above : \A j \in above : i <= j
           n == IF above = {} THEN Len(l) ELSE m - 1
           r == addMD(l, a)
<1>1. /\ l \in Seq(Addr) /\ Len(l) \in Nat /\ \A i \in 1..Len(l) : l[i] \in Addr
      /\ \A i, j \in 1..Len(l) : i < j => l[i] < l[j]
      /\ S = {l[i] : i \in 1..Len(l)}
  BY DEF Ascending
<1>2. a \in Nat /\ \A i \in 1..Len(l) : l[i] \in Nat /\ l[i] # a
  BY Zenon, <1>1, SizeFacts
<1>3. n \in 0..Len(l) /\ \A i \in 1..Len(l) : l[i] <= a <=> i <= n
  <2>1. CASE above = {}
    <3>1. \A i \in 1..Len(l) : l[i] <= a /\ i <= Len(l)
      BY <1>1, <1>2, <2>1
    <3> QED BY <1>1, <2>1, <3>1
  <2>2. CASE above # {}
    <3>1. above \subseteq Nat /\ above \subseteq 1..Len(l)
      OBVIOUS
    <3>2. m \in above /\ \A j \in above : m <= j
      <4> HIDE DEF above
      <4>1. \E i \in above : \A j \in above : i <= j
        BY Zenon, <2>2, <3>1, LeastNatural
      <4> QED BY Zenon, <4>1
    <3> HIDE DEF m
    <3>3. n = m - 1 /\ m \in 1..Len(l) /\ l[m] > a
      BY <2>2, <3>2
    <3>4. ASSUME NEW i \in 1..Len(l), i < m PROVE l[i] <= a
      <4>1. i \notin above
        BY <3>2, <3>3, <3>4
      <4> QED BY <1>2, <4>1
    <3>5. ASSUME NEW i \in 1..Len(l), ~(i < m) PROVE ~(l[i] <= a)
      <4>1. m < i \/ m = i
        BY <3>3, <3>5
      <4>2. l[m] < l[i] \/ m = i
        BY <1>1, <3>3, <4>1
      <4> QED BY <1>2, <3>3, <4>2
    <3>6. \A i \in 1..Len(l) : i < m <=> i <= m - 1
      BY <3>3
    <3>7. m - 1 \in 0..Len(l)
      BY <1>1, <3>3
    <3> QED BY <3>3, <3>4, <3>5, <3>6, <3>7
  <2> QED BY <2>1, <2>2
<1>4. r = SubSeq(l, 1, n) \o <<a>> \o SubSeq(l, n + 1, Len(l))
  BY DEF addMD
<1> HIDE DEF n, m, above, r
<1>5. /\ r \in Seq(Addr) /\ Len(r) = Len(l) + 1
      /\ \A i \in 1..(Len(l) + 1) :
            r[i] = IF i <= n THEN l[i] ELSE IF i = n + 1 THEN a ELSE l[i - 1]
  <2>1. IsPutIn(r, l, n, a)
    BY Zenon, <1>1, <1>3, <1>4, PutIn
  <2> QED BY <2>1 DEF IsPutIn
<1>6. ASSUME NEW i \in 1..Len(r), NEW j \in 1..Len(r), i < j PROVE r[i] < r[j]
  <2>1. i \in 1..(Len(l) + 1) /\ j \in 1..(Len(l) + 1) /\ n \in Nat /\ n <= Len(l)
    BY <1>1, <1>3, <1>5
  <2>2. CASE j <= n
    <3>1. i <= n /\ i \in 1..Len(l) /\ j \in 1..Len(l)
      BY <1>1, <1>6, <2>1, <2>2
    <3> QED BY <1>1, <1>5, <1>6, <2>1, <2>2, <3>1
  <2>3. CASE j = n + 1
    <3>1. i <= n /\ i \in 1..Len(l) /\ ~(j <= n)
      BY <1>1, <1>6, <2>1, <2>3
    <3>2. r[j] = a /\ r[i] = l[i]
      BY <1>5, <2>1, <2>3, <3>1
    <3> QED BY <1>2, <1>3, <3>1, <3>2
  <2>4. CASE j > n + 1
    <3>1. ~(j <= n) /\ j # n + 1 /\ j - 1 \in 1..Len(l) /\ ~(j - 1 <= n)
      BY <1>1, <2>1, <2>4
    <3>2. r[j] = l[j - 1] /\ l[j - 1] \in Nat /\ a < l[j - 1]
      <4>1. ~(l[j - 1] <= a) /\ l[j - 1] \in Nat
        BY <1>2, <1>3, <3>1
      <4>2. a < l[j - 1]
        BY <1>2, <4>1
      <4> QED BY <1>5, <2>1, <3>1, <4>1, <4>2
    <3>3. CASE i <= n
      <4>1. i \in 1..Len(l) /\ i < j - 1
        BY <1>1, <2>1, <2>4, <3>3
      <4>2. r[i] = l[i]
        BY <1>5, <2>1, <3>3
      <4> QED BY <1>1, <3>1, <3>2, <4>1, <4>2
    <3>4. CASE i = n + 1
      <4>1. r[i] = a
        <5>1. ~(i <= n)
          BY <2>1, <3>4
        <5> QED BY <1>5, <2>1, <3>4, <5>1
      <4> QED BY <3>2, <4>1
    <3>5. CASE i > n + 1
      <4>1. ~(i <= n) /\ i # n + 1 /\ i - 1 \in 1..Len(l) /\ i - 1 < j - 1
        BY <1>1, <1>6, <2>1, <3>5
      <4>2. r[i] = l[i - 1]
        BY <1>5, <2>1, <4>1
      <4> QED BY <1>1, <3>1, <3>2, <4>1, <4>2
    <3>6. i <= n \/ i = n + 1 \/ i > n + 1
      BY <2>1
    <3> QED BY Zenon, <3>3, <3>4, <3>5, <3>6
  <2>5. j <= n \/ j = n + 1 \/ j > n + 1
    BY <2>1
  <2> QED BY Zenon, <2>2, <2>3, <2>4, <2>5
<1>7. S \cup {a} = {r[i] : i \in 1..Len(r)}
  <2>1. ASSUME NEW i \in 1..Len(r) PROVE r[i] \in S \cup {a}
    <3>1. i \in 1..(Len(l) + 1) /\ n \in Nat /\ n <= Len(l)
      BY <1>3, <1>5
    <3>2. CASE i <= n
      <4>1. i \in 1..Len(l) /\ r[i] = l[i]
        BY <1>1, <1>5, <3>1, <3>2
      <4> QED BY <1>1, <4>1
    <3>3. CASE i = n + 1
      <4>1. ~(i <= n)
        BY <3>1, <3>3
      <4> QED BY <1>5, <3>1, <3>3, <4>1
    <3>4. CASE i > n + 1
      <4>1. ~(i <= n) /\ i # n + 1 /\ i - 1 \in 1..Len(l)
        BY <1>1, <3>1, <3>4
      <4>2. r[i] = l[i - 1]
        BY <1>5, <3>1, <4>1
      <4> QED BY <1>1, <4>1, <4>2
    <3>5. i <= n \/ i = n + 1 \/ i > n + 1
      BY <3>1
    <3> QED BY Zenon, <3>2, <3>3, <3>4, <3>5
  <2>2. ASSUME NEW x \in S \cup {a} PROVE \E i \in 1..Len(r) : x = r[i]
    <3>0. n \in Nat /\ n <= Len(l) /\ 1..Len(r) = 1..(Len(l) + 1)
      BY <1>1, <1>3, <1>5
    <3>1. CASE x = a
      <4>1. n + 1 \in 1..(Len(l) + 1) /\ ~(n + 1 <= n)
        BY <1>1, <3>0
      <4>2. r[n + 1] = a
        BY <1>5, <4>1
      <4> QED BY <3>0, <3>1, <4>1, <4>2
    <3>2. CASE x \in S
      <4>1. PICK i \in 1..Len(l) : x = l[i]
        BY <1>1, <3>2
      <4>2. CASE i <= n
        <5>1. i \in 1..(Len(l) + 1)
          BY <1>1
        <5>2. r[i] = l[i]
          BY <1>5, <4>2, <5>1
        <5> QED BY <3>0, <4>1, <5>1, <5>2
      <4>3. CASE ~(i <= n)
        <5>1. i + 1 \in 1..(Len(l) + 1) /\ ~(i + 1 <= n) /\ i + 1 # n + 1 /\ (i + 1) - 1 = i
          BY <1>1, <3>0, <4>3
        <5>2. r[i + 1] = l[i]
          BY <1>5, <5>1
        <5> QED BY <3>0, <4>1, <5>1, <5>2
      <4> QED BY <4>2, <4>3
    <3> QED BY <3>1, <3>2
  <2> QED BY <2>1, <2>2
<1> QED BY Zenon, <1>5, <1>6, <1>7 DEF Ascending, r

(* What delMD builds from the two parts of the list. *)
LEMMA TakenOut ==
    ASSUME NEW l \in Seq(Addr), NEW n \in 1..Len(l),
           NEW r, r = SubSeq(l, 1, n - 1) \o SubSeq(l, n + 1, Len(l))
    PROVE  IsTakenOut(r, l, n)
<1> DEFINE m == Len(l)
           u == SubSeq(l, 1, n - 1)
           v == SubSeq(l, n + 1, m)
<1>0. /\ m \in Nat /\ n \in Nat /\ 1 <= n /\ n <= m /\ n - 1 \in Nat
      /\ \A i \in 1..m : l[i] \in Addr
  OBVIOUS
<1>1. u \in Seq(Addr) /\ Len(u) = n - 1 /\ \A i \in 1..(n - 1) : u[i] = l[i]
  <2>1. \A i \in 1..(n - 1) : l[i] \in Addr
    BY <1>0
  <2>2. /\ u \in Seq(Addr) /\ Len(u) = (IF 1 <= n - 1 THEN n - 1 - 1 + 1 ELSE 0)
        /\ \A i \in 1..(n - 1 - 1 + 1) : u[i] = l[1 + i - 1]
    BY <1>0, <2>1, SeqPart
  <2>3. /\ (IF 1 <= n - 1 THEN n - 1 - 1 + 1 ELSE 0) = n - 1 /\ n - 1 - 1 + 1 = n - 1
        /\ \A i \in 1..(n - 1) : 1 + i - 1 = i
    BY <1>0
  <2> HIDE DEF u
  <2> QED BY <2>2, <2>3
<1>2. v \in Seq(Addr) /\ Len(v) = m - n /\ \A i \in 1..(m - n) : v[i] = l[n + i]
  <2>1. \A i \in (n + 1)..m : l[i] \in Addr
    BY <1>0
  <2>2. m \in Int /\ n + 1 \in Int
    BY <1>0
  <2>3. /\ v \in Seq(Addr) /\ Len(v) = (IF n + 1 <= m THEN m - (n + 1) + 1 ELSE 0)
        /\ \A i \in 1..(m - (n + 1) + 1) : v[i] = l[(n + 1) + i - 1]
    BY <2>1, <2>2, SeqPart
  <2>4. /\ (IF n + 1 <= m THEN m - (n + 1) + 1 ELSE 0) = m - n /\ m - (n + 1) + 1 = m - n
        /\ \A i \in 1..(m - n) : (n + 1) + i - 1 = n + i
    BY <1>0
  <2> HIDE DEF v, m
  <2> QED BY <2>3, <2>4
<1> HIDE DEF u, v
<1>3. r = u \o v
  BY DEF u, v
<1>4. /\ r \in Seq(Addr) /\ Len(r) = Len(u) + Len(v)
      /\ \A i \in 1..(Len(u) + Len(v)) : r[i] = IF i <= Len(u) THEN u[i] ELSE v[i - Len(u)]
  <2>1. /\ u \o v \in Seq(Addr) /\ Len(u \o v) = Len(u) + Len(v)
        /\ \A i \in 1..(Len(u) + Len(v)) :
             (u \o v)[i] = IF i <= Len(u) THEN u[i] ELSE v[i - Len(u)]
    BY Zenon, <1>1, <1>2, SeqConcat
  <2> QED BY Zenon, <1>3, <2>1
<1>5. Len(u) + Len(v) = m - 1
  BY <1>0, <1>1, <1>2
<1>6. ASSUME NEW i \in 1..(m - 1) PROVE r[i] = IF i < n THEN l[i] ELSE l[i + 1]
  <2>1. CASE i < n
    <3>1. i \in 1..(n - 1) /\ i <= n - 1
      BY <1>0, <2>1
    <3> QED BY <1>1, <1>4, <1>5, <2>1, <3>1
  <2>2. CASE ~(i < n)
    <3>1. ~(i <= n - 1) /\ i - (n - 1) \in 1..(m - n) /\ n + (i - (n - 1)) = i + 1
      BY <1>0, <2>2
    <3>2. r[i] = v[i - (n - 1)]
      BY Zenon, <1>1, <1>4, <1>5, <3>1
    <3> QED BY Zenon, <1>2, <2>2, <3>1, <3>2
  <2> QED BY Zenon, <2>1, <2>2
<1> QED BY Zenon, <1>4, <1>5, <1>6 DEF IsTakenOut

(* delMD keeps a list in order. *)
LEMMA DelAscending ==
    ASSUME NEW l, NEW S, Ascending(l, S), NEW a
    PROVE  Ascending(delMD(l, a), S \ {a})
<1> DEFINE A == {i \in 1..Len(l) : l[i] = a}
           n == CHOOSE i \in A : \A j \in A : i <= j
           r == delMD(l, a)
<1>1. /\ l \in Seq(Addr) /\ Len(l) \in Nat /\ \A i \in 1..Len(l) : l[i] \in Addr
      /\ \A i, j \in 1..Len(l) : i < j => l[i] < l[j]
      /\ S = {l[i] : i \in 1..Len(l)}
  BY DEF Ascending
<1>2. CASE A = {}
  <2>1. r = l
    BY <1>2 DEF delMD
  <2>2. a \notin S
    BY <1>1, <1>2
  <2> QED BY <2>1, <2>2
<1>3. CASE A # {}
  <2>1. n \in A
    <3>1. \E i \in A : \A j \in A : i <= j
      <4>1. A \subseteq Nat
        BY <1>1
      <4> HIDE DEF A
      <4> QED BY Zenon, <1>3, <4>1, LeastNatural
    <3> HIDE DEF A
    <3> QED BY <3>1
  <2>2. r = SubSeq(l, 1, n - 1) \o SubSeq(l, n + 1, Len(l))
    BY Zenon, <1>3 DEF delMD
  <2>3. n \in 1..Len(l) /\ l[n] = a
    BY <2>1
  <2> HIDE DEF n, r
  <2>4. /\ r \in Seq(Addr) /\ Len(r) = Len(l) - 1
        /\ \A i \in 1..(Len(l) - 1) : r[i] = IF i < n THEN l[i] ELSE l[i + 1]
    <3>1. IsTakenOut(r, l, n)
      BY Zenon, <1>1, <2>2, <2>3, TakenOut
    <3> QED BY <3>1 DEF IsTakenOut
  <2>5. \A i \in 1..Len(l) : l[i] \in Nat
    BY <1>1, SizeFacts
  <2>6. ASSUME NEW i \in 1..Len(r), NEW j \in 1..Len(r), i < j PROVE r[i] < r[j]
    <3>1. i \in 1..(Len(l) - 1) /\ j \in 1..(Len(l) - 1)
      BY <2>4
    <3>2. /\ i \in 1..Len(l) /\ i + 1 \in 1..Len(l) /\ j \in 1..Len(l) /\ j + 1 \in 1..Len(l)
          /\ i < j + 1 /\ i + 1 < j + 1
      BY <1>1, <2>6, <3>1
    <3>3. r[i] = (IF i < n THEN l[i] ELSE l[i + 1]) /\ r[j] = IF j < n THEN l[j] ELSE l[j + 1]
      BY <2>4, <3>1
    <3>4. l[i] < l[j] /\ l[i] < l[j + 1] /\ l[i + 1] < l[j + 1]
      BY <1>1, <2>6, <3>2
    <3>5. j < n => i < n
      BY <1>1, <2>3, <2>6, <3>2
    <3> QED BY <3>3, <3>4, <3>5
  <2>7. S \ {a} = {r[i] : i \in 1..Len(r)}
    <3>0. 1..Len(r) = 1..(Len(l) - 1) /\ n \in Nat
      BY <2>3, <2>4
    <3>1. ASSUME NEW i \in 1..Len(r) PROVE r[i] \in S \ {a}
      <4>1. CASE i < n
        <5>1. i \in 1..Len(l) /\ r[i] = l[i] /\ i < n
          BY <1>1, <2>4, <3>0, <4>1
        <5>2. l[i] < l[n] /\ l[i] \in Nat /\ l[n] \in Nat
          BY <1>1, <2>3, <2>5, <5>1
        <5>3. l[i] # a
          BY <2>3, <5>2
        <5> QED BY <1>1, <5>1, <5>3
      <4>2. CASE ~(i < n)
        <5>1. i + 1 \in 1..Len(l) /\ n < i + 1
          BY <1>1, <2>3, <3>0, <4>2
        <5>2. r[i] = l[i + 1]
          BY <2>4, <3>0, <4>2
        <5>3. l[n] < l[i + 1] /\ l[i + 1] \in Nat /\ l[n] \in Nat
          BY <1>1, <2>3, <2>5, <5>1
        <5>4. l[i + 1] # a
          BY <2>3, <5>3
        <5> QED BY <1>1, <5>1, <5>2, <5>4
      <4> QED BY <4>1, <4>2
    <3>2. ASSUME NEW x \in S \ {a} PROVE \E i \in 1..Len(r) : x = r[i]
      <4>1. PICK i \in 1..Len(l) : x = l[i]
        BY <1>1
      <4>2. i # n
        BY <2>3, <4>1
      <4>3. CASE i < n
        <5>1. i \in 1..(Len(l) - 1)
          BY <1>1, <2>3, <4>3
        <5>2. r[i] = l[i]
          BY <2>4, <4>3, <5>1
        <5> QED BY <3>0, <4>1, <5>1, <5>2
      <4>4. CASE ~(i < n)
        <5>1. i - 1 \in 1..(Len(l) - 1) /\ ~(i - 1 < n) /\ (i - 1) + 1 = i
          BY <1>1, <2>3, <4>2, <4>4
        <5>2. r[i - 1] = l[i]
          BY <2>4, <5>1
        <5> QED BY <3>0, <4>1, <5>1, <5>2
      <4> QED BY <4>3, <4>4
    <3> QED BY <3>1, <3>2
  <2> QED BY Zenon, <2>4, <2>6, <2>7 DEF Ascending, r
<1> QED BY <1>2, <1>3

-----------------------------------------------------------------------------

(* An entry with an order is a block. *)
LEMMA OfOrderLive ==
    ASSUME NEW md, Tiled(md), NEW k \in Orders
    PROVE  OfOrder(md, k) = {a \in Live(md) : md[a].order = k}
<1>1. -1 \notin Orders
  BY SizeFacts DEF Orders
<1> QED BY <1>1 DEF OfOrder, Live, NoMD

(* Marking a block does only that. *)
LEMMA MarkFacts ==
    ASSUME NEW H, HeapOK(H), NEW a \in Live(H.md), NEW f \in BOOLEAN,
           NEW G, G = mark(H, a, f)
    PROVE  IsMarked(H, G, a, f)
<1>1. /\ H = [md |-> H.md, list |-> H.list] /\ Tiled(H.md)
      /\ \A k \in Orders : Ascending(H.list[k], OfOrder(H.md, k))
  BY DEF HeapOK
<1>2. a \in Addr /\ H.md[a] \in Metadata /\ H.md \in [Addr -> Metadata \cup {NoMD}]
  BY <1>1, BlockFacts DEF Tiled
<1> DEFINE m == [H.md EXCEPT ![a].is_free = f]
<1>3. G = [md |-> m, list |-> H.list]
  <2>1. G = [H EXCEPT !.md = m]
    BY <1>1 DEF mark
  <2> HIDE DEF m
  <2> QED BY <1>1, <2>1
<1>4. /\ m[a] = [order |-> H.md[a].order, is_free |-> f]
      /\ \A x \in Addr : x # a => m[x] = H.md[x]
      /\ m \in [Addr -> Metadata \cup {NoMD}]
  <2>1. [H.md[a] EXCEPT !.is_free = f] = [order |-> H.md[a].order, is_free |-> f]
    BY <1>2 DEF Metadata
  <2>2. m = [H.md EXCEPT ![a] = [H.md[a] EXCEPT !.is_free = f]]
    BY <1>2
  <2>3. [order |-> H.md[a].order, is_free |-> f] \in Metadata
    BY <1>2 DEF Metadata
  <2> HIDE DEF m
  <2> QED BY <1>2, <2>1, <2>2, <2>3
<1>5. G.md = m /\ G.list = H.list
  BY <1>3
<1> HIDE DEF m
<1>6. m[a] # NoMD /\ m[a].order = H.md[a].order
  <2>1. H.md[a].order \in Orders
    BY <1>1, BlockFacts
  <2>2. -1 \notin Orders
    BY SizeFacts DEF Orders
  <2> QED BY <1>4, <2>1, <2>2 DEF NoMD
<1>7. \A x \in Addr : m[x].order = H.md[x].order
  BY <1>4, <1>6
<1>8. Live(m) = Live(H.md)
  BY <1>4, <1>6 DEF Live
<1>9. Tiled(m)
  <2>1. \A x \in Live(m) : x \in Addr /\ m[x].order = H.md[x].order /\ EndOf(m, x) = EndOf(H.md, x)
    BY <1>7 DEF Live, EndOf
  <2>2. \A x \in Live(m) : Multiple(x, pow2[m[x].order])
    BY <1>1, <1>8, <2>1 DEF Tiled
  <2>3. \A x, y \in Live(m) : x < y => EndOf(m, x) <= y
    BY <1>1, <1>8, <2>1 DEF Tiled
  <2>4. \A x \in Addr : \E y \in Live(m) : y <= x /\ x < EndOf(m, y)
    BY <1>1, <1>8, <2>1 DEF Tiled
  <2> QED BY <1>4, <2>2, <2>3, <2>4 DEF Tiled
<1>10. \A k \in Orders : OfOrder(m, k) = OfOrder(H.md, k)
  BY <1>7 DEF OfOrder
<1>11. HeapOK(G)
  BY <1>1, <1>3, <1>5, <1>9, <1>10 DEF HeapOK
<1> QED BY <1>4, <1>5, <1>7, <1>8, <1>11 DEF IsMarked

(* The first call of smalloc makes free blocks of the largest order. *)
LEMMA FirstHeapFacts ==
    HeapOK(firstHeap) /\ NoPairs(firstHeap.md) /\ Used(firstHeap.md) = {}
<1> DEFINE p == pow2[MaxOrder]
           starts == [i \in 1..Roots |-> (i - 1) * p]
           unused == [order |-> MaxOrder, is_free |-> TRUE]
           m == [a \in Addr |-> IF \E i \in 1..Roots : starts[i] = a THEN unused ELSE NoMD]
           l == [k \in Orders |-> IF k = MaxOrder THEN starts ELSE << >>]
<1>0. /\ p \in Nat \ {0} /\ MaxOrder \in Nat /\ MaxOrder \in Orders /\ -1 \notin Orders
      /\ Roots \in Nat \ {0} /\ Units = Roots * p /\ Units \in Nat
  BY SizeFacts, HeapAssumption DEF Orders, Units
<1>1. firstHeap = [md |-> m, list |-> l]
  BY DEF firstHeap
<1>2. firstHeap.md = m /\ firstHeap.list = l
  BY <1>1
<1>3. unused \in Metadata /\ unused # NoMD /\ unused.order = MaxOrder /\ unused.is_free = TRUE
  BY <1>0 DEF Metadata, NoMD
<1> HIDE DEF unused
<1>4. /\ \A i \in 1..Roots : starts[i] \in Nat /\ starts[i] + p <= Units /\ Multiple(starts[i], p)
      /\ \A i, j \in 1..Roots : i < j => starts[i] + p <= starts[j]
  <2>1. \A x, y \in Nat : \A z \in Nat \ {0} : x < y => x * z + z <= y * z
    OBVIOUS
  <2>2. \A x \in Nat : x * p \in Nat
    BY <1>0
  <2>3. \A i \in 1..Roots : i - 1 \in Nat /\ i - 1 < Roots /\ starts[i] = (i - 1) * p
    BY <1>0
  <2>4. \A i, j \in 1..Roots : i < j => i - 1 < j - 1
    BY <1>0
  <2> HIDE DEF starts, p
  <2>5. \A i \in 1..Roots : starts[i] \in Nat /\ Multiple(starts[i], p)
    BY <2>2, <2>3 DEF Multiple
  <2>6. \A i \in 1..Roots : starts[i] + p <= Units
    BY <1>0, <2>1, <2>3
  <2>7. \A i, j \in 1..Roots : i < j => starts[i] + p <= starts[j]
    BY <1>0, <2>1, <2>3, <2>4
  <2> QED BY <2>5, <2>6, <2>7
<1>5. starts \in Seq(Addr) /\ Len(starts) = Roots
  <2>1. \A i \in 1..Roots : starts[i] \in Addr
    <3> HIDE DEF starts
    <3> QED BY <1>0, <1>4 DEF Addr
  <2>2. starts = [i \in 1..Roots |-> starts[i]]
    OBVIOUS
  <2> HIDE DEF starts
  <2>3. starts \in [1..Roots -> Addr]
    BY <2>1, <2>2
  <2> QED BY <1>0, <2>3
<1>6. \A x \in Addr : m[x] = IF \E i \in 1..Roots : starts[i] = x THEN unused ELSE NoMD
  OBVIOUS
<1>7. m \in [Addr -> Metadata \cup {NoMD}]
  BY <1>3
<1> HIDE DEF m
<1>8. \A x \in Live(m) : x \in Addr /\ m[x] = unused /\ \E i \in 1..Roots : starts[i] = x
  BY <1>6 DEF Live
<1>9. \A i \in 1..Roots : starts[i] \in Live(m)
  <2>1. \A i \in 1..Roots : starts[i] \in Addr
    <3> HIDE DEF starts
    <3> QED BY <1>0, <1>4 DEF Addr
  <2> HIDE DEF starts
  <2> QED BY <1>3, <1>6, <2>1 DEF Live
<1> HIDE DEF starts
<1>10. Tiled(m)
  <2>1. \A x \in Live(m) : Multiple(x, pow2[m[x].order])
    BY <1>3, <1>4, <1>8
  <2>2. ASSUME NEW x \in Live(m), NEW y \in Live(m), x < y PROVE EndOf(m, x) <= y
    <3>1. PICK i \in 1..Roots : starts[i] = x
      BY <1>8
    <3>2. PICK j \in 1..Roots : starts[j] = y
      BY <1>8
    <3>3. EndOf(m, x) = x + p
      BY <1>3, <1>8 DEF EndOf
    <3>4. i < j
      <4> SUFFICES ASSUME ~(i < j) PROVE FALSE
        OBVIOUS
      <4>1. i = j \/ j < i
        BY <1>0
      <4>2. starts[j] <= starts[i]
        BY <1>0, <1>4, <4>1
      <4> QED BY <1>4, <2>2, <3>1, <3>2, <4>2
    <3> QED BY <1>4, <3>1, <3>2, <3>3, <3>4
  <2>3. ASSUME NEW x \in Addr PROVE \E y \in Live(m) : y <= x /\ x < EndOf(m, y)
    <3> DEFINE q == x \div p
    <3>1. x \in Nat /\ x < Units
      BY <1>0, SizeFacts DEF Addr
    <3>2. x = p * q + (x % p) /\ x % p \in 0..(p - 1) /\ q \in Nat
      <4>1. \A u \in Nat : \A z \in Nat \ {0} :
               u = z * (u \div z) + (u % z) /\ u % z \in 0..(z - 1) /\ u \div z \in Nat
        OBVIOUS
      <4> HIDE DEF p
      <4> QED BY Zenon, <1>0, <3>1, <4>1
    <3> HIDE DEF q
    <3>3. q < Roots
      <4>1. \A u, v \in Nat : \A z \in Nat \ {0} : v <= u => v * z <= z * u
        OBVIOUS
      <4> SUFFICES ASSUME Roots <= q PROVE FALSE
        BY <1>0, <3>2
      <4>2. Roots * p <= p * q
        BY <1>0, <3>2, <4>1
      <4>3. p * q \in Nat /\ p * q <= x
        BY <1>0, <3>1, <3>2
      <4> QED BY <1>0, <3>1, <4>2, <4>3
    <3>4. q + 1 \in 1..Roots /\ starts[q + 1] = q * p /\ q * p = p * q
      <4>1. q + 1 \in 1..Roots /\ (q + 1) - 1 = q
        BY <1>0, <3>2, <3>3
      <4>2. q * p = p * q
        BY <1>0, <3>2
      <4> QED BY <4>1, <4>2 DEF starts
    <3>5. starts[q + 1] <= x /\ x < starts[q + 1] + p
      BY <1>0, <3>1, <3>2, <3>4
    <3>6. starts[q + 1] \in Live(m) /\ EndOf(m, starts[q + 1]) = starts[q + 1] + p
      BY <1>3, <1>8, <1>9, <3>4 DEF EndOf
    <3> QED BY <3>5, <3>6
  <2>4. \A x, y \in Live(m) : x < y => EndOf(m, x) <= y
    BY <2>2
  <2>5. \A x \in Addr : \E y \in Live(m) : y <= x /\ x < EndOf(m, y)
    BY <2>3
  <2> QED BY <1>7, <2>1, <2>4, <2>5 DEF Tiled
<1>11. ASSUME NEW k \in Orders PROVE Ascending(l[k], OfOrder(m, k))
  <2>1. OfOrder(m, k) = {a \in Live(m) : m[a].order = k}
    BY <1>10, OfOrderLive
  <2>2. CASE k = MaxOrder
    <3>1. l[k] = starts
      BY <2>2
    <3>2. OfOrder(m, k) = {starts[i] : i \in 1..Len(starts)}
      BY <1>3, <1>5, <1>8, <1>9, <2>1, <2>2
    <3>3. \A i, j \in 1..Len(starts) : i < j => starts[i] < starts[j]
      <4> HIDE DEF p
      <4>1. \A u, v \in Nat : u + p <= v => u < v
        BY <1>0
      <4>2. \A i \in 1..Roots : starts[i] \in Nat
        BY <1>4
      <4>3. \A i, j \in 1..Roots : i < j => starts[i] + p <= starts[j]
        BY <1>4
      <4> QED BY <1>5, <4>1, <4>2, <4>3
    <3> QED BY <1>5, <3>1, <3>2, <3>3 DEF Ascending
  <2>3. CASE k # MaxOrder
    <3>1. l[k] = << >>
      BY <2>3
    <3>2. OfOrder(m, k) = {}
      BY <1>3, <1>8, <2>1, <2>3
    <3>3. Ascending(<< >>, {})
      BY DEF Ascending
    <3> QED BY Zenon, <3>1, <3>2, <3>3
  <2> QED BY <2>2, <2>3
<1>12. HeapOK(firstHeap)
  BY <1>1, <1>2, <1>10, <1>11 DEF HeapOK
<1>13. NoPairs(m)
  BY <1>3, <1>8 DEF NoPairs
<1>14. Used(m) = {}
  BY <1>3, <1>8 DEF Used, Live
<1> QED BY <1>2, <1>12, <1>13, <1>14

(* The metadata after a split. *)
LEMMA SplitMetadata ==
    ASSUME NEW H, HeapOK(H), NEW a \in Live(H.md), NEW i, i = H.md[a].order,
           NEW k \in Orders, k < i, NEW G, G = splitBlocks(H, a, i, k)
    PROVE  IsSplit(H, G, a, i, k)
<1> DEFINE at(x, j) == x = a + pow2[j]
           m == [x \in Addr |->
                    IF x = a THEN [order |-> k, is_free |-> FALSE]
                    ELSE IF \E j \in k..(i - 1) : at(x, j)
                    THEN [order |-> CHOOSE j \in k..(i - 1) : at(x, j), is_free |-> TRUE]
                    ELSE H.md[x]]
           l == [j \in Orders |->
                    IF j = k THEN addMD(addMD(H.list[j], a + pow2[j]), a)
                    ELSE IF j \in k..(i - 1) THEN addMD(H.list[j], a + pow2[j])
                    ELSE IF j = i THEN delMD(H.list[j], a)
                    ELSE H.list[j]]
<1>0. /\ Tiled(H.md) /\ a \in Addr /\ a \in Nat /\ i \in Orders /\ i \in Nat /\ k \in Nat
      /\ H.md \in [Addr -> Metadata \cup {NoMD}]
  BY BlockFacts, SizeFacts DEF HeapOK, Tiled
<1>1. G = [md |-> m, list |-> l]
  BY <1>0 DEF splitBlocks
<1>2. G.md = m /\ G = [md |-> G.md, list |-> G.list]
  BY <1>1
<1> HIDE DEF l
<1>3. /\ \A j \in k..(i - 1) : j \in Orders /\ a + pow2[j] \in Addr /\ a + pow2[j] # a
      /\ \A j, n \in k..(i - 1) : a + pow2[j] = a + pow2[n] => j = n
  <2>1. \A j \in k..(i - 1) : /\ j \in Nat /\ j \in Orders /\ pow2[j] \in Nat \ {0}
                              /\ a + pow2[j] \in Addr
    BY <1>0, PiecesWithin
  <2>2. \A j, n \in Nat : j < n => 2 * pow2[j] <= pow2[n]
    BY SizeFacts
  <2>3. ASSUME NEW j \in k..(i - 1), NEW n \in k..(i - 1), a + pow2[j] = a + pow2[n] PROVE j = n
    <3>1. pow2[j] = pow2[n]
      BY <1>0, <2>1, <2>3
    <3>2. ~(j < n) /\ ~(n < j)
      BY <2>1, <2>2, <3>1
    <3> QED BY <2>1, <3>2
  <2>4. \A j \in k..(i - 1) : a + pow2[j] # a
    BY <1>0, <2>1
  <2> QED BY <2>1, <2>3, <2>4
<1>4. \A x \in Addr : m[x] = IF x = a THEN [order |-> k, is_free |-> FALSE]
                    ELSE IF \E j \in k..(i - 1) : at(x, j)
                    THEN [order |-> CHOOSE j \in k..(i - 1) : at(x, j), is_free |-> TRUE]
                    ELSE H.md[x]
  OBVIOUS
<1>5. DOMAIN m = Addr /\ m = [x \in Addr |-> m[x]]
  OBVIOUS
<1> HIDE DEF m
<1>6. m[a] = [order |-> k, is_free |-> FALSE]
  <2> HIDE DEF at
  <2> QED BY Zenon, <1>0, <1>4
<1>7. ASSUME NEW j \in k..(i - 1) PROVE m[a + pow2[j]] = [order |-> j, is_free |-> TRUE]
  <2>1. at(a + pow2[j], j) /\ \A n \in k..(i - 1) : at(a + pow2[j], n) => n = j
    BY <1>3
  <2>2. a + pow2[j] \in Addr /\ a + pow2[j] # a
    BY <1>3
  <2> HIDE DEF at
  <2>3. (CHOOSE n \in k..(i - 1) : at(a + pow2[j], n)) = j
    BY <2>1
  <2> QED BY <1>4, <2>1, <2>2, <2>3
<1>8. ASSUME NEW x \in Addr, x # a, \A j \in k..(i - 1) : x # a + pow2[j]
      PROVE  m[x] = H.md[x]
  BY Zenon, <1>4, <1>8
<1>9. -1 \notin Orders
  BY SizeFacts DEF Orders
<1>10. \A n \in Orders : \A f \in BOOLEAN : \A r : r = [order |-> n, is_free |-> f] =>
          r \in Metadata /\ r # NoMD /\ r.order = n
  BY <1>9 DEF Metadata, NoMD
<1>11. m \in [Addr -> Metadata \cup {NoMD}]
  <2>1. \A x \in Addr : m[x] \in Metadata \cup {NoMD}
    <3> SUFFICES ASSUME NEW x \in Addr PROVE m[x] \in Metadata \cup {NoMD}
      OBVIOUS
    <3>1. CASE x = a
      BY Zenon, <1>6, <1>10, <3>1
    <3>2. CASE \E j \in k..(i - 1) : x = a + pow2[j]
      <4>1. PICK j \in k..(i - 1) : x = a + pow2[j]
        BY <3>2
      <4>2. j \in Orders
        BY <1>3
      <4> QED BY Zenon, <1>7, <1>10, <4>1, <4>2
    <3>3. CASE x # a /\ \A j \in k..(i - 1) : x # a + pow2[j]
      BY Zenon, <1>0, <1>8, <3>3
    <3> QED BY <3>1, <3>2, <3>3
  <2> QED BY <1>5, <2>1
<1>12. m[a] # NoMD /\ m[a].order = k
  BY Zenon, <1>6, <1>10
<1>13. \A j \in k..(i - 1) : m[a + pow2[j]] # NoMD /\ m[a + pow2[j]].order = j
  <2> SUFFICES ASSUME NEW j \in k..(i - 1)
               PROVE  m[a + pow2[j]] # NoMD /\ m[a + pow2[j]].order = j
    OBVIOUS
  <2>1. j \in Orders /\ TRUE \in BOOLEAN
    BY <1>3
  <2>2. m[a + pow2[j]] = [order |-> j, is_free |-> TRUE]
    BY <1>7
  <2> QED BY Zenon, <1>10, <2>1, <2>2
<1>14. Halved(H.md, m, a, i, k)
  BY <1>8, <1>11, <1>12, <1>13 DEF Halved
<1> QED BY <1>2, <1>6, <1>7, <1>14 DEF IsSplit

(* The lists follow. *)
LEMMA SplitLists ==
    ASSUME NEW H, HeapOK(H), NEW a \in Live(H.md), NEW i, i = H.md[a].order,
           NEW k \in Orders, k < i, NEW G, G = splitBlocks(H, a, i, k)
    PROVE  HeapOK(G)
<1> DEFINE md == H.md
           m == G.md
<1>0. /\ Tiled(md) /\ a \in Addr /\ a \in Nat /\ i \in Orders /\ i \in Nat /\ k \in Nat
      /\ \A j \in Orders : Ascending(H.list[j], OfOrder(md, j))
  BY BlockFacts, SizeFacts DEF HeapOK, Tiled
<1>1. G = [md |-> m, list |-> G.list] /\ Halved(md, m, a, i, k)
  <2>1. IsSplit(H, G, a, i, k)
    BY SplitMetadata
  <2> QED BY <2>1 DEF IsSplit
<1>2. Tiled(m)
  BY <1>0, <1>1, HalvedTiled
<1>3. /\ m[a].order = k
      /\ \A j \in k..(i - 1) : m[a + pow2[j]].order = j
      /\ \A x \in Addr : x # a /\ (\A j \in k..(i - 1) : x # a + pow2[j]) => m[x] = md[x]
  BY Zenon, <1>1 DEF Halved
<1>4. /\ \A j \in k..(i - 1) : j \in Orders /\ a + pow2[j] \in Addr /\ a + pow2[j] # a
      /\ \A j \in k..(i - 1) : a + pow2[j] \notin Live(md)
  <2>1. \A j \in k..(i - 1) : j \in Orders /\ a + pow2[j] \in Addr /\ a + pow2[j] \notin Live(md)
    BY <1>0, PiecesWithin
  <2> QED BY <2>1
<1>5. \A j \in k..(i - 1) : \A n \in Orders : a + pow2[j] \notin OfOrder(md, n)
  BY <1>0, <1>4, OfOrderLive
<1>6. md[a].order = i /\ k # i
  BY <1>0
<1>7. \A j \in Orders :
        G.list[j] = IF j = k THEN addMD(addMD(H.list[j], a + pow2[j]), a)
                    ELSE IF j \in k..(i - 1) THEN addMD(H.list[j], a + pow2[j])
                    ELSE IF j = i THEN delMD(H.list[j], a)
                    ELSE H.list[j]
  BY <1>6 DEF splitBlocks
<1> HIDE DEF md, m
<1>8. ASSUME NEW n \in Orders PROVE Ascending(G.list[n], OfOrder(m, n))
  <2>1. Ascending(H.list[n], OfOrder(md, n))
    BY Zenon, <1>0
  <2>2. \A x \in Addr : x \in OfOrder(m, n) <=>
           \/ x = a /\ n = k
           \/ n \in k..(i - 1) /\ x = a + pow2[n]
           \/ x # a /\ x \in OfOrder(md, n)
    <3> SUFFICES ASSUME NEW x \in Addr
                 PROVE  x \in OfOrder(m, n) <=> \/ x = a /\ n = k
                                                \/ n \in k..(i - 1) /\ x = a + pow2[n]
                                                \/ x # a /\ x \in OfOrder(md, n)
      OBVIOUS
    <3>1. CASE x = a
      BY <1>3, <1>4, <3>1 DEF OfOrder
    <3>2. CASE \E j \in k..(i - 1) : x = a + pow2[j]
      <4>1. PICK j \in k..(i - 1) : x = a + pow2[j]
        BY <3>2
      <4>2. m[x].order = j /\ x # a /\ x \notin OfOrder(md, n)
        BY <1>3, <1>4, <1>5, <4>1
      <4>3. n \in k..(i - 1) /\ x = a + pow2[n] => m[x].order = n
        BY <1>3
      <4>4. x \in OfOrder(m, n) <=> n = j
        BY <4>2 DEF OfOrder
      <4> QED BY <4>1, <4>2, <4>3, <4>4
    <3>3. CASE x # a /\ \A j \in k..(i - 1) : x # a + pow2[j]
      BY <1>3, <3>3 DEF OfOrder
    <3> QED BY <3>1, <3>2, <3>3
  <2>3. OfOrder(m, n) \subseteq Addr /\ OfOrder(md, n) \subseteq Addr
    BY DEF OfOrder
  <2>4. CASE n = k
    <3>1. k \in k..(i - 1)
      BY <1>0
    <3>2. a + pow2[k] \in Addr /\ a + pow2[k] \notin OfOrder(md, n) /\ a + pow2[k] # a
      BY <1>4, <1>5, <3>1
    <3>3. a \notin OfOrder(md, n)
      BY <1>6, <2>4 DEF OfOrder
    <3>4. Ascending(addMD(H.list[n], a + pow2[k]), OfOrder(md, n) \cup {a + pow2[k]})
      BY <2>1, <3>2, AddAscending
    <3>5. a \notin OfOrder(md, n) \cup {a + pow2[k]}
      BY <3>2, <3>3
    <3>6. Ascending(addMD(addMD(H.list[n], a + pow2[k]), a),
                    (OfOrder(md, n) \cup {a + pow2[k]}) \cup {a})
      BY <1>0, <3>4, <3>5, AddAscending
    <3>7. OfOrder(m, n) = (OfOrder(md, n) \cup {a + pow2[k]}) \cup {a}
      BY Zenon, <1>0, <2>2, <2>3, <2>4, <3>1, <3>2, <3>3
    <3> QED BY <1>7, <2>4, <3>6, <3>7
  <2>5. CASE n # k /\ n \in k..(i - 1)
    <3>1. a + pow2[n] \in Addr /\ a + pow2[n] \notin OfOrder(md, n)
      BY <1>4, <1>5, <2>5
    <3>2. Ascending(addMD(H.list[n], a + pow2[n]), OfOrder(md, n) \cup {a + pow2[n]})
      BY <2>1, <3>1, AddAscending
    <3>3. a \notin OfOrder(md, n)
      BY <1>0, <1>6, <2>5 DEF OfOrder
    <3>4. OfOrder(m, n) = OfOrder(md, n) \cup {a + pow2[n]}
      BY Zenon, <1>0, <2>2, <2>3, <2>5, <3>1, <3>3
    <3> QED BY <1>7, <2>5, <3>2, <3>4
  <2>6. CASE n = i
    <3>1. Ascending(delMD(H.list[n], a), OfOrder(md, n) \ {a})
      BY <2>1, DelAscending
    <3>2. n # k /\ n \notin k..(i - 1)
      BY <1>0, <1>6, <2>6
    <3>3. OfOrder(m, n) = OfOrder(md, n) \ {a}
      BY <2>2, <2>3, <3>2
    <3> QED BY <1>7, <2>6, <3>1, <3>2, <3>3
  <2>7. CASE n # i /\ n # k /\ n \notin k..(i - 1)
    <3>1. a \notin OfOrder(md, n)
      BY <1>6, <2>7 DEF OfOrder
    <3>2. OfOrder(m, n) = OfOrder(md, n)
      BY Zenon, <2>2, <2>3, <2>7, <3>1
    <3> QED BY <1>7, <2>1, <2>7, <3>2
  <2> QED BY <2>4, <2>5, <2>6, <2>7
<1> QED BY <1>1, <1>2, <1>8 DEF HeapOK, m

(* A split takes the block, and the pieces left over make no pair. *)
LEMMA SplitFacts ==
    ASSUME NEW H, HeapOK(H), NEW a \in Live(H.md), ~H.md[a].is_free,
           NEW i, i = H.md[a].order, NEW k \in Orders, k < i,
           NEW G, G = splitBlocks(H, a, i, k)
    PROVE  IsTaken(H, G, a, k)
<1> DEFINE md == H.md
           m == G.md
<1>0. /\ Tiled(md) /\ a \in Addr /\ a \in Nat /\ i \in Orders /\ i \in Nat /\ k \in Nat
  BY BlockFacts, SizeFacts DEF HeapOK
<1>1. HeapOK(G) /\ IsSplit(H, G, a, i, k)
  BY SplitLists, SplitMetadata
<1>2. /\ Halved(md, m, a, i, k) /\ m[a] = [order |-> k, is_free |-> FALSE]
      /\ \A j \in k..(i - 1) : m[a + pow2[j]] = [order |-> j, is_free |-> TRUE]
  BY <1>1 DEF IsSplit
<1>3. /\ m[a] # NoMD
      /\ \A x \in Addr : x # a /\ (\A j \in k..(i - 1) : x # a + pow2[j]) => m[x] = md[x]
  BY Zenon, <1>2 DEF Halved
<1>4. Tiled(m) /\ Live(m) = Live(md) \cup {a + pow2[j] : j \in k..(i - 1)}
  BY <1>0, <1>2, HalvedTiled
<1>5. \A j \in k..(i - 1) : /\ j \in Orders /\ j \in Nat /\ a + pow2[j] \in Addr
                            /\ a + pow2[j] \notin Live(md) /\ pow2[j] \in Nat \ {0}
                            /\ Multiple(a, pow2[j + 1]) /\ Multiple(a + pow2[j], pow2[j])
  BY <1>0, PiecesWithin
<1> HIDE DEF md, m
<1>6. ASSUME NEW x \in Live(md), x # a PROVE m[x] = md[x]
  BY <1>3, <1>5, <1>6 DEF Live
<1>7. ASSUME NEW j \in k..(i - 1) PROVE m[a + pow2[j]].is_free /\ m[a + pow2[j]].order = j
  <2>1. m[a + pow2[j]] = [order |-> j, is_free |-> TRUE]
    BY <1>2
  <2>2. \A r : r = [order |-> j, is_free |-> TRUE] => r.is_free /\ r.order = j
    OBVIOUS
  <2> QED BY Zenon, <2>1, <2>2
<1>8. ~m[a].is_free /\ ~md[a].is_free
  BY <1>2 DEF md
<1>9. Used(m) = Used(md) \cup {a}
  <2>1. ASSUME NEW x \in Addr PROVE x \in Used(m) <=> x \in Used(md) \cup {a}
    <3>1. CASE x = a
      BY <1>0, <1>3, <1>8, <3>1 DEF Used
    <3>2. CASE \E j \in k..(i - 1) : x = a + pow2[j]
      <4>1. PICK j \in k..(i - 1) : x = a + pow2[j]
        BY <3>2
      <4>2. x \notin Live(md) /\ x # a
        BY <1>5, <4>1, <1>0
      <4>3. m[x].is_free
        BY <1>7, <4>1
      <4> QED BY <4>2, <4>3 DEF Used, Live
    <3>3. CASE x # a /\ \A j \in k..(i - 1) : x # a + pow2[j]
      BY <1>3, <3>3 DEF Used
    <3> QED BY <3>1, <3>2, <3>3
  <2>2. Used(m) \subseteq Addr /\ Used(md) \subseteq Addr /\ a \in Addr
    BY <1>0 DEF Used
  <2> QED BY <2>1, <2>2
<1>10. ASSUME NEW j \in k..(i - 1) PROVE findNeighboringBlock(a + pow2[j], j) = a
  <2> DEFINE p == pow2[j]
  <2>1. p \in Nat \ {0} /\ Multiple(a, 2 * p) /\ Multiple(a, p)
    <3>1. pow2[j + 1] = 2 * pow2[j]
      BY <1>5, SizeFacts
    <3>2. Multiple(a, p)
      <4>1. \A q \in Nat : \A n \in Nat : n * (2 * q) = (n * 2) * q /\ n * 2 \in Nat
        OBVIOUS
      <4>2. PICK n \in Nat : a = n * (2 * p)
        BY <1>5, <3>1 DEF Multiple
      <4> HIDE DEF p
      <4>3. p \in Nat
        BY <1>5 DEF p
      <4> QED BY <4>1, <4>2, <4>3 DEF Multiple
    <3> QED BY <1>5, <3>1, <3>2
  <2> HIDE DEF p
  <2>2. flipped(a, p) = a + p
    <3>1. \/ flipped(a, p) = a + p
          \/ flipped(a, p) + p = a /\ Multiple(flipped(a, p), 2 * p)
      BY <2>1, FlippedHalf
    <3>2. ASSUME flipped(a, p) + p = a, Multiple(flipped(a, p), 2 * p) PROVE FALSE
      <4>1. flipped(a, p) \in Nat
        BY <2>1, FlippedHalf
      <4>2. flipped(a, p) < a
        BY <1>0, <2>1, <3>2, <4>1
      <4>3. 2 * p \in Nat \ {0}
        BY <2>1
      <4>4. flipped(a, p) + 2 * p <= a
        BY <2>1, <3>2, <4>2, <4>3, MultiplesApart
      <4> QED BY <1>0, <2>1, <3>2, <4>1, <4>4
    <3> QED BY <3>1, <3>2, <2>1, FlippedHalf
  <2>3. flipped(a + p, p) = a
    BY <2>1, <2>2, FlippedHalf
  <2> QED BY <2>3, NeighbourIsFlipped DEF p
<1>11. ASSUME NoPairs(md) PROVE NoPairs(m)
  <2> SUFFICES ASSUME NEW x \in Live(m), m[x].is_free, m[x].order # MaxOrder,
                      NEW c, c = findNeighboringBlock(x, m[x].order),
                      m[c].is_free, m[c].order = m[x].order
               PROVE  FALSE
    BY DEF NoPairs
  <2>1. x # a /\ c # a
    BY <1>8
  <2>2. c \in Addr /\ findNeighboringBlock(c, m[x].order) = x
    BY <1>4, NeighbourFacts
  <2>3. \A j \in k..(i - 1) : x # a + pow2[j]
    BY <1>7, <1>10, <2>1
  <2>4. \A j \in k..(i - 1) : c # a + pow2[j]
    BY <1>7, <1>10, <2>1, <2>2
  <2>5. x \in Addr /\ m[x] = md[x] /\ m[c] = md[c]
    BY <1>3, <2>1, <2>2, <2>3, <2>4 DEF Live
  <2>6. x \in Live(md)
    BY <1>4, <2>3
  <2> QED BY <1>11, <2>5, <2>6 DEF NoPairs
<1> QED BY Zenon, <1>1, <1>2, <1>6, <1>9, <1>11 DEF IsTaken, m, md

(* Merging a block with its neighbour of the same order. *)
LEMMA JoinFacts ==
    ASSUME NEW H, HeapOK(H), NEW a \in Live(H.md), NEW k, k = H.md[a].order, k # MaxOrder,
           NEW b, b = findNeighboringBlock(a, k), H.md[b].order = k,
           NEW at, at = lower(a, b), NEW f \in BOOLEAN,
           NEW G, G = join(H, a, b, at, k, f),
           NEW other, other = IF at = a THEN b ELSE a
    PROVE  IsJoined(H, G, at, other, k, f)
<1> DEFINE p == pow2[k]
           m == [x \in Addr |->
                    IF x = at THEN [order |-> H.md[at].order + 1, is_free |-> f]
                    ELSE IF x = other /\ H.md[x].order = k THEN NoMD
                    ELSE H.md[x]]
           l == [j \in Orders |->
                    IF j = k THEN delMD(delMD(H.list[j], a), b)
                    ELSE IF j = k + 1 THEN addMD(H.list[j], at)
                    ELSE H.list[j]]
<1>0. /\ Tiled(H.md) /\ H = [md |-> H.md, list |-> H.list]
      /\ H.md \in [Addr -> Metadata \cup {NoMD}]
      /\ \A n \in Orders : Ascending(H.list[n], OfOrder(H.md, n))
  BY DEF HeapOK, Tiled
<1>1. a \in Addr /\ k \in Orders /\ k \in Nat /\ b \in Live(H.md)
  BY <1>0, BlockFacts, NeighbourIsBlock
<1>2. /\ p \in Nat \ {0} /\ a \in Nat /\ b \in Nat /\ b \in Addr
      /\ k + 1 \in Orders /\ pow2[k + 1] = 2 * p
      /\ \/ b = a + p /\ Multiple(a, 2 * p)
         \/ b + p = a /\ Multiple(b, 2 * p)
  BY <1>0, NeighbourFacts
<1>3. /\ at # other /\ {at, other} = {a, b} /\ other = at + p /\ Multiple(at, 2 * p)
      /\ at \in Live(H.md) /\ other \in Live(H.md) /\ at \in Addr /\ other \in Addr
      /\ H.md[at].order = k /\ H.md[other].order = k
  <2> HIDE DEF p
  <2>1. CASE b = a + p /\ Multiple(a, 2 * p)
    <3>1. at = a /\ other = b /\ a # b
      BY <1>2, <2>1 DEF lower
    <3> QED BY <1>1, <1>2, <2>1, <3>1
  <2>2. CASE b + p = a /\ Multiple(b, 2 * p)
    <3>1. at = b /\ other = a /\ a # b /\ a = b + p
      BY <1>2, <2>2 DEF lower
    <3> QED BY Zenon, <1>1, <1>2, <2>2, <3>1
  <2> QED BY Zenon, <1>2, <2>1, <2>2
<1>4. G = [md |-> m, list |-> l]
  BY DEF join
<1>5. G.md = m /\ G.list = l
  BY <1>4
<1>6. /\ m[at] = [order |-> k + 1, is_free |-> f] /\ m[other] = NoMD
      /\ \A x \in Addr : x # at /\ x # other => m[x] = H.md[x]
  BY Zenon, <1>3
<1>7. DOMAIN m = Addr /\ m = [x \in Addr |-> m[x]]
  BY Zenon
<1>8. \A j \in Orders : l[j] = IF j = k THEN delMD(delMD(H.list[j], a), b)
                               ELSE IF j = k + 1 THEN addMD(H.list[j], at)
                               ELSE H.list[j]
  OBVIOUS
<1> HIDE DEF m, l, p
<1>9. m[at] \in Metadata /\ m[at] # NoMD /\ m[at].order = k + 1
  <2>1. -1 \notin Orders
    BY SizeFacts DEF Orders
  <2> QED BY <1>2, <1>6, <2>1 DEF Metadata, NoMD
<1>10. m \in [Addr -> Metadata \cup {NoMD}]
  <2>1. \A x \in Addr : m[x] \in Metadata \cup {NoMD}
    BY <1>0, <1>6, <1>9
  <2> QED BY <1>7, <2>1
<1>11. Halves(H.md, at, other) /\ Merged(H.md, m, at, other)
  BY Zenon, <1>3, <1>6, <1>9, <1>10 DEF Halves, Merged, p
<1>12. Tiled(m) /\ Live(m) = Live(H.md) \ {other}
  BY <1>0, <1>11, MergedTiled
<1>13. ASSUME NEW n \in Orders PROVE Ascending(l[n], OfOrder(m, n))
  <2>1. Ascending(H.list[n], OfOrder(H.md, n))
    BY <1>0
  <2>2. NoMD.order \notin Orders
    BY SizeFacts DEF Orders, NoMD
  <2>3. CASE n = k
    <3>1. Ascending(delMD(H.list[n], a), OfOrder(H.md, n) \ {a})
      BY <2>1, DelAscending
    <3>2. Ascending(delMD(delMD(H.list[n], a), b), (OfOrder(H.md, n) \ {a}) \ {b})
      BY <3>1, DelAscending
    <3>3. OfOrder(m, n) = (OfOrder(H.md, n) \ {a}) \ {b}
      <4>1. k + 1 # k /\ m[other].order # k
        BY <1>1, <1>6, <2>2
      <4>2. \A x : x = at \/ x = other <=> x = a \/ x = b
        BY Zenon, <1>3
      <4> QED BY Zenon, <1>3, <1>6, <1>9, <2>3, <4>1, <4>2 DEF OfOrder
    <3> QED BY Zenon, <1>8, <2>3, <3>2, <3>3
  <2>4. CASE n = k + 1
    <3>1. k + 1 # k
      BY <1>1
    <3>2. at \notin OfOrder(H.md, n)
      BY <1>3, <2>4, <3>1 DEF OfOrder
    <3>3. Ascending(addMD(H.list[n], at), OfOrder(H.md, n) \cup {at})
      BY Zenon, <1>3, <2>1, <3>2, AddAscending
    <3>4. OfOrder(m, n) = OfOrder(H.md, n) \cup {at}
      BY Zenon, <1>3, <1>6, <1>9, <2>2, <2>4, <3>1 DEF OfOrder
    <3> QED BY Zenon, <1>8, <2>4, <3>1, <3>3, <3>4
  <2>5. CASE n # k /\ n # k + 1
    <3>1. OfOrder(m, n) = OfOrder(H.md, n)
      BY Zenon, <1>3, <1>6, <1>9, <2>2, <2>5 DEF OfOrder
    <3> QED BY Zenon, <1>8, <2>1, <2>5, <3>1
  <2> QED BY <2>3, <2>4, <2>5
<1>14. HeapOK(G)
  BY <1>4, <1>5, <1>12, <1>13 DEF HeapOK
<1> QED BY Zenon, <1>5, <1>6, <1>12, <1>14 DEF IsJoined

(* Taking a block of the heap whole. *)
LEMMA MarkTaken ==
    ASSUME NEW H, HeapOK(H), NEW a \in Live(H.md), NEW G, G = mark(H, a, FALSE)
    PROVE  IsTaken(H, G, a, H.md[a].order)
<1>1. /\ HeapOK(G) /\ Live(G.md) = Live(H.md)
      /\ G.md[a] = [order |-> H.md[a].order, is_free |-> FALSE]
      /\ \A x \in Addr : x # a => G.md[x] = H.md[x]
      /\ \A x \in Addr : G.md[x].order = H.md[x].order
  <2>1. IsMarked(H, G, a, FALSE)
    BY Zenon, MarkFacts
  <2> QED BY Zenon, <2>1 DEF IsMarked
<1>2. Live(H.md) \subseteq Addr /\ a \in Addr /\ ~G.md[a].is_free
  <2>1. \A n, y : y = [order |-> n, is_free |-> FALSE] => ~y.is_free
    OBVIOUS
  <2>2. ~G.md[a].is_free
    BY Zenon, <1>1, <2>1
  <2> QED BY Zenon, <2>2 DEF Live
<1>3. Used(G.md) = Used(H.md) \cup {a}
  BY Zenon, <1>1, <1>2 DEF Used, Live
<1>4. ASSUME NoPairs(H.md) PROVE NoPairs(G.md)
  <2> SUFFICES ASSUME NEW x \in Live(G.md), G.md[x].is_free, G.md[x].order # MaxOrder,
                      NEW c, c = findNeighboringBlock(x, G.md[x].order),
                      G.md[c].is_free, G.md[c].order = G.md[x].order
               PROVE  FALSE
    BY Zenon DEF NoPairs
  <2>1. x # a /\ c # a
    BY Zenon, <1>2
  <2>2. c \in Addr
    BY Zenon, <1>1, NeighbourFacts DEF HeapOK
  <2>3. x \in Live(H.md) /\ G.md[x] = H.md[x] /\ G.md[c] = H.md[c]
    BY Zenon, <1>1, <1>2, <2>1, <2>2
  <2> QED BY Zenon, <1>4, <2>3 DEF NoPairs
<1>5. \A x \in Live(H.md) : x # a => G.md[x] = H.md[x]
  BY Zenon, <1>1, <1>2
<1> QED BY Zenon, <1>1, <1>3, <1>4, <1>5 DEF IsTaken

(* A second mark of a taken block. *)
LEMMA TakenTwice ==
    ASSUME NEW H, HeapOK(H), NEW a \in Live(H.md), NEW G, NEW K, NEW k,
           IsTaken(H, G, a, H.md[a].order), IsTaken(G, K, a, k)
    PROVE  IsTaken(H, K, a, k)
<1>1. /\ Used(G.md) = Used(H.md) \cup {a}
      /\ \A x \in Live(H.md) : x # a => G.md[x] = H.md[x]
      /\ NoPairs(H.md) => NoPairs(G.md)
  BY DEF IsTaken
<1>2. /\ HeapOK(K) /\ K.md[a] = [order |-> k, is_free |-> FALSE]
      /\ Used(K.md) = Used(G.md) \cup {a}
      /\ \A x \in Live(G.md) : x # a => K.md[x] = G.md[x]
      /\ NoPairs(G.md) => NoPairs(K.md)
  BY DEF IsTaken
<1>3. ASSUME NEW x \in Live(H.md), x # a PROVE K.md[x] = H.md[x]
  <2>1. G.md[x] = H.md[x] /\ x \in Live(G.md)
    BY <1>1, <1>3 DEF Live
  <2> QED BY <1>2, <1>3, <2>1
<1>4. Used(K.md) = Used(H.md) \cup {a}
  BY <1>1, <1>2
<1> QED BY Zenon, <1>1, <1>2, <1>3, <1>4 DEF IsTaken

(* A list with a free block has a first one. *)
LEMMA FirstFree ==
    ASSUME NEW H, HeapOK(H), NEW k \in Orders, hasFree(H, k),
           NEW a, a = findFreeSizedBlock(H, k)
    PROVE  a \in Live(H.md) /\ H.md[a].is_free /\ H.md[a].order = k
<1> DEFINE l == H.list[k]
           unused(n) == H.md[l[n]].is_free
           T == {n \in 1..Len(l) : unused(n)}
           n0 == CHOOSE n \in 1..Len(l) : /\ H.md[l[n]].is_free
                                          /\ \A j \in 1..(n - 1) : ~H.md[l[j]].is_free
<1>1. /\ l \in Seq(Addr) /\ OfOrder(H.md, k) = {l[n] : n \in 1..Len(l)} /\ Tiled(H.md)
  BY DEF HeapOK, Ascending
<1>2. T # {} /\ Len(l) \in Nat
  BY <1>1 DEF hasFree
<1>3. a = l[n0]
  BY DEF findFreeSizedBlock
<1>4. n0 \in 1..Len(l) /\ unused(n0)
  <2>1. T \subseteq Nat
    BY <1>2
  <2>2. PICK n \in T : \A j \in T : n <= j
    <3> HIDE DEF T
    <3> QED BY Zenon, <1>2, <2>1, LeastNatural
  <2>3. n \in 1..Len(l) /\ unused(n) /\ \A j \in 1..(n - 1) : ~unused(j)
    <3>1. n \in 1..Len(l) /\ unused(n) /\ \A j \in 1..Len(l) : unused(j) => n <= j
      BY <2>2
    <3> HIDE DEF unused, l
    <3>2. \A j \in 1..(n - 1) : j \in 1..Len(l) /\ ~(n <= j)
      BY <1>2, <3>1
    <3> QED BY <3>1, <3>2
  <2> QED BY Zenon, <2>3
<1> HIDE DEF n0
<1>5. a \in OfOrder(H.md, k) /\ H.md[a].is_free
  BY <1>1, <1>3, <1>4
<1> QED BY <1>1, <1>5, OfOrderLive

(* What the search for a block returns. *)
LEMMA ExactFacts ==
    ASSUME NEW H, HeapOK(H), NEW size, NEW r, r = findExactSizeBlock(H, size)
    PROVE  IsExact(H, size, r)
<1> DEFINE fitting == {k \in Orders : bytes(k) >= size}
           k0 == CHOOSE k \in fitting : \A j \in fitting : k <= j
           usable == {i \in fitting : hasFree(H, i)}
           i0 == CHOOSE i \in usable : \A j \in usable : i <= j
           a == findFreeSizedBlock(H, i0)
           H1 == mark(H, a, FALSE)
           H2 == splitBlocks(H1, a, i0, k0)
<1>1. r = IF usable = {} THEN [heap |-> H, p |-> NULL]
          ELSE [heap |-> mark(H2, a, FALSE), p |-> a]
  BY Zenon DEF findExactSizeBlock
<1>2. CASE usable = {}
  BY Zenon, <1>1, <1>2 DEF IsExact
<1>3. CASE usable # {}
  <2>1. /\ fitting \subseteq Nat /\ fitting \subseteq Orders /\ usable \subseteq fitting
        /\ fitting # {} /\ usable \subseteq Nat
    BY <1>3, SizeFacts
  <2>2. k0 \in fitting /\ \A j \in fitting : k0 <= j
    <3> HIDE DEF fitting
    <3>1. \E k \in fitting : \A j \in fitting : k <= j
      BY Zenon, <2>1, LeastNatural
    <3> QED BY <3>1
  <2>3. i0 \in usable
    <3> HIDE DEF usable
    <3>1. \E i \in usable : \A j \in usable : i <= j
      BY Zenon, <1>3, <2>1, LeastNatural
    <3> QED BY <3>1
  <2> HIDE DEF k0, i0
  <2>4. /\ k0 \in Orders /\ bytes(k0) >= size /\ i0 \in Orders /\ bytes(i0) >= size
        /\ hasFree(H, i0) /\ k0 <= i0 /\ k0 \in Nat /\ i0 \in Nat
    BY <2>1, <2>2, <2>3
  <2> HIDE DEF fitting, usable
  <2>5. a \in Live(H.md) /\ H.md[a].is_free /\ H.md[a].order = i0
    BY <2>4, FirstFree
  <2>6. r.p = a /\ r.heap = mark(H2, a, FALSE)
    <3> DEFINE K == mark(H2, a, FALSE)
    <3>1. r = [heap |-> K, p |-> a]
      BY Zenon, <1>1, <1>3
    <3> HIDE DEF a, K
    <3>2. r.p = a /\ r.heap = K
      BY <3>1
    <3> QED BY <3>2 DEF K
  <2> HIDE DEF a
  <2>7. IsTaken(H, H1, a, i0)
    BY Zenon, <2>5, MarkTaken
  <2>8. /\ HeapOK(H1) /\ a \in Live(H1.md) /\ ~H1.md[a].is_free /\ H1.md[a].order = i0
    <3>1. IsMarked(H, H1, a, FALSE)
      BY Zenon, <2>5, MarkFacts
    <3> HIDE DEF H1
    <3>2. HeapOK(H1) /\ Live(H1.md) = Live(H.md) /\ H1.md[a] = [order |-> i0, is_free |-> FALSE]
      BY <2>5, <3>1 DEF IsMarked
    <3>3. \A y : y = [order |-> i0, is_free |-> FALSE] => ~y.is_free /\ y.order = i0
      OBVIOUS
    <3> QED BY Zenon, <2>5, <3>2, <3>3
  <2> HIDE DEF H1
  <2>9. IsTaken(H, H2, a, k0)
    <3>1. CASE k0 = i0
      <4>1. H2 = H1
        BY <3>1 DEF splitBlocks
      <4> QED BY <2>7, <3>1, <4>1
    <3>2. CASE k0 < i0
      <4>1. IsTaken(H1, H2, a, k0)
        BY <2>4, <2>8, <3>2, SplitFacts
      <4> HIDE DEF H2
      <4> QED BY <2>5, <2>7, <4>1, TakenTwice
    <3> QED BY <2>4, <3>1, <3>2
  <2> HIDE DEF H2
  <2>10. IsTaken(H, mark(H2, a, FALSE), a, k0)
    <3>1. /\ HeapOK(H2) /\ H2.md[a] = [order |-> k0, is_free |-> FALSE]
          /\ Used(H2.md) = Used(H.md) \cup {a} /\ a \in Used(H2.md)
      BY <2>9 DEF IsTaken
    <3>2. a \in Live(H2.md) /\ H2.md[a].order = k0
      BY <3>1 DEF Live, Used
    <3>3. IsTaken(H2, mark(H2, a, FALSE), a, k0)
      BY Zenon, <3>1, <3>2, MarkTaken
    <3> DEFINE K == mark(H2, a, FALSE)
    <3> HIDE DEF K
    <3>4. /\ \A x \in Live(H.md) : x # a => H2.md[x] = H.md[x]
          /\ NoPairs(H.md) => NoPairs(H2.md)
      BY <2>9 DEF IsTaken
    <3>5. /\ HeapOK(K) /\ K.md[a] = [order |-> k0, is_free |-> FALSE]
          /\ Used(K.md) = Used(H2.md) \cup {a}
          /\ \A x \in Live(H2.md) : x # a => K.md[x] = H2.md[x]
          /\ NoPairs(H2.md) => NoPairs(K.md)
      BY Zenon, <3>3 DEF IsTaken, K
    <3>6. ASSUME NEW x \in Live(H.md), x # a PROVE K.md[x] = H.md[x]
      <4>1. H2.md[x] = H.md[x] /\ x \in Live(H2.md)
        BY <3>4, <3>6 DEF Live
      <4> QED BY <3>5, <3>6, <4>1
    <3>7. Used(K.md) = Used(H.md) \cup {a}
      BY <3>1, <3>5
    <3>8. IsTaken(H, K, a, k0)
      BY Zenon, <3>4, <3>5, <3>6, <3>7 DEF IsTaken
    <3> QED BY Zenon, <3>8 DEF K
  <2> QED BY Zenon, <2>4, <2>5, <2>6, <2>10 DEF IsExact
<1> QED BY <1>2, <1>3
=============================================================================
