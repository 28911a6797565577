--------------------------- MODULE Malloc2Proofs ---------------------------
(***************************************************************************)
(* Proofs about Malloc2, for any sizes, any number of blocks and callers:  *)
(* the counters agree with the list, a block has one owner, and every byte *)
(* that a caller relies on is still in its block after any calls.          *)
(***************************************************************************)
EXTENDS Malloc2, FiniteSetTheorems, TLAPS

(* What the proofs need of numbers and sequences.                          *)

(* Every non-empty set of naturals has a least element. *)
LEMMA LeastNatural ==
    ASSUME NEW T, T \subseteq Nat, T # {}
    PROVE  \E x \in T : \A y \in T : x <= y
<1> DEFINE R == OpToRel(<, Nat)
<1>1. PICK x \in T : \A y \in T : ~ (<<y, x>> \in R)
  <2> HIDE DEF R
  <2>1. IsWellFoundedOn(R, Nat)
    BY Zenon, NatLessThanWellFounded DEF R
  <2> QED BY Zenon, <2>1, WFMin
<1>2. ASSUME NEW y \in T PROVE x <= y
  <2>1. ~(y < x)
    BY Zenon, <1>1 DEF OpToRel
  <2> QED BY <2>1
<1> QED BY <1>2

(* f holds the sums of the first terms of a, up to n of them. *)
Sums(f, a, n) == f = [i \in 0..n |-> IF i = 0 THEN 0 ELSE f[i - 1] + a[i]]

(* Every a has sums, up to every n. *)
LEMMA SumsExist == \A a : \A n \in Nat : \E f : Sums(f, a, n)
<1> TAKE a
<1> DEFINE T == {n \in Nat : ~ \E f : Sums(f, a, n)}
<1> SUFFICES ASSUME T # {} PROVE FALSE
  OBVIOUS
<1>1. PICK n \in T : \A m \in T : n <= m
  <2>1. T \subseteq Nat
    OBVIOUS
  <2> HIDE DEF T
  <2> QED BY Zenon, <2>1, LeastNatural
<1>2. CASE n = 0
  <2> DEFINE f == [i \in 0..0 |-> 0]
  <2>1. Sums(f, a, 0)
    BY DEF Sums
  <2> QED BY <1>1, <1>2, <2>1
<1>3. CASE n # 0
  <2>1. n - 1 \in Nat /\ n \in Nat /\ n - 1 \notin T
    BY <1>1, <1>3
  <2>2. PICK g : Sums(g, a, n - 1)
    BY <2>1
  <2> DEFINE f == [i \in 0..n |-> IF i = n THEN g[n - 1] + a[n] ELSE g[i]]
  <2>3. \A i \in 0..n : i # n => i \in 0..(n - 1) /\ f[i] = g[i]
    BY <2>1
  <2>4. \A i \in 0..n : i # 0 => f[i - 1] = g[i - 1]
    BY <2>1
  <2>5. ASSUME NEW i \in 0..n PROVE f[i] = IF i = 0 THEN 0 ELSE f[i - 1] + a[i]
    <3>1. CASE i = n
      <4>1. f[i] = g[n - 1] + a[n] /\ f[i - 1] = g[i - 1]
        BY <1>3, <2>1, <2>4, <3>1
      <4> HIDE DEF f
      <4> QED BY <1>3, <3>1, <4>1
    <3>2. CASE i # n
      <4>1. i \in 0..(n - 1) /\ f[i] = g[i] /\ (i # 0 => f[i - 1] = g[i - 1])
        BY <2>3, <2>4, <3>2
      <4> HIDE DEF f
      <4> QED BY <2>2, <4>1 DEF Sums
    <3> QED BY <3>1, <3>2
  <2>6. Sums(f, a, n)
    <3>1. f = [i \in 0..n |-> f[i]]
      OBVIOUS
    <3> HIDE DEF f
    <3> QED BY Zenon, <2>5, <3>1 DEF Sums
  <2> QED BY <1>1, <2>6
<1> QED BY <1>2, <1>3

(* What a sum is. *)
LEMMA SumsAt ==
    ASSUME NEW f, NEW a, NEW n, Sums(f, a, n), NEW i \in 0..n
    PROVE  f[i] = IF i = 0 THEN 0 ELSE f[i - 1] + a[i]
BY DEF Sums

(* The first n terms of a and b agree, but for the one at x. *)
AgreeBut(a, b, n, x) ==
    \A i \in 1..n : a[i] \in Int /\ b[i] \in Int /\ (i # x => a[i] = b[i])

(* The sums of integers are integers, and sums of terms that agree but for *)
(* the one at x differ by the difference of those.                         *)
LEMMA SumsDiffer ==
    ASSUME NEW n \in Nat, NEW a, NEW b, NEW x \in Nat, AgreeBut(a, b, n, x), NEW f, Sums(f, a, n),
           NEW m \in Nat, n <= m, NEW g, Sums(g, b, m)
    PROVE  /\ f[n] \in Int /\ g[n] \in Int
           /\ g[n] = f[n] + (IF x \in 1..n THEN b[x] - a[x] ELSE 0)
<1> DEFINE D(i) == IF x \in 1..i THEN b[x] - a[x] ELSE 0
           P(i) == f[i] \in Int /\ g[i] \in Int /\ g[i] = f[i] + D(i)
           T == {i \in 0..n : ~P(i)}
<1> SUFFICES ASSUME T # {} PROVE FALSE
  OBVIOUS
<1>0. \A i \in 1..n : a[i] \in Int /\ b[i] \in Int /\ (i # x => a[i] = b[i])
  BY DEF AgreeBut
<1>1. PICK i \in T : \A j \in T : i <= j
  <2>1. T \subseteq Nat
    OBVIOUS
  <2> HIDE DEF T
  <2> QED BY Zenon, <2>1, LeastNatural
<1>2. i \in 0..n /\ i \in 0..m /\ ~P(i)
  BY <1>1
<1>3. /\ f[i] = IF i = 0 THEN 0 ELSE f[i - 1] + a[i]
      /\ g[i] = IF i = 0 THEN 0 ELSE g[i - 1] + b[i]
  BY <1>2, SumsAt
<1>4. CASE i = 0
  <2>1. D(i) = 0
    BY <1>4
  <2> HIDE DEF D
  <2> QED BY <1>2, <1>3, <1>4, <2>1
<1>5. CASE i # 0
  <2>1. i \in 1..n /\ i - 1 \in 0..n /\ i - 1 \notin T
    BY <1>1, <1>2, <1>5
  <2>2. P(i - 1)
    BY <2>1
  <2>3. a[i] \in Int /\ b[i] \in Int /\ (i # x => a[i] = b[i])
    BY <1>0, <2>1
  <2>4. D(i) = IF i = x THEN b[x] - a[x] ELSE D(i - 1)
    <3>1. x \in 1..i <=> i = x \/ x \in 1..(i - 1)
      BY <2>1
    <3> QED BY <3>1
  <2>5. i = x => D(i - 1) = 0
    BY <2>1
  <2>6. D(i - 1) \in Int
    <3>1. x \in 1..(i - 1) => x \in 1..n
      BY <2>1
    <3> QED BY <1>0, <3>1
  <2> HIDE DEF D
  <2>7. P(i)
    BY <1>3, <1>5, <2>2, <2>3, <2>4, <2>5, <2>6
  <2> QED BY <1>2, <2>7
<1> QED BY <1>4, <1>5

(* Sequences. *)

(* What a sequence holds is in its set. *)
LEMMA SeqItem ==
    ASSUME NEW S, NEW s \in Seq(S), NEW n \in 1..Len(s)
    PROVE  s[n] \in S
OBVIOUS

(* A sequence is a function on 1..Len. *)
LEMMA SeqLen ==
    ASSUME NEW S, NEW s \in Seq(S)
    PROVE  Len(s) \in Nat /\ DOMAIN s = 1..Len(s) /\ s \in [1..Len(s) -> S]
OBVIOUS

(* The empty sequence, and the others. *)
LEMMA SeqEmpty ==
    ASSUME NEW S
    PROVE  << >> \in Seq(S) /\ Len(<< >>) = 0 /\ \A s \in Seq(S) : s # << >> => Len(s) \in Nat \ {0}
OBVIOUS

(* What Append returns. *)
LEMMA SeqAppend ==
    ASSUME NEW S, NEW s \in Seq(S), NEW e \in S
    PROVE  /\ Append(s, e) \in Seq(S) /\ Len(Append(s, e)) = Len(s) + 1
           /\ Append(s, e) # << >> /\ Append(s, e)[Len(s) + 1] = e
           /\ \A i \in 1..Len(s) : Append(s, e)[i] = s[i]
OBVIOUS

(* A sequence with one item replaced. *)
LEMMA SeqExcept ==
    ASSUME NEW S, NEW s \in Seq(S), NEW i \in 1..Len(s), NEW e \in S
    PROVE  /\ [s EXCEPT ![i] = e] \in Seq(S) /\ Len([s EXCEPT ![i] = e]) = Len(s)
           /\ \A j \in 1..Len(s) : [s EXCEPT ![i] = e][j] = IF j = i THEN e ELSE s[j]
OBVIOUS

(* What Head and Tail return. *)
LEMMA SeqTail ==
    ASSUME NEW S, NEW s \in Seq(S), s # << >>
    PROVE  /\ Head(s) \in S /\ Tail(s) \in Seq(S) /\ Len(Tail(s)) = Len(s) - 1
           /\ \A i \in 1..Len(Tail(s)) : Tail(s)[i] = s[i + 1]
OBVIOUS

(* What the sequences are. *)
LEMMA SeqFunctions == \A S : Seq(S) = UNION {[1..n -> S] : n \in Nat}
OBVIOUS

-----------------------------------------------------------------------------
USE Malloc2Assumption

(* The free blocks of a heap. *)
FreeOf(H) == {i \in 1..Len(H.list) : H.list[i].is_free}

(* HeapTypeOK, CountersExact and BytesExact as properties of the value of  *)
(* the heap.                                                               *)
BytesGood(H) ==
    /\ H.free_bytes = bytesOf(H.list, FreeOf(H))
    /\ H.allocated_bytes = bytesOf(H.list, 1..Len(H.list))

HeapGood(H) ==
    /\ H \in HeapType
    /\ H.free_blocks = Cardinality(FreeOf(H))
    /\ H.allocated_blocks = Len(H.list)
    /\ H.meta_data_bytes = MetaSize * Len(H.list)
    /\ BytesGood(H)

(* The search loop (malloc_2.cpp:39) returns NULL or a free block that is  *)
(* large enough.                                                           *)
LEMMA FirstFitFacts ==
    ASSUME NEW H \in HeapType, NEW size \in Nat, firstFit(H, size) # NULL
    PROVE  /\ firstFit(H, size) \in 1..Len(H.list)
           /\ H.list[firstFit(H, size)].is_free
           /\ H.list[firstFit(H, size)].size >= size
<1> DEFINE T == {i \in 1..Len(H.list) : fits(H.list[i], size)}
<1>1. H.list \in Seq(Block) /\ Len(H.list) \in Nat
  BY DEF HeapType
<1>2. T # {} /\ T \subseteq Nat
  BY <1>1 DEF firstFit
<1>3. PICK i \in T : \A j \in T : i <= j
  <2> HIDE DEF T
  <2> QED BY Zenon, <1>2, LeastNatural
<1>4. /\ i \in 1..Len(H.list) /\ fits(H.list[i], size)
      /\ \A j \in 1..(i - 1) : ~fits(H.list[j], size)
  BY <1>1, <1>3
<1>5. /\ firstFit(H, size) \in 1..Len(H.list)
      /\ fits(H.list[firstFit(H, size)], size)
  BY Zenon, <1>4 DEF firstFit
<1> QED
  BY <1>5 DEF fits

-----------------------------------------------------------------------------
(* The bytes of the blocks in a set. *)

(* What each block counts for. *)
Counted(l, S) == [i \in 1..Len(l) |-> IF i \in S THEN l[i].size ELSE 0]

(* bytesOf is the sum. *)
LEMMA BytesAreSum ==
    ASSUME NEW l, Len(l) \in Nat, NEW S
    PROVE  \E f : Sums(f, Counted(l, S), Len(l)) /\ bytesOf(l, S) = f[Len(l)]
<1> DEFINE n == Len(l)
           L(f) == f = [i \in 0..n |-> IF i = 0 THEN 0
                           ELSE f[i - 1] + (IF i \in S THEN l[i].size ELSE 0)]
           f == CHOOSE f : L(f)
<1>1. ASSUME NEW g PROVE L(g) <=> Sums(g, Counted(l, S), n)
  <2>1. \A i \in 0..n : i # 0 => Counted(l, S)[i] = IF i \in S THEN l[i].size ELSE 0
    BY DEF Counted
  <2> QED BY <2>1 DEF Sums
<1>2. bytesOf(l, S) = f[n]
  BY DEF bytesOf
<1>3. L(f)
  <2> HIDE DEF L
  <2> QED BY <1>1, SumsExist
<1> HIDE DEF L, f
<1> QED BY <1>1, <1>2, <1>3

(* A block counts for its size, which is a natural number. *)
LEMMA CountedFacts ==
    ASSUME NEW l \in Seq(Block), NEW S
    PROVE  /\ Len(l) \in Nat
           /\ \A i \in 1..Len(l) : /\ Counted(l, S)[i] = (IF i \in S THEN l[i].size ELSE 0)
                                   /\ l[i].size \in Nat /\ Counted(l, S)[i] \in Int
<1>1. Len(l) \in Nat
  OBVIOUS
<1>2. ASSUME NEW i \in 1..Len(l) PROVE l[i].size \in Nat
  <2>1. l[i] \in Block
    BY SeqItem
  <2> QED BY <2>1 DEF Block
<1> QED BY <1>1, <1>2 DEF Counted

SameSizes(k, l) == Len(k) = Len(l) /\ \A i \in 1..Len(l) : k[i].size = l[i].size

(* One more block in the set is its size more. *)
LEMMA BytesAdd ==
    ASSUME NEW l \in Seq(Block), NEW k \in Seq(Block), SameSizes(k, l),
           NEW S, NEW x \in 1..Len(l), x \notin S
    PROVE  /\ bytesOf(l, S) \in Int
           /\ bytesOf(k, S \cup {x}) = bytesOf(l, S) + l[x].size
<1> DEFINE n == Len(l)
           A == Counted(l, S)
           B == Counted(k, S \cup {x})
<1>1. n \in Nat /\ Len(k) = n /\ x \in Nat
  BY DEF SameSizes
<1>2. \A i \in 1..n : /\ A[i] = (IF i \in S THEN l[i].size ELSE 0)
                       /\ l[i].size \in Nat /\ A[i] \in Int
  BY CountedFacts
<1>3. \A i \in 1..n : /\ B[i] = (IF i \in S \cup {x} THEN k[i].size ELSE 0)
                       /\ k[i].size = l[i].size /\ B[i] \in Int
  BY <1>1, CountedFacts DEF SameSizes
<1>5. PICK f : Sums(f, A, n) /\ bytesOf(l, S) = f[n]
  BY <1>1, BytesAreSum
<1>6. PICK g : Sums(g, B, n) /\ bytesOf(k, S \cup {x}) = g[n]
  BY <1>1, BytesAreSum
<1> HIDE DEF n, A, B
<1>7. AgreeBut(A, B, n, x)
  BY <1>2, <1>3 DEF AgreeBut
<1>8. x \in 1..n
  BY DEF n
<1>9. A[x] = 0 /\ B[x] = l[x].size /\ l[x].size \in Nat
  BY <1>2, <1>3, <1>8
<1>10. f[n] \in Int /\ g[n] = f[n] + (IF x \in 1..n THEN B[x] - A[x] ELSE 0)
  BY <1>1, <1>5, <1>6, <1>7, SumsDiffer
<1> QED BY <1>5, <1>6, <1>8, <1>9, <1>10

(* A list of the same sizes has the same bytes. *)
LEMMA BytesSame ==
    ASSUME NEW l \in Seq(Block), NEW k \in Seq(Block), SameSizes(k, l), NEW S
    PROVE  bytesOf(l, S) \in Int /\ bytesOf(k, S) = bytesOf(l, S)
<1> DEFINE n == Len(l)
           A == Counted(l, S)
           B == Counted(k, S)
<1>1. n \in Nat /\ Len(k) = n
  BY DEF SameSizes
<1>2. \A i \in 1..n : A[i] = (IF i \in S THEN l[i].size ELSE 0) /\ A[i] \in Int
  BY CountedFacts
<1>3. \A i \in 1..n : B[i] = (IF i \in S THEN k[i].size ELSE 0) /\ k[i].size = l[i].size
  BY <1>1, CountedFacts DEF SameSizes
<1>5. PICK f : Sums(f, A, n) /\ bytesOf(l, S) = f[n]
  BY <1>1, BytesAreSum
<1>6. PICK g : Sums(g, B, n) /\ bytesOf(k, S) = g[n]
  BY <1>1, BytesAreSum
<1> HIDE DEF n, A, B
<1>7. AgreeBut(A, B, n, 0)
  BY <1>2, <1>3 DEF AgreeBut
<1>8. f[n] \in Int /\ g[n] = f[n] + (IF 0 \in 1..n THEN B[0] - A[0] ELSE 0)
  BY <1>1, <1>5, <1>6, <1>7, SumsDiffer
<1>9. 0 \notin 1..n
  BY <1>1
<1> QED BY <1>5, <1>6, <1>8, <1>9

(* A block at the end of the list counts when it is in the set. *)
LEMMA BytesAppend ==
    ASSUME NEW l \in Seq(Block), NEW b \in Block, NEW S,
           NEW k \in Seq(Block), Len(k) = Len(l) + 1, k[Len(l) + 1] = b,
           \A i \in 1..Len(l) : k[i] = l[i]
    PROVE  bytesOf(k, S) = bytesOf(l, S) + (IF Len(l) + 1 \in S THEN b.size ELSE 0)
<1> DEFINE n == Len(l)
           A == Counted(l, S)
           B == Counted(k, S)
<1>1. n \in Nat /\ n + 1 \in Nat /\ n <= n + 1 /\ Len(k) = n + 1
  OBVIOUS
<1>2. \A i \in 1..n : A[i] = (IF i \in S THEN l[i].size ELSE 0) /\ A[i] \in Int
  BY CountedFacts
<1>3. \A i \in 1..(n + 1) : B[i] = (IF i \in S THEN k[i].size ELSE 0)
  BY <1>1, CountedFacts
<1>4. B[n + 1] = IF n + 1 \in S THEN b.size ELSE 0
  BY <1>1, <1>3
<1>5. PICK f : Sums(f, A, n) /\ bytesOf(l, S) = f[n]
  BY <1>1, BytesAreSum
<1>6. PICK g : Sums(g, B, n + 1) /\ bytesOf(k, S) = g[n + 1]
  BY <1>1, BytesAreSum
<1>7. \A i \in 1..n : k[i] = l[i] /\ i \in 1..(n + 1)
  BY <1>1
<1> HIDE DEF n, A, B
<1>8. AgreeBut(A, B, n, 0)
  BY <1>2, <1>3, <1>7 DEF AgreeBut
<1>9. f[n] \in Int /\ g[n] = f[n] + (IF 0 \in 1..n THEN B[0] - A[0] ELSE 0)
  BY <1>1, <1>5, <1>6, <1>8, SumsDiffer
<1>10. g[n] = f[n]
  <2>1. 0 \notin 1..n
    BY <1>1
  <2> QED BY <1>9, <2>1
<1>11. g[n + 1] = g[n] + B[n + 1]
  <2>1. n + 1 \in 0..(n + 1) /\ n + 1 # 0 /\ (n + 1) - 1 = n
    BY <1>1
  <2>2. g[n + 1] = IF n + 1 = 0 THEN 0 ELSE g[(n + 1) - 1] + B[n + 1]
    BY <1>6, <2>1, SumsAt
  <2> QED BY <2>1, <2>2
<1> QED BY <1>4, <1>5, <1>6, <1>10, <1>11 DEF n

(* Only the blocks of the list count. *)
LEMMA BytesWithin ==
    ASSUME NEW l \in Seq(Block), NEW S, NEW x, x \notin 1..Len(l)
    PROVE  bytesOf(l, S \cup {x}) = bytesOf(l, S)
<1>1. Counted(l, S \cup {x}) = Counted(l, S)
  BY DEF Counted
<1>2. PICK f : Sums(f, Counted(l, S), Len(l)) /\ bytesOf(l, S) = f[Len(l)]
  BY BytesAreSum
<1>3. PICK g : Sums(g, Counted(l, S), Len(l)) /\ bytesOf(l, S \cup {x}) = g[Len(l)]
  BY <1>1, BytesAreSum
<1>4. AgreeBut(Counted(l, S), Counted(l, S), Len(l), 0)
  BY CountedFacts DEF AgreeBut
<1>5. Len(l) \in Nat /\ 0 \notin 1..Len(l)
  OBVIOUS
<1> DEFINE A == Counted(l, S)
<1> HIDE DEF A
<1>6. f[Len(l)] \in Int /\ g[Len(l)] = f[Len(l)] + (IF 0 \in 1..Len(l) THEN A[0] - A[0] ELSE 0)
  BY <1>2, <1>3, <1>4, <1>5, SumsDiffer DEF A
<1> QED BY <1>2, <1>3, <1>5, <1>6

(* An empty list has no bytes. *)
LEMMA BytesNone == \A S : bytesOf(<< >>, S) = 0
<1> TAKE S
<1>1. Len(<< >>) = 0
  OBVIOUS
<1>2. PICK f : Sums(f, Counted(<< >>, S), 0) /\ bytesOf(<< >>, S) = f[0]
  BY <1>1, BytesAreSum
<1> QED BY <1>2, SumsAt

-----------------------------------------------------------------------------
(* The free blocks of a heap are finitely many. *)
LEMMA FreeFinite ==
    ASSUME NEW H \in HeapType
    PROVE  IsFiniteSet(FreeOf(H))
<1>1. Len(H.list) \in Nat
  BY DEF HeapType
<1>2. IsFiniteSet(1..Len(H.list))
  BY <1>1, FS_Interval
<1> QED
  BY <1>2, FS_Subset DEF FreeOf

(* Setting is_free of one block changes nothing else in the list. *)
LEMMA MarkFacts ==
    ASSUME NEW l \in Seq(Block), NEW i \in 1..Len(l), NEW b \in BOOLEAN
    PROVE  /\ mark(l, i, b) \in Seq(Block) /\ Len(mark(l, i, b)) = Len(l)
           /\ mark(l, i, b)[i] = [size |-> l[i].size, is_free |-> b]
           /\ \A j \in 1..Len(l) :
                 j # i => mark(l, i, b)[j].is_free = l[j].is_free
           /\ SameSizes(mark(l, i, b), l)
<1> DEFINE e == [size |-> l[i].size, is_free |-> b]
<1>1. l[i] \in Block
  BY SeqItem
<1>2. e \in Block
  BY <1>1 DEF Block
<1>4. mark(l, i, b) = [l EXCEPT ![i] = e]
  BY DEF mark
<1> HIDE DEF e
<1>5. /\ mark(l, i, b) \in Seq(Block) /\ Len(mark(l, i, b)) = Len(l)
      /\ \A j \in 1..Len(l) : mark(l, i, b)[j] = IF j = i THEN e ELSE l[j]
  BY <1>2, <1>4, SeqExcept
<1>6. e.size = l[i].size
  BY DEF e
<1>7. SameSizes(mark(l, i, b), l)
  BY <1>5, <1>6 DEF SameSizes
<1> QED
  BY <1>5, <1>7 DEF e

(* Handing out a free block (malloc_2.cpp:41-43) keeps the counters exact. *)
LEMMA ReuseGood ==
    ASSUME NEW H, HeapGood(H), NEW i \in FreeOf(H)
    PROVE  /\ HeapGood(reuse(H, i))
           /\ Len(reuse(H, i).list) = Len(H.list)
           /\ FreeOf(reuse(H, i)) = FreeOf(H) \ {i}
           /\ SameSizes(reuse(H, i).list, H.list)
<1> DEFINE L == mark(H.list, i, FALSE)
           R == reuse(H, i)
<1>1. H \in HeapType /\ H.list \in Seq(Block) /\ i \in 1..Len(H.list)
  BY DEF HeapGood, HeapType, FreeOf
<1>2. /\ L \in Seq(Block) /\ Len(L) = Len(H.list)
      /\ L[i] = [size |-> H.list[i].size, is_free |-> FALSE]
      /\ \A j \in 1..Len(H.list) : j # i => L[j].is_free = H.list[j].is_free
      /\ SameSizes(L, H.list)
  BY Zenon, <1>1, MarkFacts
<1>4. Cardinality(FreeOf(H)) - 1 = Cardinality(FreeOf(H) \ {i})
      /\ Cardinality(FreeOf(H) \ {i}) \in Nat
  BY <1>1, FreeFinite, FS_RemoveElement, FS_CardinalityType
<1>5. H.free_bytes \in Int /\ H.list[i].size \in Nat
  <2>1. H.list[i] \in Block
    BY <1>1, SeqItem
  <2> QED BY <1>1, <2>1 DEF HeapType, Block
<1>6. /\ R.list = L /\ R.free_blocks = H.free_blocks - 1
      /\ R.allocated_blocks = H.allocated_blocks
      /\ R.meta_data_bytes = H.meta_data_bytes
      /\ R.free_bytes = H.free_bytes - H.list[i].size
      /\ R.allocated_bytes = H.allocated_bytes
  BY DEF reuse
<1>7. FreeOf(R) = FreeOf(H) \ {i}
  <2> HIDE DEF L, R
  <2> QED BY <1>1, <1>2, <1>6 DEF FreeOf
<1>8. H.free_blocks - 1 \in Nat
  BY <1>4 DEF HeapGood
<1>9. R \in HeapType
  <2>1. R = [list |-> L, free_blocks |-> H.free_blocks - 1,
             free_bytes |-> H.free_bytes - H.list[i].size,
             allocated_blocks |-> H.allocated_blocks,
             allocated_bytes |-> H.allocated_bytes,
             meta_data_bytes |-> H.meta_data_bytes]
    BY DEF reuse
  <2> HIDE DEF L, R
  <2> QED BY <1>1, <1>2, <1>5, <1>8, <2>1 DEF HeapType
<1>10. BytesGood(R)
  <2> DEFINE F == FreeOf(H) \ {i}
             l == H.list
  <2>0. l \in Seq(Block) /\ SameSizes(l, L) /\ SameSizes(L, l) /\ SameSizes(l, l)
    <3> HIDE DEF L
    <3> QED BY <1>1, <1>2 DEF SameSizes
  <2>1. FreeOf(H) = F \cup {i} /\ i \notin F /\ i \in 1..Len(l) /\ l[i].size \in Nat
    BY <1>1, <1>5
  <2> HIDE DEF F, L, R, l
  <2>2. bytesOf(l, F) \in Int /\ bytesOf(l, FreeOf(H)) = bytesOf(l, F) + l[i].size
    BY <2>0, <2>1, BytesAdd
  <2>3. bytesOf(L, F) = bytesOf(l, F) /\ bytesOf(L, 1..Len(l)) = bytesOf(l, 1..Len(l))
    BY <1>2, <2>0, BytesSame
  <2>4. H.free_bytes = bytesOf(l, FreeOf(H)) /\ H.allocated_bytes = bytesOf(l, 1..Len(l))
    BY DEF HeapGood, BytesGood, l
  <2>5. /\ R.list = L /\ FreeOf(R) = F /\ Len(L) = Len(l)
        /\ R.free_bytes = H.free_bytes - l[i].size /\ R.allocated_bytes = H.allocated_bytes
    BY <1>2, <1>6, <1>7 DEF F, l
  <2>6. H.free_bytes - l[i].size = bytesOf(l, F)
    BY <2>1, <2>2, <2>4
  <2> QED BY <2>3, <2>4, <2>5, <2>6 DEF BytesGood
<1> QED
  <2> HIDE DEF L, R
  <2>1. HeapGood(R) /\ Len(R.list) = Len(H.list)
    BY Zenon, <1>2, <1>4, <1>6, <1>7, <1>9, <1>10 DEF HeapGood
  <2>2. SameSizes(R.list, H.list)
    BY Zenon, <1>2, <1>6
  <2> QED BY Zenon, <1>7, <2>1, <2>2 DEF R

(* A block from sbrk (malloc_2.cpp:56-64) keeps the counters exact. *)
LEMMA ExtendGood ==
    ASSUME NEW H, HeapGood(H), NEW size \in Nat
    PROVE  /\ HeapGood(extend(H, size))
           /\ Len(extend(H, size).list) = Len(H.list) + 1
           /\ FreeOf(extend(H, size)) = FreeOf(H)
           /\ extend(H, size).list[Len(H.list) + 1].size = size
           /\ \A j \in 1..Len(H.list) : extend(H, size).list[j] = H.list[j]
<1> DEFINE b == [size |-> size, is_free |-> FALSE]
           L == Append(H.list, b)
           R == extend(H, size)
<1>1. H \in HeapType /\ H.list \in Seq(Block) /\ b \in Block
  BY DEF HeapGood, HeapType, Block
<1>2. ~b.is_free
  OBVIOUS
<1>3. /\ L \in Seq(Block) /\ Len(L) = Len(H.list) + 1
      /\ L[Len(H.list) + 1] = b
      /\ \A j \in 1..Len(H.list) : L[j] = H.list[j]
  <2> HIDE DEF b
  <2> QED BY <1>1, SeqAppend
<1>4. /\ R.list = L /\ R.free_blocks = H.free_blocks
      /\ R.allocated_blocks = H.allocated_blocks + 1
      /\ R.meta_data_bytes = H.meta_data_bytes + MetaSize
      /\ R.free_bytes = H.free_bytes /\ R.allocated_bytes = H.allocated_bytes + size
  BY DEF extend
<1>5. H.allocated_bytes \in Nat /\ H.free_blocks \in Nat /\ H.free_bytes \in Int
      /\ H.allocated_blocks \in Nat /\ H.meta_data_bytes \in Nat
  BY <1>1 DEF HeapType
<1>6. MetaSize * (Len(H.list) + 1) = MetaSize * Len(H.list) + MetaSize
  BY <1>1
<1>7. FreeOf(R) = FreeOf(H)
  <2> HIDE DEF L, R, b
  <2>1. \A j \in 1..Len(L) : L[j].is_free <=> j \in 1..Len(H.list) /\ H.list[j].is_free
    BY <1>1, <1>2, <1>3
  <2> QED BY <1>1, <1>3, <1>4, <2>1 DEF FreeOf
<1>8. R \in HeapType
  <2>1. R = [list |-> L, allocated_blocks |-> H.allocated_blocks + 1,
             allocated_bytes |-> H.allocated_bytes + size, free_blocks |-> H.free_blocks,
             free_bytes |-> H.free_bytes, meta_data_bytes |-> H.meta_data_bytes + MetaSize]
    BY <1>1 DEF extend, HeapType
  <2>2. /\ H.allocated_blocks + 1 \in Nat /\ H.allocated_bytes + size \in Nat
        /\ H.meta_data_bytes + MetaSize \in Nat
    BY <1>5
  <2> HIDE DEF L, R
  <2> QED BY <1>3, <1>5, <2>1, <2>2 DEF HeapType
<1>9. BytesGood(R)
  <2> DEFINE n == Len(H.list)
             l == H.list
             D == 1..(n + 1)
             F == FreeOf(H)
  <2>0. b.size = size
    OBVIOUS
  <2>1. l \in Seq(Block) /\ SameSizes(l, l) /\ n \in Nat /\ n + 1 \in D /\ n + 1 \notin F
    BY <1>1 DEF SameSizes, FreeOf
  <2>2. D = (1..n) \cup {n + 1}
    BY <2>1
  <2>3. H.free_bytes = bytesOf(l, F) /\ H.allocated_bytes = bytesOf(l, 1..n)
    BY DEF HeapGood, BytesGood
  <2> HIDE DEF L, R, b, F, D
  <2>4. /\ bytesOf(L, F) = bytesOf(l, F) + (IF n + 1 \in F THEN b.size ELSE 0)
        /\ bytesOf(L, D) = bytesOf(l, D) + (IF n + 1 \in D THEN b.size ELSE 0)
    BY <1>1, <1>3, BytesAppend
  <2>5. bytesOf(l, D) = bytesOf(l, 1..n) /\ bytesOf(l, F) \in Int
    <3>1. bytesOf(l, F) \in Int
      BY Zenon, <2>1, BytesSame
    <3>0. n + 1 \notin 1..Len(l)
      BY <2>1 DEF l
    <3>2. bytesOf(l, D) = bytesOf(l, 1..n)
      BY Zenon, <2>1, <2>2, <3>0, BytesWithin
    <3> QED BY <3>1, <3>2
  <2>6. bytesOf(L, F) = H.free_bytes /\ bytesOf(L, D) = H.allocated_bytes + size
    BY <2>0, <2>1, <2>3, <2>4, <2>5
  <2>7. R.list = L /\ FreeOf(R) = F /\ 1..Len(L) = D
    BY <1>3, <1>4, <1>7 DEF F, D
  <2> QED BY <1>4, <2>6, <2>7 DEF BytesGood
<1> QED
  <2> HIDE DEF L, R
  <2>1. HeapGood(R) /\ Len(R.list) = Len(H.list) + 1
    BY Zenon, <1>3, <1>4, <1>6, <1>7, <1>8, <1>9 DEF HeapGood
  <2>2. b.size = size
    OBVIOUS
  <2> HIDE DEF b
  <2>3. /\ R.list[Len(H.list) + 1].size = size
        /\ \A j \in 1..Len(H.list) : R.list[j] = H.list[j]
    BY Zenon, <1>3, <1>4, <2>2
  <2> QED BY Zenon, <1>7, <2>1, <2>3 DEF R

(* sfree (malloc_2.cpp:157-173), of a free block or of NULL too, keeps the *)
(* counters exact.                                                         *)
LEMMA SfreeGood ==
    ASSUME NEW H, HeapGood(H), NEW p \in 0..Len(H.list)
    PROVE  /\ HeapGood(sfree(H, p))
           /\ Len(sfree(H, p).list) = Len(H.list)
           /\ FreeOf(sfree(H, p)) = FreeOf(H) \cup ({p} \ {NULL})
           /\ SameSizes(sfree(H, p).list, H.list)
<1>0. H \in HeapType /\ H.list \in Seq(Block) /\ Len(H.list) \in Nat
  BY DEF HeapGood, HeapType
<1>1. CASE p = NULL \/ p \in FreeOf(H)
  <2>1. sfree(H, p) = H
    BY Zenon, <1>1 DEF sfree, FreeOf
  <2>2. SameSizes(H.list, H.list)
    BY DEF SameSizes
  <2>3. FreeOf(H) = FreeOf(H) \cup ({p} \ {NULL})
    BY <1>1
  <2> QED BY Zenon, <2>1, <2>2, <2>3
<1>2. CASE p # NULL /\ p \notin FreeOf(H)
  <2> DEFINE L == mark(H.list, p, TRUE)
             R == sfree(H, p)
  <2>1. p \in 1..Len(H.list) /\ ~H.list[p].is_free
    BY <1>0, <1>2 DEF FreeOf, NULL
  <2>2. /\ L \in Seq(Block) /\ Len(L) = Len(H.list)
        /\ L[p] = [size |-> H.list[p].size, is_free |-> TRUE]
        /\ \A j \in 1..Len(H.list) : j # p => L[j].is_free = H.list[j].is_free
        /\ SameSizes(L, H.list)
    BY Zenon, <1>0, <2>1, MarkFacts
  <2>3. /\ Cardinality(FreeOf(H)) + 1 = Cardinality(FreeOf(H) \cup {p})
        /\ Cardinality(FreeOf(H)) \in Nat
    BY Zenon, <1>0, <1>2, FreeFinite, FS_AddElement, FS_CardinalityType
  <2>4. H.free_bytes \in Int /\ H.list[p].size \in Nat
    <3>1. H.list[p] \in Block
      BY <1>0, <2>1, SeqItem
    <3> QED BY <1>0, <3>1 DEF HeapType, Block
  <2>5. R = [list |-> L, free_blocks |-> H.free_blocks + 1,
             free_bytes |-> H.free_bytes + H.list[p].size,
             allocated_blocks |-> H.allocated_blocks,
             allocated_bytes |-> H.allocated_bytes,
             meta_data_bytes |-> H.meta_data_bytes]
    BY <1>2, <2>1 DEF sfree
  <2>6. /\ R.list = L /\ R.free_blocks = H.free_blocks + 1
        /\ R.allocated_blocks = H.allocated_blocks
        /\ R.meta_data_bytes = H.meta_data_bytes
        /\ R.free_bytes = H.free_bytes + H.list[p].size
        /\ R.allocated_bytes = H.allocated_bytes
    <3> HIDE DEF L, R
    <3> QED BY <2>5
  <2>7. FreeOf(R) = FreeOf(H) \cup {p}
    <3> HIDE DEF L, R
    <3> QED BY <1>0, <2>1, <2>2, <2>6 DEF FreeOf
  <2>8. H.free_blocks + 1 \in Nat
    BY <2>3 DEF HeapGood
  <2>9. R \in HeapType
    <3> HIDE DEF L, R
    <3> QED BY <1>0, <2>2, <2>4, <2>5, <2>8 DEF HeapType
  <2> HIDE DEF L, R
  <2>10. BytesGood(R)
    <3> DEFINE l == H.list
               F == FreeOf(H)
    <3>1. l \in Seq(Block) /\ p \in 1..Len(l) /\ p \notin F /\ SameSizes(L, l)
      BY <1>0, <1>2, <2>1, <2>2
    <3>2. H.free_bytes = bytesOf(l, F) /\ H.allocated_bytes = bytesOf(l, 1..Len(l))
      BY DEF HeapGood, BytesGood
    <3> HIDE DEF l, F
    <3>3. bytesOf(L, F \cup {p}) = bytesOf(l, F) + l[p].size
      BY Zenon, <2>2, <3>1, BytesAdd
    <3>4. bytesOf(L, 1..Len(l)) = bytesOf(l, 1..Len(l))
      BY <2>2, <3>1, BytesSame
    <3>5. /\ R.list = L /\ FreeOf(R) = F \cup {p} /\ Len(L) = Len(l)
          /\ R.free_bytes = H.free_bytes + l[p].size /\ R.allocated_bytes = H.allocated_bytes
      BY <2>2, <2>6, <2>7 DEF l, F
    <3> QED BY <3>2, <3>3, <3>4, <3>5 DEF BytesGood
  <2>11. HeapGood(R) /\ Len(R.list) = Len(H.list)
    BY Zenon, <2>2, <2>3, <2>6, <2>7, <2>9, <2>10 DEF HeapGood
  <2>12. SameSizes(R.list, H.list)
    BY Zenon, <2>2, <2>6
  <2>13. FreeOf(R) = FreeOf(H) \cup ({p} \ {NULL})
    BY <1>2, <2>7
  <2> QED BY Zenon, <2>11, <2>12, <2>13 DEF R
<1> QED BY <1>1, <1>2

-----------------------------------------------------------------------------
(* The bytes of a block. *)
Bytes == Seq(Token)

(* A function on 1..n is a sequence of length n. *)
LEMMA FunctionSeq ==
    ASSUME NEW S, NEW n \in Nat, NEW f \in [1..n -> S]
    PROVE  f \in Seq(S) /\ Len(f) = n
BY SeqFunctions

(* n bytes with the same token. *)
LEMMA SameFacts ==
    ASSUME NEW n \in Nat, NEW token \in Token
    PROVE  /\ same(n, token) \in Bytes /\ Len(same(n, token)) = n
           /\ \A i \in 1..n : same(n, token)[i] = token
<1>1. same(n, token) \in [1..n -> Token]
  BY DEF same
<1>2. \A i \in 1..n : same(n, token)[i] = token
  BY DEF same
<1> QED BY Zenon, <1>1, <1>2, FunctionSeq DEF Bytes

(* Bytes cut or extended to n. *)
LEMMA ResizedFacts ==
    ASSUME NEW s \in Bytes, NEW n \in Nat
    PROVE  /\ resized(s, n) \in Bytes /\ Len(resized(s, n)) = n
           /\ \A i \in 1..n : resized(s, n)[i] = IF i <= Len(s) THEN s[i] ELSE Junk
<1>0. Len(s) \in Nat /\ \A i \in 1..Len(s) : s[i] \in Token
  BY SeqItem, SeqLen DEF Bytes
<1>1. resized(s, n) \in [1..n -> Token]
  <2>1. ASSUME NEW i \in 1..n PROVE (IF i <= Len(s) THEN s[i] ELSE Junk) \in Token
    BY <1>0 DEF Token
  <2> QED BY <2>1 DEF resized
<1>2. \A i \in 1..n : resized(s, n)[i] = IF i <= Len(s) THEN s[i] ELSE Junk
  BY DEF resized
<1> QED BY Zenon, <1>1, <1>2, FunctionSeq DEF Bytes

(* Bytes of which the first n are overwritten. *)
LEMMA OverwrittenFacts ==
    ASSUME NEW c \in Bytes, NEW n \in Nat, NEW d \in Bytes, Len(d) = n
    PROVE  /\ overwritten(c, n, d) \in Bytes /\ Len(overwritten(c, n, d)) = Len(c)
           /\ \A i \in 1..Len(c) : overwritten(c, n, d)[i] = IF i <= n THEN d[i] ELSE c[i]
<1>0. /\ Len(c) \in Nat /\ \A i \in 1..Len(c) : c[i] \in Token
      /\ \A i \in 1..n : d[i] \in Token
  BY SeqItem, SeqLen DEF Bytes
<1>1. overwritten(c, n, d) \in [1..Len(c) -> Token]
  <2>1. ASSUME NEW i \in 1..Len(c) PROVE (IF i <= n THEN d[i] ELSE c[i]) \in Token
    BY <1>0
  <2> QED BY <2>1 DEF overwritten
<1>2. \A i \in 1..Len(c) : overwritten(c, n, d)[i] = IF i <= n THEN d[i] ELSE c[i]
  BY DEF overwritten
<1> QED BY Zenon, <1>0, <1>1, <1>2, FunctionSeq DEF Bytes

(* Whoever relies on nothing needs only the room. *)
LEMMA JunkHeld ==
    ASSUME NEW c \in Bytes, NEW n \in Nat, n <= Len(c)
    PROVE  Holds(c, same(n, Junk)) /\ same(n, Junk) \in Bytes
<1>1. Junk \in Token
  BY DEF Token
<1> QED BY <1>1, SameFacts DEF Holds

(* memset, and the caller who fills its bytes. *)
LEMMA FilledHeld ==
    ASSUME NEW c \in Bytes, NEW n \in Nat, n <= Len(c), NEW token \in Token
    PROVE  /\ Holds(overwritten(c, n, same(n, token)), same(n, token))
           /\ overwritten(c, n, same(n, token)) \in Bytes
           /\ Len(overwritten(c, n, same(n, token))) = Len(c)
           /\ same(n, token) \in Bytes
<1> DEFINE d == same(n, token)
           e == overwritten(c, n, d)
<1>1. d \in Bytes /\ Len(d) = n
  BY SameFacts
<1>2. Len(c) \in Nat
  BY SeqLen DEF Bytes
<1> HIDE DEF d
<1>3. /\ e \in Bytes /\ Len(e) = Len(c)
      /\ \A i \in 1..Len(c) : e[i] = IF i <= n THEN d[i] ELSE c[i]
  BY <1>1, OverwrittenFacts
<1> HIDE DEF e
<1>4. Holds(e, d)
  BY <1>1, <1>2, <1>3 DEF Holds
<1> QED BY Zenon, <1>1, <1>3, <1>4 DEF d, e

(* srealloc in place: what is asked for changes, the block does not. *)
LEMMA ShrunkHeld ==
    ASSUME NEW c \in Bytes, NEW s \in Bytes, Holds(c, s), NEW n \in Nat, n <= Len(c)
    PROVE  Holds(c, resized(s, n)) /\ resized(s, n) \in Bytes
<1>1. /\ resized(s, n) \in Bytes /\ Len(resized(s, n)) = n
      /\ \A i \in 1..n : resized(s, n)[i] = IF i <= Len(s) THEN s[i] ELSE Junk
  BY Zenon, ResizedFacts
<1>2. Len(s) \in Nat
  BY SeqLen DEF Bytes
<1> QED BY <1>1, <1>2 DEF Holds

(* The copy of srealloc: the first n bytes of the old block o, and what it *)
(* reads behind them, arrive in c.                                         *)
LEMMA CopiedHeld ==
    ASSUME NEW o \in Bytes, NEW s \in Bytes, Holds(o, s),
           NEW c \in Bytes, NEW n \in Nat, n <= Len(c)
    PROVE  /\ Holds(overwritten(c, n, resized(o, n)), resized(s, n))
           /\ overwritten(c, n, resized(o, n)) \in Bytes
           /\ Len(overwritten(c, n, resized(o, n))) = Len(c)
           /\ resized(s, n) \in Bytes
<1> DEFINE d == resized(o, n)
           k == resized(s, n)
           e == overwritten(c, n, d)
<1>1. /\ d \in Bytes /\ Len(d) = n
      /\ \A i \in 1..n : d[i] = IF i <= Len(o) THEN o[i] ELSE Junk
  BY Zenon, ResizedFacts
<1>2. /\ k \in Bytes /\ Len(k) = n
      /\ \A i \in 1..n : k[i] = IF i <= Len(s) THEN s[i] ELSE Junk
  BY Zenon, ResizedFacts
<1>3. Len(c) \in Nat /\ Len(s) \in Nat /\ Len(o) \in Nat
  BY SeqLen DEF Bytes
<1> HIDE DEF d, k
<1>4. /\ e \in Bytes /\ Len(e) = Len(c)
      /\ \A i \in 1..Len(c) : e[i] = IF i <= n THEN d[i] ELSE c[i]
  BY <1>1, OverwrittenFacts
<1> HIDE DEF e
<1>5. Holds(e, k)
  <2> SUFFICES ASSUME NEW i \in 1..n, k[i] # Junk PROVE e[i] = k[i]
    BY <1>2, <1>4 DEF Holds
  <2>1. i <= Len(s) /\ k[i] = s[i] /\ i \in 1..Len(s)
    BY <1>2, <1>3
  <2>2. o[i] = s[i] /\ i <= Len(o)
    BY <1>3, <2>1 DEF Holds
  <2>3. e[i] = d[i] /\ d[i] = o[i]
    BY <1>1, <1>3, <1>4, <2>2
  <2> QED BY <2>1, <2>2, <2>3
<1> QED BY Zenon, <1>2, <1>4, <1>5 DEF d, k, e

-----------------------------------------------------------------------------
(* The invariant: each of its parts needs the others. *)
HeapInv == HeapTypeOK /\ CountersExact /\ BytesExact /\ OneOwner /\ ContentsKept

(* The memory has the bytes of every block of H. *)
Backed(m, H) ==
    /\ m \in Seq(Bytes) /\ Len(m) = Len(H.list)
    /\ \A i \in 1..Len(H.list) : Len(m[i]) = H.list[i].size

(* OneOwner and ContentsKept for explicit values of the state. *)
Owned(n, F, f) ==
    /\ \A i \in 1..n : i \notin F <=> \E h \in Handles : f[h] = i
    /\ \A g, h \in Handles : f[g] = f[h] /\ g # h => f[g] = NULL

Kept(m, f, t) == \A h \in Handles : f[h] # NULL => Holds(m[f[h]], t[h])

(* HeapInv in terms of the value of the heap. *)
LEMMA InvUnfolded ==
    ASSUME HeapInv
    PROVE  /\ HeapGood(heap) /\ Backed(mem, heap) /\ Len(mem) = Len(heap.list)
           /\ ptr \in [Handles -> 0..Len(heap.list)]
           /\ stored \in [Handles -> Bytes]
           /\ Owned(Len(heap.list), FreeOf(heap), ptr)
           /\ Kept(mem, ptr, stored)
<1>1. heap \in HeapType /\ Len(heap.list) \in Nat
  BY DEF HeapInv, HeapTypeOK, HeapType
<1>2. Blocks \cup {NULL} = 0..Len(heap.list)
  BY <1>1 DEF Blocks, NULL
<1>3. Owned(Len(heap.list), FreeOf(heap), ptr)
  BY <1>1 DEF HeapInv, OneOwner, Owned, FreeOf, Blocks
<1>4. BytesGood(heap)
  BY Zenon DEF HeapInv, BytesExact, BytesGood, FreeBlocks, FreeOf, Blocks
<1>5. HeapGood(heap)
  BY Zenon, <1>1, <1>4 DEF HeapInv, CountersExact, HeapGood, FreeBlocks, FreeOf, Blocks
<1>6. Backed(mem, heap)
  BY Zenon DEF HeapInv, HeapTypeOK, Backed, Bytes, Blocks
<1>7. ptr \in [Handles -> 0..Len(heap.list)] /\ stored \in [Handles -> Bytes]
  BY Zenon, <1>2 DEF HeapInv, HeapTypeOK, Bytes
<1>8. Kept(mem, ptr, stored)
  BY Zenon DEF HeapInv, ContentsKept, Kept
<1> QED BY Zenon, <1>3, <1>5, <1>6, <1>7, <1>8 DEF Backed

(* And back. *)
LEMMA InvFolded ==
    ASSUME HeapGood(heap), Backed(mem, heap),
           ptr \in [Handles -> 0..Len(heap.list)], stored \in [Handles -> Bytes],
           Owned(Len(heap.list), FreeOf(heap), ptr), Kept(mem, ptr, stored)
    PROVE  HeapInv
<1>1. heap \in HeapType /\ Len(heap.list) \in Nat
  BY DEF HeapGood, HeapType
<1>2. Blocks \cup {NULL} = 0..Len(heap.list)
  BY <1>1 DEF Blocks, NULL
<1>3. OneOwner
  BY <1>1 DEF OneOwner, Owned, FreeOf, Blocks
<1>4. HeapTypeOK
  BY Zenon, <1>1, <1>2 DEF HeapTypeOK, Backed, Bytes, Blocks
<1>5. CountersExact
  BY Zenon DEF CountersExact, HeapGood, FreeBlocks, FreeOf, Blocks
<1>6. ContentsKept
  BY Zenon DEF ContentsKept, Kept
<1>7. BytesExact
  BY Zenon DEF BytesExact, BytesGood, HeapGood, FreeBlocks, FreeOf, Blocks
<1> QED
  BY <1>3, <1>4, <1>5, <1>6, <1>7 DEF HeapInv

(* The same after a step. *)
LEMMA InvFoldedPrime ==
    ASSUME HeapGood(heap'), Backed(mem', heap'),
           ptr' \in [Handles -> 0..Len(heap'.list)], stored' \in [Handles -> Bytes],
           Owned(Len(heap'.list), FreeOf(heap'), ptr'), Kept(mem', ptr', stored')
    PROVE  HeapInv'
<1>1. heap' \in HeapType /\ Len(heap'.list) \in Nat
  BY DEF HeapGood, HeapType
<1>2. Blocks' \cup {NULL} = 0..Len(heap'.list)
  BY <1>1 DEF Blocks, NULL
<1>3. OneOwner'
  BY <1>1 DEF OneOwner, Owned, FreeOf, Blocks
<1>4. HeapTypeOK'
  BY Zenon, <1>1, <1>2 DEF HeapTypeOK, Backed, Bytes, Blocks
<1>5. CountersExact'
  BY Zenon DEF CountersExact, HeapGood, FreeBlocks, FreeOf, Blocks
<1>6. ContentsKept'
  BY Zenon DEF ContentsKept, Kept
<1>7. BytesExact'
  BY Zenon DEF BytesExact, BytesGood, HeapGood, FreeBlocks, FreeOf, Blocks
<1> QED
  BY <1>3, <1>4, <1>5, <1>6, <1>7 DEF HeapInv

(* H2 is H after an allocation of `size' bytes has handed out block p. *)
Handed(H, H2, p, size) ==
    /\ HeapGood(H2) /\ FreeOf(H2) = FreeOf(H) \ {p}
    /\ \A j \in 1..Len(H.list) : H2.list[j].size = H.list[j].size
    /\ H2.list[p].size >= size
    /\ \/ /\ p \in FreeOf(H) /\ p \in 1..Len(H.list)
          /\ Len(H2.list) = Len(H.list)
       \/ /\ p = Len(H.list) + 1 /\ H2.list[p].size = size
          /\ Len(H2.list) = Len(H.list) + 1

(* What an allocation can do, whatever the list looks like. *)
LEMMA AllocationFacts ==
    ASSUME HeapGood(heap), NEW size \in Nat, NEW r \in Allocation(size)
    PROVE  \/ r.p = NULL /\ r.heap = heap
           \/ Handed(heap, r.heap, r.p, size)
<1> DEFINE i == firstFit(heap, size)
<1>0. heap \in HeapType /\ Len(heap.list) \in Nat
  BY DEF HeapGood, HeapType
<1>1. CASE i # NULL
  <2>1. r = [heap |-> reuse(heap, i), p |-> i]
    BY <1>1 DEF Allocation
  <2>2. i \in FreeOf(heap) /\ i \in 1..Len(heap.list) /\ heap.list[i].size >= size
    BY <1>0, <1>1, FirstFitFacts DEF FreeOf
  <2> HIDE DEF i
  <2>3. r.p = i /\ r.heap = reuse(heap, i)
    BY <2>1
  <2>4. /\ HeapGood(r.heap) /\ Len(r.heap.list) = Len(heap.list)
        /\ FreeOf(r.heap) = FreeOf(heap) \ {r.p}
        /\ SameSizes(r.heap.list, heap.list)
    <3>1. /\ HeapGood(reuse(heap, i)) /\ Len(reuse(heap, i).list) = Len(heap.list)
          /\ FreeOf(reuse(heap, i)) = FreeOf(heap) \ {i}
          /\ SameSizes(reuse(heap, i).list, heap.list)
      BY Zenon, <2>2, ReuseGood
    <3> QED BY Zenon, <2>3, <3>1
  <2>5. \A j \in 1..Len(heap.list) : r.heap.list[j].size = heap.list[j].size
    BY Zenon, <2>4 DEF SameSizes
  <2> QED
    BY Zenon, <2>2, <2>3, <2>4, <2>5 DEF Handed
<1>2. CASE i = NULL /\ r = [heap |-> heap, p |-> NULL]
  BY <1>2
<1>3. CASE i = NULL /\ r # [heap |-> heap, p |-> NULL]
  <2>1. r = [heap |-> extend(heap, size), p |-> Len(heap.list) + 1]
    BY <1>3 DEF Allocation
  <2>2. r.p = Len(heap.list) + 1 /\ r.heap = extend(heap, size)
    BY <2>1
  <2>3. /\ HeapGood(r.heap) /\ Len(r.heap.list) = Len(heap.list) + 1
        /\ FreeOf(r.heap) = FreeOf(heap) /\ r.heap.list[r.p].size = size
        /\ \A j \in 1..Len(heap.list) : r.heap.list[j] = heap.list[j]
    <3> DEFINE H == extend(heap, size)
    <3>1. /\ HeapGood(H) /\ Len(H.list) = Len(heap.list) + 1
          /\ FreeOf(H) = FreeOf(heap) /\ H.list[Len(heap.list) + 1].size = size
          /\ \A j \in 1..Len(heap.list) : H.list[j] = heap.list[j]
      BY Zenon, ExtendGood
    <3> HIDE DEF H
    <3>2. r.heap = H
      BY <2>2 DEF H
    <3> QED BY Zenon, <2>2, <3>1, <3>2
  <2>4. FreeOf(heap) = FreeOf(heap) \ {r.p} /\ size >= size
    BY <1>0, <2>2 DEF FreeOf
  <2>5. \A j \in 1..Len(heap.list) : r.heap.list[j].size = heap.list[j].size
    BY Zenon, <2>3
  <2> QED
    BY Zenon, <2>2, <2>3, <2>4, <2>5 DEF Handed
<1> QED
  BY <1>1, <1>2, <1>3

(* A failed allocation has left the heap alone (malloc_2.cpp:51-55). *)
LEMMA AllocationFailed ==
    ASSUME HeapGood(heap), NEW size \in Nat, NEW r \in Allocation(size), r.p = NULL
    PROVE  r.heap = heap
<1>1. 0 \notin FreeOf(heap) /\ 0 # Len(heap.list) + 1
  BY DEF HeapGood, HeapType, FreeOf
<1>2. ~Handed(heap, r.heap, r.p, size)
  BY Zenon, <1>1 DEF Handed, NULL
<1> QED BY Zenon, <1>2, AllocationFacts

(* The bytes that an allocation finds in its block. *)
LEMMA FoundFacts ==
    ASSUME HeapGood(heap), Backed(mem, heap), NEW size \in Nat,
           NEW r \in Allocation(size), r.p # NULL
    PROVE  /\ found(r.p, size) \in Bytes
           /\ Len(found(r.p, size)) = r.heap.list[r.p].size
           /\ size <= Len(found(r.p, size))
<1> DEFINE p == r.p
           H == r.heap
           n == Len(heap.list)
<1>1. Handed(heap, H, p, size)
  BY Zenon, AllocationFacts
<1>2. /\ n \in Nat /\ mem \in Seq(Bytes) /\ Len(mem) = n /\ DOMAIN mem = 1..n
      /\ \A i \in 1..n : Len(mem[i]) = heap.list[i].size
  BY SeqLen DEF Backed, HeapGood, HeapType
<1>3. H.list[p].size \in Nat /\ H.list[p].size >= size
  <2>1. /\ Len(H.list) \in Nat /\ H.list \in Seq(Block)
        /\ Len(H.list) = n \/ Len(H.list) = n + 1
        /\ p \in 1..n \/ (p = n + 1 /\ Len(H.list) = n + 1)
    BY <1>1 DEF Handed, HeapGood, HeapType
  <2>2. p \in 1..Len(H.list)
    BY <1>2, <2>1
  <2>3. H.list[p] \in Block
    BY Zenon, <2>1, <2>2, SeqItem
  <2> QED BY <1>1, <2>3 DEF Handed, Block
<1>4. CASE p \in 1..n
  <2>1. found(p, size) = mem[p] /\ mem[p] \in Bytes
    BY <1>2, <1>4, SeqItem DEF found
  <2>2. Len(mem[p]) = H.list[p].size
    BY Zenon, <1>1, <1>2, <1>4 DEF Handed
  <2> HIDE DEF p, H
  <2> QED BY <1>3, <2>1, <2>2 DEF p, H
<1>5. CASE p = n + 1 /\ H.list[p].size = size
  <2>1. found(p, size) = same(size, Junk) /\ Junk \in Token
    BY <1>2, <1>5 DEF found, Token
  <2>2. same(size, Junk) \in Bytes /\ Len(same(size, Junk)) = size
    BY Zenon, <2>1, SameFacts
  <2> HIDE DEF p, H
  <2> QED BY <1>3, <1>5, <2>1, <2>2 DEF p, H
<1> QED BY Zenon, <1>1, <1>4, <1>5 DEF Handed

(* M is the memory after c is put into a block p that may be new. *)
HasPut(M, p, c) ==
    /\ M \in Seq(Bytes)
    /\ Len(M) = IF p = Len(mem) + 1 THEN Len(mem) + 1 ELSE Len(mem)
    /\ M[p] = c
    /\ \A j \in 1..Len(mem) : j # p => M[j] = mem[j]

(* What put does to the memory. *)
LEMMA PutFacts ==
    ASSUME mem \in Seq(Bytes), NEW c \in Bytes,
           NEW p \in 1..(Len(mem) + 1)
    PROVE  HasPut(put(p, c), p, c)
<1>1. DOMAIN mem = 1..Len(mem) /\ Len(mem) \in Nat
  BY SeqLen
<1>2. CASE p = Len(mem) + 1
  <2>0. p \notin DOMAIN mem
    BY <1>1, <1>2
  <2>1. put(p, c) = Append(mem, c)
    BY <2>0 DEF put
  <2> QED
    BY <1>1, <1>2, <2>1, SeqAppend DEF HasPut
<1>3. CASE p \in 1..Len(mem)
  <2>1. put(p, c) = [mem EXCEPT ![p] = c]
    BY <1>1, <1>3 DEF put
  <2>2. p # Len(mem) + 1
    BY <1>1, <1>3
  <2> QED
    BY <1>1, <1>3, <2>1, <2>2, SeqExcept DEF HasPut
<1> QED
  BY <1>1, <1>2, <1>3

(* Handle h gets a block p that nobody holds, with `token' in it, and what *)
(* it held before, if anything, is freed: the block still has one owner.   *)
LEMMA TakeOwned ==
    ASSUME NEW n \in Nat, NEW m \in {n, n + 1}, NEW p \in 1..m, NEW h \in Handles,
           p <= n \/ m = n + 1, m = n \/ p = n + 1,
           NEW f \in [Handles -> 0..n], NEW F, Owned(n, F, f),
           \A g \in Handles : f[g] # p
    PROVE  Owned(m, (F \ {p}) \cup ({f[h]} \ {NULL}), [f EXCEPT ![h] = p])
<1> DEFINE e == [f EXCEPT ![h] = p]
           E == (F \ {p}) \cup ({f[h]} \ {NULL})
<1>0. e[h] = p /\ \A g \in Handles \ {h} : e[g] = f[g]
  OBVIOUS
<1>1. E = (F \ {p}) \cup ({f[h]} \ {NULL})
  OBVIOUS
<1> HIDE DEF e, E
<1>2. ASSUME NEW i \in 1..m PROVE i \notin E <=> \E g \in Handles : e[g] = i
  <2>1. CASE i = p
    BY <1>0, <1>1, <2>1
  <2>2. CASE i # p
    <3>1. i \in 1..n /\ i # NULL
      BY <2>2 DEF NULL
    <3>2. i \notin F <=> \E g \in Handles : f[g] = i
      BY <3>1 DEF Owned
    <3>3. CASE i = f[h]
      <4>1. \A g \in Handles : e[g] # i
        BY <1>0, <2>2, <3>1, <3>3 DEF Owned
      <4> QED BY <1>1, <3>1, <3>3, <4>1
    <3>4. CASE i # f[h]
      <4>1. (\E g \in Handles : e[g] = i) <=> (\E g \in Handles : f[g] = i)
        BY <1>0, <2>2, <3>4
      <4> QED BY <1>1, <2>2, <3>2, <3>4, <4>1
    <3> QED BY <3>3, <3>4
  <2> QED BY <2>1, <2>2
<1>3. \A g, k \in Handles : e[g] = e[k] /\ g # k => e[g] = NULL
  BY <1>0 DEF Owned
<1> QED BY <1>2, <1>3 DEF Owned, e, E

(* An allocation into h whose old block, if it has one, is freed after the *)
(* allocation keeps the invariant.                                         *)
LEMMA TakeStep ==
    ASSUME HeapInv, NEW h \in Handles, NEW size \in Nat,
           NEW r \in Allocation(size), r.p # NULL, heap' = sfree(r.heap, ptr[h]),
           NEW c \in Bytes, Len(c) = r.heap.list[r.p].size, NEW s \in Bytes, Holds(c, s),
           mem' = put(r.p, c), give(h, r.p, s)
    PROVE  HeapInv'
<1> DEFINE n == Len(heap.list)
<1>1. /\ HeapGood(heap) /\ Backed(mem, heap) /\ Len(mem) = n
      /\ ptr \in [Handles -> 0..n] /\ stored \in [Handles -> Bytes]
      /\ Owned(n, FreeOf(heap), ptr) /\ Kept(mem, ptr, stored)
  BY Zenon, InvUnfolded
<1>2. n \in Nat
  BY <1>1 DEF HeapGood, HeapType
<1>3. /\ HeapGood(r.heap) /\ FreeOf(r.heap) = FreeOf(heap) \ {r.p}
      /\ \/ r.p \in FreeOf(heap) /\ r.p \in 1..n /\ Len(r.heap.list) = n
         \/ r.p = n + 1 /\ Len(r.heap.list) = n + 1
      /\ \A j \in 1..n : r.heap.list[j].size = heap.list[j].size
  <2>1. Handed(heap, r.heap, r.p, size)
    BY Zenon, <1>1, AllocationFacts
  <2> QED BY Zenon, <2>1 DEF Handed
<1> HIDE DEF n
<1>4. \A g \in Handles : ptr[g] # r.p
  <2>1. CASE r.p \in FreeOf(heap) /\ r.p \in 1..n
    BY <1>1, <2>1 DEF Owned
  <2>2. CASE r.p = n + 1
    BY <1>1, <1>2, <2>2
  <2> QED BY <1>3, <2>1, <2>2
<1>5. ptr[h] \in 0..Len(r.heap.list)
  BY <1>1, <1>2, <1>3
<1>6. /\ HeapGood(heap') /\ Len(heap'.list) = Len(r.heap.list)
      /\ FreeOf(heap') = (FreeOf(heap) \ {r.p}) \cup ({ptr[h]} \ {NULL})
      /\ \A j \in 1..Len(r.heap.list) : heap'.list[j].size = r.heap.list[j].size
  <2>1. /\ HeapGood(heap') /\ Len(heap'.list) = Len(r.heap.list)
        /\ FreeOf(heap') = FreeOf(r.heap) \cup ({ptr[h]} \ {NULL})
        /\ SameSizes(heap'.list, r.heap.list)
    BY Zenon, <1>3, <1>5, SfreeGood
  <2> QED BY Zenon, <1>3, <2>1 DEF SameSizes
<1>7. /\ mem' \in Seq(Bytes) /\ mem'[r.p] = c /\ Len(mem') = Len(heap'.list)
      /\ \A j \in 1..n : j # r.p => mem'[j] = mem[j]
  <2>1. r.p \in 1..(Len(mem) + 1) /\ mem \in Seq(Bytes)
    BY <1>1, <1>2, <1>3 DEF Backed
  <2>2. HasPut(mem', r.p, c)
    BY Zenon, <2>1, PutFacts
  <2> QED BY <1>1, <1>2, <1>3, <1>6, <2>2 DEF HasPut
<1>8. ptr' = [ptr EXCEPT ![h] = r.p] /\ stored' = [stored EXCEPT ![h] = s]
  BY DEF give
<1>9. ptr' \in [Handles -> 0..Len(heap'.list)] /\ stored' \in [Handles -> Bytes]
  BY <1>1, <1>2, <1>3, <1>6, <1>8
<1>10. Owned(Len(heap'.list), FreeOf(heap'), ptr')
  <2> DEFINE m == Len(heap'.list)
             F == FreeOf(heap)
  <2>1. /\ m \in {n, n + 1} /\ r.p \in 1..m
        /\ r.p <= n \/ m = n + 1
        /\ m = n \/ r.p = n + 1
    BY <1>2, <1>3, <1>6
  <2>2. Owned(n, F, ptr)
    BY <1>1
  <2> HIDE DEF m, F
  <2>3. Owned(m, (F \ {r.p}) \cup ({ptr[h]} \ {NULL}), [ptr EXCEPT ![h] = r.p])
    BY Zenon, <1>1, <1>2, <1>4, <2>1, <2>2, TakeOwned
  <2> QED BY <1>6, <1>8, <2>3 DEF m, F
<1>11. Kept(mem', ptr', stored')
  <2> SUFFICES ASSUME NEW g \in Handles, ptr'[g] # NULL
               PROVE  Holds(mem'[ptr'[g]], stored'[g])
    BY DEF Kept
  <2>1. CASE g = h
    <3>1. ptr'[g] = r.p /\ stored'[g] = s
      BY <1>1, <1>8, <2>1
    <3> QED BY Zenon, <1>7, <3>1
  <2>2. CASE g # h
    <3>1. ptr'[g] = ptr[g] /\ stored'[g] = stored[g]
      BY <1>1, <1>8, <2>2
    <3>2. Holds(mem[ptr[g]], stored[g])
      BY Zenon, <1>1, <3>1 DEF Kept
    <3>3. ptr[g] \in 1..n
      BY <1>1, <1>2, <3>1 DEF NULL
    <3>4. mem'[ptr[g]] = mem[ptr[g]]
      BY Zenon, <1>4, <1>7, <3>3
    <3> QED BY Zenon, <3>1, <3>2, <3>4
  <2> QED BY <2>1, <2>2
<1>12. Backed(mem', heap')
  <2> SUFFICES ASSUME NEW j \in 1..Len(heap'.list)
               PROVE  Len(mem'[j]) = heap'.list[j].size
    BY <1>7 DEF Backed
  <2>1. heap'.list[j].size = r.heap.list[j].size
    BY Zenon, <1>6
  <2>2. CASE j = r.p
    BY Zenon, <1>7, <2>1, <2>2
  <2>3. CASE j # r.p
    <3>1. j \in 1..n
      BY <1>2, <1>3, <1>6, <2>3
    <3>2. Len(mem[j]) = heap.list[j].size
      BY Zenon, <1>1, <3>1 DEF Backed, n
    <3> QED BY Zenon, <1>3, <1>7, <2>1, <2>3, <3>1, <3>2
  <2> QED BY <2>2, <2>3
<1> QED
  BY Zenon, <1>6, <1>9, <1>10, <1>11, <1>12, InvFoldedPrime

(* An allocation into an empty handle keeps the invariant. *)
LEMMA AllocationStep ==
    ASSUME HeapInv, NEW h \in Handles, ptr[h] = NULL, NEW size \in Nat,
           NEW r \in Allocation(size), r.p # NULL, heap' = r.heap,
           NEW c \in Bytes, Len(c) = r.heap.list[r.p].size, NEW s \in Bytes, Holds(c, s),
           mem' = put(r.p, c), give(h, r.p, s)
    PROVE  HeapInv'
<1>1. heap' = sfree(r.heap, ptr[h])
  BY Zenon DEF sfree
<1> QED BY Zenon, <1>1, TakeStep

(* sfree of the pointer in a handle, which may be NULL, keeps the          *)
(* invariant.                                                              *)
LEMMA FreeStep ==
    ASSUME HeapInv, NEW h \in Handles, sfreeHeld(h)
    PROVE  HeapInv'
<1>1. /\ HeapGood(heap) /\ Backed(mem, heap)
      /\ ptr \in [Handles -> 0..Len(heap.list)] /\ stored \in [Handles -> Bytes]
      /\ Owned(Len(heap.list), FreeOf(heap), ptr) /\ Kept(mem, ptr, stored)
  BY Zenon, InvUnfolded
<1>2. heap' = sfree(heap, ptr[h]) /\ mem' = mem
  BY DEF sfreeHeld
<1>3. ptr' = [ptr EXCEPT ![h] = NULL] /\ stored' = [stored EXCEPT ![h] = << >>]
  BY DEF sfreeHeld, give
<1>4. ptr[h] \in 0..Len(heap.list) /\ Len(heap.list) \in Nat
  BY <1>1 DEF HeapGood, HeapType
<1>5. /\ HeapGood(heap') /\ Len(heap'.list) = Len(heap.list)
      /\ FreeOf(heap') = FreeOf(heap) \cup ({ptr[h]} \ {NULL})
      /\ SameSizes(heap'.list, heap.list)
  BY Zenon, <1>1, <1>2, <1>4, SfreeGood
<1>6. ptr' \in [Handles -> 0..Len(heap'.list)] /\ stored' \in [Handles -> Bytes]
  BY <1>1, <1>3, <1>4, <1>5, SeqEmpty DEF NULL, Bytes
<1>7. Owned(Len(heap'.list), FreeOf(heap'), ptr')
  <2>1. ASSUME NEW i \in 1..Len(heap'.list)
        PROVE  i \notin FreeOf(heap') <=> \E g \in Handles : ptr'[g] = i
    <3>0. i # NULL /\ i \in 1..Len(heap.list)
      BY <1>4, <1>5 DEF NULL
    <3>1. CASE i = ptr[h]
      <4>1. \A g \in Handles : ptr'[g] # i
        BY <1>1, <1>3, <3>0, <3>1 DEF Owned
      <4> QED BY <1>5, <3>0, <3>1, <4>1
    <3>2. CASE i # ptr[h]
      <4>1. (\E g \in Handles : ptr'[g] = i) <=> (\E g \in Handles : ptr[g] = i)
        BY <1>1, <1>3, <3>0, <3>2
      <4>2. i \notin FreeOf(heap) <=> \E g \in Handles : ptr[g] = i
        BY <1>1, <3>0 DEF Owned
      <4> QED BY <1>5, <3>2, <4>1, <4>2
    <3> QED BY <3>1, <3>2
  <2>2. \A f, g \in Handles : ptr'[f] = ptr'[g] /\ f # g => ptr'[f] = NULL
    BY <1>1, <1>3 DEF Owned
  <2> QED BY <2>1, <2>2 DEF Owned
<1>8. Kept(mem', ptr', stored')
  <2> SUFFICES ASSUME NEW g \in Handles, ptr'[g] # NULL
               PROVE  Holds(mem'[ptr'[g]], stored'[g])
    BY DEF Kept
  <2>1. g # h /\ ptr'[g] = ptr[g] /\ stored'[g] = stored[g]
    BY <1>1, <1>3
  <2> QED BY Zenon, <1>1, <1>2, <2>1 DEF Kept
<1>9. Backed(mem', heap')
  BY Zenon, <1>1, <1>2, <1>5 DEF Backed, SameSizes
<1> QED
  BY Zenon, <1>5, <1>6, <1>7, <1>8, <1>9, InvFoldedPrime

(* srealloc without a move (malloc_2.cpp:191-194): only what the caller    *)
(* relies on changes.                                                      *)
LEMMA StayStep ==
    ASSUME HeapInv, NEW h \in Handles, ptr[h] # NULL, NEW s \in Bytes,
           Holds(mem[ptr[h]], s), give(h, ptr[h], s), heap' = heap, mem' = mem
    PROVE  HeapInv'
<1>1. /\ HeapGood(heap) /\ Backed(mem, heap)
      /\ ptr \in [Handles -> 0..Len(heap.list)] /\ stored \in [Handles -> Bytes]
      /\ Owned(Len(heap.list), FreeOf(heap), ptr) /\ Kept(mem, ptr, stored)
  BY Zenon, InvUnfolded
<1>2. ptr' = ptr /\ stored' = [stored EXCEPT ![h] = s]
  BY <1>1 DEF give
<1>3. stored' \in [Handles -> Bytes] /\ stored'[h] = s
      /\ \A g \in Handles : g # h => stored'[g] = stored[g]
  BY <1>1, <1>2
<1>4. Kept(mem', ptr', stored')
  BY Zenon, <1>1, <1>2, <1>3 DEF Kept
<1> QED BY Zenon, <1>1, <1>2, <1>3, <1>4, InvFoldedPrime

(* The move of srealloc (malloc_2.cpp:199-247): the new block is taken, the *)
(* contents copied and the old block freed; the invariant is kept.         *)
LEMMA MoveStep ==
    ASSUME HeapInv, NEW h \in Handles, ptr[h] # NULL, NEW size \in Nat,
           NEW r \in Allocation(size), r.p # NULL,
           heap' = sfree(r.heap, ptr[h]),
           mem' = put(r.p, copied(found(r.p, size), size, ptr[h])),
           give(h, r.p, resized(stored[h], size))
    PROVE  HeapInv'
<1> DEFINE o == mem[ptr[h]]
           s == stored[h]
           c == found(r.p, size)
<1>1. /\ HeapGood(heap) /\ Backed(mem, heap)
      /\ ptr \in [Handles -> 0..Len(heap.list)] /\ stored \in [Handles -> Bytes]
      /\ Kept(mem, ptr, stored)
  BY Zenon, InvUnfolded
<1>2. o \in Bytes /\ s \in Bytes
  <2>1. ptr[h] \in 1..Len(heap.list) /\ mem \in Seq(Bytes) /\ Len(mem) = Len(heap.list)
    BY <1>1 DEF Backed, HeapGood, HeapType, NULL
  <2> QED BY Zenon, <1>1, <2>1, SeqItem
<1>3. Holds(o, s)
  BY Zenon, <1>1 DEF Kept
<1>4. c \in Bytes /\ Len(c) = r.heap.list[r.p].size /\ size <= Len(c)
  BY Zenon, <1>1, FoundFacts
<1>5. copied(c, size, ptr[h]) = overwritten(c, size, resized(o, size))
  BY Zenon DEF copied
<1> HIDE DEF o, s, c
<1>6. /\ Holds(overwritten(c, size, resized(o, size)), resized(s, size))
      /\ overwritten(c, size, resized(o, size)) \in Bytes
      /\ Len(overwritten(c, size, resized(o, size))) = Len(c)
      /\ resized(s, size) \in Bytes
  BY Zenon, <1>2, <1>3, <1>4, CopiedHeld
<1>7. mem' = put(r.p, overwritten(c, size, resized(o, size))) /\ give(h, r.p, resized(s, size))
  BY Zenon, <1>5 DEF c, s
<1>8. Len(overwritten(c, size, resized(o, size))) = r.heap.list[r.p].size
  BY Zenon, <1>4, <1>6
<1> QED BY Zenon, <1>6, <1>7, <1>8, TakeStep

(* A write of the caller to the bytes it asked for keeps the invariant. *)
LEMMA WriteStep ==
    ASSUME HeapInv, NEW h \in Handles, NEW token \in Tokens, Write(h, token)
    PROVE  HeapInv'
<1> DEFINE p == ptr[h]
           n == Len(stored[h])
           c == overwritten(mem[p], n, same(n, token))
<1>1. /\ HeapGood(heap) /\ Backed(mem, heap)
      /\ ptr \in [Handles -> 0..Len(heap.list)] /\ stored \in [Handles -> Bytes]
      /\ Owned(Len(heap.list), FreeOf(heap), ptr) /\ Kept(mem, ptr, stored)
  BY Zenon, InvUnfolded
<1>2. /\ p # NULL /\ mem' = [mem EXCEPT ![p] = c]
      /\ stored' = [stored EXCEPT ![h] = same(n, token)]
      /\ heap' = heap /\ ptr' = ptr
  BY DEF Write
<1>3. /\ p \in 1..Len(mem) /\ mem \in Seq(Bytes) /\ Len(mem) = Len(heap.list)
      /\ Len(mem) \in Nat /\ token \in Token
  BY <1>1, <1>2 DEF Backed, HeapGood, HeapType, NULL, Token
<1>4. mem[p] \in Bytes /\ n \in Nat /\ n <= Len(mem[p])
  <2>1. mem[p] \in Bytes /\ stored[h] \in Bytes /\ Holds(mem[p], stored[h])
    BY Zenon, <1>1, <1>2, <1>3, SeqItem DEF Kept
  <2>2. n \in Nat
    BY <2>1, SeqLen DEF Bytes
  <2> QED BY Zenon, <2>1, <2>2 DEF Holds
<1> HIDE DEF p, n
<1>5. /\ Holds(c, same(n, token)) /\ c \in Bytes /\ Len(c) = Len(mem[p])
      /\ same(n, token) \in Bytes
  BY Zenon, <1>3, <1>4, FilledHeld
<1> HIDE DEF c
<1>6. /\ mem' \in Seq(Bytes) /\ Len(mem') = Len(mem) /\ mem'[p] = c
      /\ \A j \in 1..Len(mem) : j # p => mem'[j] = mem[j]
  BY <1>2, <1>3, <1>5, SeqExcept
<1>7. /\ stored' \in [Handles -> Bytes] /\ stored'[h] = same(n, token)
      /\ \A g \in Handles : g # h => stored'[g] = stored[g]
  BY <1>1, <1>2, <1>5
<1>8. Kept(mem', ptr', stored')
  <2> SUFFICES ASSUME NEW g \in Handles, ptr[g] # NULL
               PROVE  Holds(mem'[ptr[g]], stored'[g])
    BY Zenon, <1>2 DEF Kept
  <2>1. CASE g = h
    BY Zenon, <1>5, <1>6, <1>7, <2>1 DEF p
  <2>2. CASE g # h
    <3>1. ptr[g] # p
      BY Zenon, <1>1, <2>2 DEF Owned, p
    <3>2. ptr[g] \in 1..Len(mem)
      BY <1>1, <1>3 DEF NULL
    <3> QED BY Zenon, <1>1, <1>6, <1>7, <2>2, <3>1, <3>2 DEF Kept
  <2> QED BY <2>1, <2>2
<1>9. Backed(mem', heap')
  <2> SUFFICES ASSUME NEW j \in 1..Len(heap.list) PROVE Len(mem'[j]) = heap.list[j].size
    BY Zenon, <1>2, <1>3, <1>6 DEF Backed
  <2>1. Len(mem[j]) = heap.list[j].size
    BY Zenon, <1>1 DEF Backed
  <2> QED BY Zenon, <1>3, <1>5, <1>6, <2>1
<1> QED BY Zenon, <1>1, <1>2, <1>7, <1>8, <1>9, InvFoldedPrime

(* Every call of smalloc, scalloc, sfree and srealloc keeps the invariant. *)
LEMMA InvStep == HeapInv /\ [Next]_vars => HeapInv'
<1> SUFFICES ASSUME HeapInv, [Next]_vars PROVE HeapInv'
  OBVIOUS
<1>U. /\ HeapGood(heap) /\ Backed(mem, heap)
      /\ ptr \in [Handles -> 0..Len(heap.list)] /\ stored \in [Handles -> Bytes]
      /\ Owned(Len(heap.list), FreeOf(heap), ptr) /\ Kept(mem, ptr, stored)
  BY Zenon, InvUnfolded
<1>0. CASE UNCHANGED vars
  <2>1. heap' = heap /\ mem' = mem /\ ptr' = ptr /\ stored' = stored
    BY <1>0 DEF vars
  <2> QED BY Zenon, <1>U, <2>1, InvFoldedPrime
<1>1. ASSUME NEW h \in Handles, NEW size \in Sizes, smalloc(h, size) PROVE HeapInv'
  <2>0. size \in Nat /\ ptr[h] = NULL
    BY <1>1 DEF smalloc
  <2>1. CASE invalid(size)
    BY <1>0, <1>1, <2>1 DEF smalloc, nothingChanges
  <2>2. CASE ~invalid(size)
    <3>1. PICK r \in Allocation(size) :
            /\ heap' = r.heap
            /\ IF r.p = NULL THEN UNCHANGED <<mem, ptr, stored>>
               ELSE mem' = put(r.p, found(r.p, size)) /\ give(h, r.p, same(size, Junk))
      BY Zenon, <1>1, <2>2 DEF smalloc
    <3>2. CASE r.p = NULL
      <4>1. heap' = heap
        BY <1>U, <2>0, <3>1, <3>2, AllocationFailed
      <4> QED BY <1>0, <3>1, <3>2, <4>1 DEF vars
    <3>3. CASE r.p # NULL
      <4> DEFINE c == found(r.p, size)
                 s == same(size, Junk)
      <4>1. mem' = put(r.p, c) /\ give(h, r.p, s) /\ heap' = r.heap
        BY Zenon, <3>1, <3>3
      <4>2. c \in Bytes /\ Len(c) = r.heap.list[r.p].size /\ size <= Len(c)
        BY Zenon, <1>U, <2>0, <3>3, FoundFacts
      <4> HIDE DEF c
      <4>3. Holds(c, s) /\ s \in Bytes
        BY Zenon, <2>0, <4>2, JunkHeld
      <4> HIDE DEF s
      <4> QED BY Zenon, <2>0, <3>3, <4>1, <4>2, <4>3, AllocationStep
    <3> QED BY <3>2, <3>3
  <2> QED BY <2>1, <2>2
<1>2. ASSUME NEW h \in Handles, NEW num \in Sizes, NEW size \in Sizes,
             scalloc(h, num, size)
      PROVE  HeapInv'
  <2> DEFINE bytes == (size * num) % Word
  <2>0. bytes \in Nat /\ ptr[h] = NULL
    <3>1. size * num \in Nat /\ \A x, w \in Nat : w # 0 => x % w \in Nat
      BY SMT
    <3>2. ptr[h] = NULL
      BY Zenon, <1>2 DEF scalloc
    <3> QED BY <3>1, <3>2
  <2>1. CASE size = 0 \/ num = 0 \/ bytes > SizeLimit
    BY <1>0, <1>2, <2>1 DEF scalloc, nothingChanges
  <2>2. CASE ~(size = 0 \/ num = 0 \/ bytes > SizeLimit)
    <3>1. PICK r \in Allocation(bytes) :
            /\ heap' = r.heap
            /\ IF r.p = NULL THEN UNCHANGED <<mem, ptr, stored>>
               ELSE /\ mem' = put(r.p, cleared(found(r.p, bytes), bytes))
                    /\ give(h, r.p, same(bytes, Zero))
      BY Zenon, <1>2, <2>2 DEF scalloc
    <3> HIDE DEF bytes
    <3>2. CASE r.p = NULL
      <4>1. heap' = heap
        BY <1>U, <2>0, <3>1, <3>2, AllocationFailed
      <4> QED BY <1>0, <3>1, <3>2, <4>1 DEF vars
    <3>3. CASE r.p # NULL
      <4> DEFINE f == found(r.p, bytes)
                 s == same(bytes, Zero)
                 c == overwritten(f, bytes, s)
      <4>1. mem' = put(r.p, c) /\ give(h, r.p, s) /\ heap' = r.heap
        BY Zenon, <3>1, <3>3 DEF cleared
      <4>2. f \in Bytes /\ Len(f) = r.heap.list[r.p].size /\ bytes <= Len(f)
        BY Zenon, <1>U, <2>0, <3>3, FoundFacts
      <4>3. Zero \in Token
        BY DEF Token
      <4> HIDE DEF f
      <4>4. Holds(c, s) /\ c \in Bytes /\ Len(c) = Len(f) /\ s \in Bytes
        BY Zenon, <2>0, <4>2, <4>3, FilledHeld
      <4>5. Len(c) = r.heap.list[r.p].size
        BY Zenon, <4>2, <4>4
      <4> HIDE DEF c, s
      <4> QED BY Zenon, <2>0, <3>3, <4>1, <4>4, <4>5, AllocationStep
    <3> QED BY <3>2, <3>3
  <2> QED BY <2>1, <2>2
<1>3. ASSUME NEW h \in Handles, sfreeHeld(h) PROVE HeapInv'
  BY <1>3, FreeStep
<1>4. ASSUME NEW p \in 1..MaxBlocks, sfreeAgain(p) PROVE HeapInv'
  BY <1>0, <1>4 DEF sfreeAgain, sfree, vars
<1>5. ASSUME NEW h \in Handles, NEW size \in Sizes, srealloc(h, size) PROVE HeapInv'
  <2>0. size \in Nat /\ ptr[h] # NULL
    BY Zenon, <1>5 DEF srealloc
  <2>1. CASE invalid(size)
    BY <1>0, <1>5, <2>1 DEF srealloc, nothingChanges
  <2>2. CASE ~invalid(size) /\ size <= heap.list[ptr[h]].size
    <3> DEFINE c == mem[ptr[h]]
               s == stored[h]
    <3>1. give(h, ptr[h], resized(s, size)) /\ heap' = heap /\ mem' = mem
      BY <1>5, <2>2 DEF srealloc
    <3>2. ptr[h] \in 1..Len(heap.list) /\ mem \in Seq(Bytes) /\ Len(mem) = Len(heap.list)
      BY <1>U, <2>0 DEF Backed, HeapGood, HeapType, NULL
    <3>3. /\ c \in Bytes /\ s \in Bytes /\ Len(c) = heap.list[ptr[h]].size
          /\ Holds(c, s)
      BY Zenon, <1>U, <2>0, <3>2, SeqItem DEF Backed, Kept
    <3>4. size <= Len(c)
      BY Zenon, <2>2, <3>3
    <3> HIDE DEF c, s
    <3>5. Holds(c, resized(s, size)) /\ resized(s, size) \in Bytes
      BY Zenon, <2>0, <3>3, <3>4, ShrunkHeld
    <3>6. Holds(mem[ptr[h]], resized(s, size))
      BY Zenon, <3>5 DEF c
    <3> QED BY Zenon, <2>0, <3>1, <3>5, <3>6, StayStep
  <2>3. CASE ~invalid(size) /\ ~(size <= heap.list[ptr[h]].size)
    <3>1. PICK r \in Allocation(size) :
            IF r.p = NULL THEN heap' = r.heap /\ UNCHANGED <<mem, ptr, stored>>
            ELSE /\ heap' = sfree(r.heap, ptr[h])
                 /\ mem' = put(r.p, copied(found(r.p, size), size, ptr[h]))
                 /\ give(h, r.p, resized(stored[h], size))
      BY Zenon, <1>5, <2>3 DEF srealloc
    <3>2. CASE r.p = NULL
      <4>1. heap' = heap
        BY <1>U, <2>0, <3>1, <3>2, AllocationFailed
      <4> QED BY <1>0, <3>1, <3>2, <4>1 DEF vars
    <3>3. CASE r.p # NULL
      BY Zenon, <2>0, <3>1, <3>3, MoveStep
    <3> QED BY <3>2, <3>3
  <2> QED BY <2>1, <2>2, <2>3
<1>6. ASSUME NEW h \in Handles, NEW token \in Tokens, Write(h, token) PROVE HeapInv'
  BY Zenon, <1>6, WriteStep
<1> QED
  BY Zenon, <1>0, <1>1, <1>2, <1>3, <1>4, <1>5, <1>6 DEF Next

(* The invariant holds in every reachable state. *)
THEOREM InvAlways == Spec => []HeapInv
<1>1. Init => HeapInv
  <2> SUFFICES ASSUME Init PROVE HeapInv
    OBVIOUS
  <2>1. heap.list = << >> /\ Len(heap.list) = 0 /\ << >> \in Seq(Block)
    BY SeqEmpty DEF Init
  <2>2. FreeOf(heap) = {} /\ Cardinality({}) = 0
    BY <2>1, FS_EmptySet DEF FreeOf
  <2>3. HeapGood(heap)
    <3>1. heap \in HeapType
      BY <2>1 DEF Init, HeapType
    <3>2. heap.free_blocks = 0 /\ heap.allocated_blocks = 0
          /\ heap.meta_data_bytes = 0
      BY DEF Init
    <3>3. MetaSize * 0 = 0
      OBVIOUS
    <3>4. BytesGood(heap)
      <4>1. heap.free_bytes = 0 /\ heap.allocated_bytes = 0
        BY DEF Init
      <4> QED BY <2>1, <4>1, BytesNone DEF BytesGood
    <3> QED BY <2>1, <2>2, <3>1, <3>2, <3>3, <3>4 DEF HeapGood
  <2>4. Backed(mem, heap)
    BY <2>1, SeqEmpty DEF Init, Backed
  <2>5. /\ ptr \in [Handles -> 0..Len(heap.list)] /\ stored \in [Handles -> Bytes]
        /\ Owned(Len(heap.list), FreeOf(heap), ptr) /\ Kept(mem, ptr, stored)
    BY <2>1, SeqEmpty DEF Init, Owned, Kept, Bytes, NULL
  <2> QED
    BY Zenon, <2>3, <2>4, <2>5, InvFolded
<1> QED BY <1>1, InvStep, PTL DEF Spec

(* malloc_2.cpp:9-13: the block counters are exact after any sequence of   *)
(* calls, for any sizes and any number of blocks.                          *)
THEOREM CountersAlwaysExact == Spec => []CountersExact
<1>1. HeapInv => CountersExact
  BY DEF HeapInv
<1> QED BY <1>1, InvAlways, PTL

(* No block is ever handed to two callers, and none is lost. *)
THEOREM OwnersNeverShare == Spec => []OneOwner
<1>1. HeapInv => OneOwner
  BY DEF HeapInv
<1> QED BY <1>1, InvAlways, PTL

(* Every byte that a caller relies on survives every call, the move of     *)
(* srealloc included; scalloc hands out zeros whatever block it reuses.    *)
THEOREM ContentsSurvive == Spec => []ContentsKept
<1>1. HeapInv => ContentsKept
  BY DEF HeapInv
<1> QED BY <1>1, InvAlways, PTL

(* The unsigned block counters never go below zero, and no caller holds a  *)
(* pointer outside the list.                                               *)
THEOREM HeapTyped == Spec => []HeapTypeOK
<1>1. HeapInv => HeapTypeOK
  BY DEF HeapInv
<1> QED BY <1>1, InvAlways, PTL

(* malloc_2.cpp:10 and 12: the byte counters are the sums of the sizes of  *)
(* the free blocks and of all blocks, after any sequence of calls.         *)
THEOREM BytesAlwaysExact == Spec => []BytesExact
<1>1. HeapInv => BytesExact
  BY DEF HeapInv
<1> QED BY <1>1, InvAlways, PTL
=============================================================================
