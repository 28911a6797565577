--------------------------- MODULE Malloc3Proofs ----------------------------
(***************************************************************************)
(* Proofs about Malloc3 for every heap, request and number of callers: the *)
(* inductive invariant Malloc3Inv, with one lemma for each call, and the   *)
(* properties that follow from it.                                         *)
(***************************************************************************)
EXTENDS Malloc3Terms, Malloc3HeapProofs

(* There is such a function for every n. *)
LEMMA FreeingExists == \A H, res : \A n \in Nat : \E f : Freeing(f, H, res, n)
<1> TAKE H, res
<1> DEFINE s0 == [heap |-> H, res |-> res, bad |-> FALSE]
           T == {n \in Nat : ~ \E f : Freeing(f, H, res, n)}
<1> SUFFICES ASSUME T # {} PROVE FALSE
  OBVIOUS
<1>1. PICK n \in T : \A m \in T : n <= m
  <2>1. T \subseteq Nat
    OBVIOUS
  <2> HIDE DEF T
  <2> QED BY Zenon, <2>1, LeastNatural
<1>2. CASE n = 0
  <2> DEFINE f == [i \in 0..0 |-> s0]
  <2>1. Freeing(f, H, res, 0)
    <3>1. f = [i \in 0..0 |-> IF i = 0 THEN s0 ELSE coalesceRound(f[i - 1])]
      <4> HIDE DEF s0
      <4> QED OBVIOUS
    <3> QED BY <3>1 DEF Freeing
  <2> HIDE DEF f
  <2> QED BY <1>1, <1>2, <2>1
<1>3. CASE n # 0
  <2>1. n - 1 \in Nat /\ n \in Nat /\ n - 1 \notin T
    BY <1>1, <1>3
  <2>2. PICK g : Freeing(g, H, res, n - 1)
    BY <2>1
  <2>3. \A i \in 0..(n - 1) : g[i] = IF i = 0 THEN s0 ELSE coalesceRound(g[i - 1])
    BY Zenon, <2>2 DEF Freeing
  <2> DEFINE f == [i \in 0..n |-> IF i = n THEN coalesceRound(g[n - 1]) ELSE g[i]]
  <2> HIDE DEF s0
  <2>4. \A i \in 0..n : i # n => i \in 0..(n - 1) /\ f[i] = g[i]
    BY <2>1
  <2>5. \A i \in 0..n : i # 0 => f[i - 1] = g[i - 1]
    BY <2>1
  <2>6. ASSUME NEW i \in 0..n PROVE f[i] = IF i = 0 THEN s0 ELSE coalesceRound(f[i - 1])
    <3>1. CASE i = n
      <4>1. f[i] = coalesceRound(g[n - 1]) /\ f[i - 1] = g[i - 1]
        BY <1>3, <2>1, <2>5, <3>1
      <4> HIDE DEF f
      <4> QED BY <1>3, <3>1, <4>1
    <3>2. CASE i # n
      <4>1. i \in 0..(n - 1) /\ f[i] = g[i] /\ (i # 0 => f[i - 1] = g[i - 1])
        BY <2>4, <2>5, <3>2
      <4> HIDE DEF f
      <4> QED BY <2>3, <4>1
    <3> QED BY <3>1, <3>2
  <2>7. Freeing(f, H, res, n)
    <3>1. f = [i \in 0..n |-> f[i]]
      OBVIOUS
    <3> HIDE DEF f
    <3> QED BY Zenon, <2>6, <3>1 DEF Freeing, s0
  <2> HIDE DEF f
  <2> QED BY <1>1, <2>7
<1> QED BY <1>2, <1>3

(* coalesce is what its last round gives. *)
LEMMA CoalesceRounds ==
    ASSUME NEW H, NEW res
    PROVE  \E f : Freeing(f, H, res, MaxOrder) /\ coalesce(H, res) = f[MaxOrder]
<1>1. PICK f : Freeing(f, H, res, MaxOrder)
  BY Zenon, FreeingExists, SizeFacts
<1> DEFINE g == CHOOSE h : h = [n \in Orders |->
                    IF n = 0 THEN [heap |-> H, res |-> res, bad |-> FALSE]
                    ELSE coalesceRound(h[n - 1])]
<1>2. g = [n \in Orders |-> IF n = 0 THEN [heap |-> H, res |-> res, bad |-> FALSE]
                            ELSE coalesceRound(g[n - 1])]
  BY Zenon, <1>1 DEF Freeing, Orders
<1>3. Freeing(g, H, res, MaxOrder)
  BY Zenon, <1>2 DEF Freeing, Orders
<1>4. coalesce(H, res) = g[MaxOrder]
  BY DEF coalesce
<1> HIDE DEF g
<1> QED BY <1>3, <1>4

(* A round keeps what is known of the rounds before. *)
LEMMA RoundKeeps ==
    ASSUME NEW H, NEW s, NEW n \in Nat, s.bad = FALSE, AfterRounds(H, s, n),
           NEW t, t = coalesceRound(s), t.bad = FALSE
    PROVE  AfterRounds(H, t, n + 1)
<1> DEFINE k == s.heap.md[s.res].order
           b == findNeighboringBlock(s.res, k)
           at == lower(s.res, b)
           other == IF at = s.res THEN b ELSE s.res
           G == join(s.heap, s.res, b, at, k, TRUE)
<1>1. /\ HeapOK(s.heap) /\ s.res \in Live(s.heap.md) /\ s.heap.md[s.res].is_free
      /\ NoPairsBut(s.heap.md, s.res) /\ Used(s.heap.md) = Used(H.md)
      /\ \A x \in Used(H.md) : s.heap.md[x] = H.md[x]
      /\ k >= n \/ Stopped(s)
  BY DEF AfterRounds
<1>2. Tiled(s.heap.md) /\ k \in Nat /\ k \in Orders /\ s.res \in Addr
  BY Zenon, <1>1, BlockFacts DEF HeapOK
<1>3. CASE Stopped(s)
  <2>1. t = s
    BY Zenon, <1>3 DEF coalesceRound, Stopped
  <2> QED BY Zenon, <1>1, <1>3, <2>1 DEF AfterRounds
<1>4. CASE ~Stopped(s)
  <2>1. k # MaxOrder /\ s.heap.md[b].is_free
    BY <1>4 DEF Stopped
  <2>2. t = [heap |-> G, res |-> at, bad |-> s.heap.md[b].order # k]
    BY Zenon, <2>1 DEF coalesceRound
  <2> HIDE DEF G
  <2>3. t.heap = G /\ t.res = at /\ s.heap.md[b].order = k
    <3> HIDE DEF at
    <3>1. t.heap = G /\ t.res = at
      BY <2>2
    <3>2. t.bad = (s.heap.md[b].order # k)
      BY <2>2
    <3> QED BY Zenon, <3>1, <3>2
  <2>4. b \in Live(s.heap.md) /\ b # s.res
    <3>1. b \in Live(s.heap.md)
      BY Zenon, <1>1, <1>2, <2>1, NeighbourIsBlock
    <3>2. /\ b \in Nat /\ s.res \in Nat /\ pow2[k] \in Nat \ {0}
          /\ b = s.res + pow2[k] \/ b + pow2[k] = s.res
      BY <1>1, <1>2, <2>1, NeighbourFacts
    <3> HIDE DEF b, k
    <3> QED BY <3>1, <3>2
  <2>5. IsJoined(s.heap, G, at, other, k, TRUE)
    BY Zenon, <1>1, <2>1, <2>3, JoinFacts DEF G
  <2>6. at # other /\ ((at = s.res /\ other = b) \/ (at = b /\ other = s.res))
    <3> HIDE DEF b
    <3> QED BY <2>4 DEF lower
  <2> HIDE DEF b, at, other
  <2>7. /\ HeapOK(G) /\ Live(G.md) = Live(s.heap.md) \ {other}
        /\ G.md[at] = [order |-> k + 1, is_free |-> TRUE] /\ G.md[other] = NoMD
        /\ \A x \in Addr : x # at /\ x # other => G.md[x] = s.heap.md[x]
    BY <2>5 DEF IsJoined
  <2>8. at \in Live(G.md) /\ G.md[at].is_free /\ G.md[at].order = k + 1
    <3>1. at \in Live(G.md)
      BY Zenon, <1>1, <2>4, <2>6, <2>7
    <3> HIDE DEF k
    <3>2. \A y : y = [order |-> k + 1, is_free |-> TRUE] => y.is_free /\ y.order = k + 1
      OBVIOUS
    <3> QED BY Zenon, <2>7, <3>1, <3>2
  <2>9. s.heap.md[at].is_free /\ s.heap.md[other].is_free
    BY Zenon, <1>1, <2>1, <2>6
  <2>10. ~NoMD.is_free
    BY DEF NoMD
  <2>11. Used(G.md) = Used(s.heap.md) /\ \A x \in Used(G.md) : G.md[x] = s.heap.md[x]
    <3>1. \A x \in Addr : x = at \/ x = other => x \notin Used(G.md) /\ x \notin Used(s.heap.md)
      BY <2>7, <2>8, <2>9 DEF Used
    <3>2. \A x \in Addr : x # at /\ x # other => (x \in Used(G.md) <=> x \in Used(s.heap.md))
      BY Zenon, <2>7 DEF Used
    <3>3. Used(G.md) \subseteq Addr /\ Used(s.heap.md) \subseteq Addr
      BY DEF Used
    <3> QED BY Zenon, <2>7, <3>1, <3>2, <3>3
  <2>12. NoPairsBut(G.md, at)
    <3> SUFFICES ASSUME NEW x \in Live(G.md) \ {at}, G.md[x].is_free, G.md[x].order # MaxOrder,
                        NEW c, c = findNeighboringBlock(x, G.md[x].order), c # at,
                        G.md[c].is_free, G.md[c].order = G.md[x].order
                 PROVE  FALSE
      BY DEF NoPairsBut
    <3>1. c \in Addr
      BY <2>7, NeighbourFacts DEF HeapOK
    <3>2. c # other /\ x # other /\ x \in Live(s.heap.md) /\ x \in Addr
      BY Zenon, <2>7, <2>10 DEF Live
    <3>3. G.md[x] = s.heap.md[x] /\ G.md[c] = s.heap.md[c]
      BY Zenon, <2>7, <3>1, <3>2
    <3>4. x # s.res /\ c # s.res
      BY <2>6, <3>2
    <3> DEFINE md == s.heap.md
               q == s.res
    <3>5. NoPairsBut(md, q)
      BY Zenon, <1>1
    <3>6. /\ c = findNeighboringBlock(x, md[x].order) /\ c # q
          /\ md[x].is_free /\ md[x].order # MaxOrder
          /\ md[c].is_free /\ md[c].order = md[x].order
      BY Zenon, <3>3, <3>4
    <3>7. x \in Live(md) \ {q}
      BY Zenon, <3>2, <3>4
    <3> HIDE DEF md, q
    <3> QED BY Zenon, <3>5, <3>6, <3>7 DEF NoPairsBut
  <2>13. k + 1 >= n + 1
    <3>1. k >= n
      BY <1>1, <1>4
    <3> HIDE DEF k
    <3> QED BY <1>2, <3>1
  <2>14. Used(G.md) = Used(H.md) /\ \A x \in Used(H.md) : G.md[x] = H.md[x]
    BY <1>1, <2>11
  <2> HIDE DEF k
  <2> QED BY Zenon, <2>3, <2>7, <2>8, <2>12, <2>13, <2>14 DEF AfterRounds
<1> QED BY <1>3, <1>4

(* Freeing a block leaves no pair of free neighbours, and what is in use alone. *)
LEMMA CoalesceFacts ==
    ASSUME NEW H, HeapOK(H), NEW res \in Live(H.md), H.md[res].is_free,
           NoPairsBut(H.md, res), NEW c, c = coalesce(H, res)
    PROVE  IsFreed(H, c)
<1>1. PICK f : Freeing(f, H, res, MaxOrder) /\ c = f[MaxOrder]
  BY CoalesceRounds
<1>2. /\ f[0] = [heap |-> H, res |-> res, bad |-> FALSE]
      /\ \A i \in 0..MaxOrder : i # 0 => f[i] = coalesceRound(f[i - 1])
  <2>1. MaxOrder \in Nat
    BY SizeFacts
  <2> DEFINE s0 == [heap |-> H, res |-> res, bad |-> FALSE]
  <2>2. f = [i \in 0..MaxOrder |-> IF i = 0 THEN s0 ELSE coalesceRound(f[i - 1])]
    BY Zenon, <1>1 DEF Freeing
  <2> HIDE DEF s0
  <2>3. \A i \in 0..MaxOrder : f[i] = IF i = 0 THEN s0 ELSE coalesceRound(f[i - 1])
    BY Zenon, <2>2
  <2>4. 0 \in 0..MaxOrder
    BY <2>1
  <2>5. f[0] = s0 /\ \A i \in 0..MaxOrder : i # 0 => f[i] = coalesceRound(f[i - 1])
    BY <2>3, <2>4
  <2> QED BY <2>5 DEF s0
<1> DEFINE ok(i) == f[i].bad \in BOOLEAN /\ (f[i].bad = FALSE => AfterRounds(H, f[i], i))
<1>3. ok(0)
  <2>1. f[0].heap = H /\ f[0].res = res /\ f[0].bad = FALSE
    BY <1>2
  <2>2. H.md[res].order >= 0
    BY BlockFacts DEF HeapOK
  <2>3. AfterRounds(H, f[0], 0)
    BY <2>1, <2>2 DEF AfterRounds
  <2> QED BY Zenon, <2>1, <2>3
<1>4. ASSUME NEW i \in 0..MaxOrder, i # 0, ok(i - 1) PROVE ok(i)
  <2>1. f[i] = coalesceRound(f[i - 1]) /\ i - 1 \in Nat /\ i = (i - 1) + 1
    BY <1>2, <1>4
  <2> DEFINE s == f[i - 1]
             t == f[i]
  <2>2. t = coalesceRound(s) /\ s.bad \in BOOLEAN
    BY <1>4, <2>1
  <2> HIDE DEF s, t
  <2>3. CASE s.bad = TRUE
    <3>1. t = s
      BY Zenon, <2>2, <2>3 DEF coalesceRound
    <3> QED BY Zenon, <2>3, <3>1 DEF s, t
  <2>4. CASE s.bad = FALSE
    <3>1. AfterRounds(H, s, i - 1)
      BY <1>4, <2>4 DEF s
    <3>2. t.bad \in BOOLEAN
      <4> DEFINE k == s.heap.md[s.res].order
                 b == findNeighboringBlock(s.res, k)
                 G == join(s.heap, s.res, b, lower(s.res, b), k, TRUE)
                 e == (s.heap.md[b].order # k)
      <4>1. t = s \/ t = [heap |-> G, res |-> lower(s.res, b), bad |-> e]
        BY Zenon, <2>2 DEF coalesceRound
      <4>2. e \in BOOLEAN
        OBVIOUS
      <4> DEFINE lo == lower(s.res, b)
      <4> HIDE DEF G, e, b, lo
      <4>3. \A x : x = [heap |-> G, res |-> lo, bad |-> e] => x.bad = e
        OBVIOUS
      <4> QED BY Zenon, <2>4, <4>1, <4>2, <4>3 DEF lo
    <3>3. ASSUME t.bad = FALSE PROVE AfterRounds(H, t, (i - 1) + 1)
      BY Zenon, <2>1, <2>2, <2>4, <3>1, <3>3, RoundKeeps
    <3> QED BY Zenon, <2>1, <3>2, <3>3 DEF t
  <2> QED BY Zenon, <2>2, <2>3, <2>4
<1> DEFINE T == {i \in 0..MaxOrder : ~ok(i)}
<1>5. T = {}
  <2> SUFFICES ASSUME T # {} PROVE FALSE
    BY Zenon
  <2>1. T \subseteq Nat /\ T \subseteq 0..MaxOrder /\ \A i \in T : ~ok(i)
    OBVIOUS
  <2>2. \A i \in 0..MaxOrder : i \notin T => ok(i)
    OBVIOUS
  <2> HIDE DEF ok, T
  <2>3. PICK i \in T : \A j \in T : i <= j
    BY Zenon, <2>1, LeastNatural
  <2>4. i # 0 /\ i \in 0..MaxOrder
    BY <1>3, <2>1
  <2>5. i - 1 \in 0..MaxOrder /\ i - 1 \notin T
    <3>1. MaxOrder \in Nat
      BY SizeFacts
    <3>2. i - 1 \in 0..MaxOrder /\ ~(i <= i - 1)
      BY <2>4, <3>1
    <3> QED BY <2>3, <3>2
  <2> QED BY <1>4, <2>1, <2>2, <2>4, <2>5
<1>6. ok(MaxOrder)
  <2>1. MaxOrder \in 0..MaxOrder
    BY SizeFacts
  <2> HIDE DEF ok
  <2> QED BY <1>5, <2>1
<1>7. ASSUME c.bad = FALSE
      PROVE  /\ HeapOK(c.heap) /\ NoPairs(c.heap.md) /\ Used(c.heap.md) = Used(H.md)
             /\ \A x \in Used(H.md) : c.heap.md[x] = H.md[x]
  <2>1. AfterRounds(H, c, MaxOrder)
    BY <1>1, <1>6, <1>7
  <2>2. /\ HeapOK(c.heap) /\ c.res \in Live(c.heap.md) /\ c.heap.md[c.res].is_free
        /\ NoPairsBut(c.heap.md, c.res) /\ Used(c.heap.md) = Used(H.md)
        /\ \A x \in Used(H.md) : c.heap.md[x] = H.md[x]
        /\ c.heap.md[c.res].order >= MaxOrder \/ Stopped(c)
    BY <2>1 DEF AfterRounds
  <2>3. Tiled(c.heap.md)
    BY <2>2 DEF HeapOK
  <2>4. Stopped(c)
    <3>1. c.heap.md[c.res].order \in 0..MaxOrder
      BY Zenon, <2>2, <2>3, BlockFacts DEF Orders
    <3>2. c.heap.md[c.res].order >= MaxOrder => c.heap.md[c.res].order = MaxOrder
      <4>1. \A u \in Nat : \A n \in 0..u : n >= u => n = u
        OBVIOUS
      <4> QED BY Zenon, <3>1, <4>1, SizeFacts
    <3> QED BY Zenon, <2>2, <3>2 DEF Stopped
  <2>5. NoPairs(c.heap.md)
    <3> DEFINE md == c.heap.md
    <3> SUFFICES ASSUME NEW x \in Live(md), md[x].is_free, md[x].order # MaxOrder,
                        NEW y, y = findNeighboringBlock(x, md[x].order),
                        md[y].is_free, md[y].order = md[x].order
                 PROVE  FALSE
      BY Zenon DEF NoPairs
    <3>1. CASE x = c.res
      BY Zenon, <2>4, <3>1 DEF Stopped
    <3>2. CASE y = c.res
      <4>1. findNeighboringBlock(y, md[x].order) = x
        BY <2>3, NeighbourFacts
      <4>2. findNeighboringBlock(c.res, c.heap.md[c.res].order) = x
        BY <3>2, <4>1
      <4> QED BY <2>4, <3>2, <4>2 DEF Stopped
    <3>3. CASE x # c.res /\ y # c.res
      <4>1. x \in Live(md) \ {c.res}
        BY Zenon, <3>3
      <4> QED BY Zenon, <2>2, <3>3, <4>1 DEF NoPairsBut
    <3> QED BY <3>1, <3>2, <3>3
  <2> QED BY Zenon, <2>2, <2>5
<1> QED BY Zenon, <1>1, <1>6, <1>7 DEF IsFreed

-----------------------------------------------------------------------------

(* There is such a function for every n. *)
LEMMA GrowingExists ==
    \A H, current, new_size : \A n \in Nat : \E f : Growing(f, H, current, new_size, n)
<1> TAKE H, current, new_size
<1> DEFINE s0 == [heap |-> H, bad |-> FALSE]
           T == {n \in Nat : ~ \E f : Growing(f, H, current, new_size, n)}
<1> SUFFICES ASSUME T # {} PROVE FALSE
  OBVIOUS
<1>1. PICK n \in T : \A m \in T : n <= m
  <2>1. T \subseteq Nat
    OBVIOUS
  <2> HIDE DEF T
  <2> QED BY Zenon, <2>1, LeastNatural
<1>2. CASE n = 0
  <2> DEFINE f == [i \in 0..0 |-> s0]
  <2>1. Growing(f, H, current, new_size, 0)
    <3>1. f = [i \in 0..0 |-> IF i = 0 THEN s0 ELSE absorbRound(f[i - 1], current, new_size)]
      <4> HIDE DEF s0
      <4> QED OBVIOUS
    <3> QED BY <3>1 DEF Growing
  <2> HIDE DEF f
  <2> QED BY <1>1, <1>2, <2>1
<1>3. CASE n # 0
  <2>1. n - 1 \in Nat /\ n \in Nat /\ n - 1 \notin T
    BY <1>1, <1>3
  <2>2. PICK g : Growing(g, H, current, new_size, n - 1)
    BY <2>1
  <2> DEFINE next(s) == absorbRound(s, current, new_size)
  <2>3. \A i \in 0..(n - 1) : g[i] = IF i = 0 THEN s0 ELSE next(g[i - 1])
    BY Zenon, <2>2 DEF Growing
  <2> DEFINE f == [i \in 0..n |-> IF i = n THEN next(g[n - 1]) ELSE g[i]]
  <2> HIDE DEF s0
  <2>4. \A i \in 0..n : i # n => i \in 0..(n - 1) /\ f[i] = g[i]
    BY <2>1
  <2>5. \A i \in 0..n : i # 0 => f[i - 1] = g[i - 1]
    BY <2>1
  <2>6. ASSUME NEW i \in 0..n PROVE f[i] = IF i = 0 THEN s0 ELSE next(f[i - 1])
    <3>1. CASE i = n
      <4>1. f[i] = next(g[n - 1]) /\ f[i - 1] = g[i - 1]
        BY <1>3, <2>1, <2>5, <3>1
      <4> HIDE DEF f
      <4> QED BY <1>3, <3>1, <4>1
    <3>2. CASE i # n
      <4>1. i \in 0..(n - 1) /\ f[i] = g[i] /\ (i # 0 => f[i - 1] = g[i - 1])
        BY <2>4, <2>5, <3>2
      <4> HIDE DEF f
      <4> QED BY <2>3, <4>1
    <3> QED BY <3>1, <3>2
  <2>7. Growing(f, H, current, new_size, n)
    <3>1. f = [i \in 0..n |-> f[i]]
      OBVIOUS
    <3> HIDE DEF f
    <3> QED BY Zenon, <2>6, <3>1 DEF Growing, s0
  <2> HIDE DEF f
  <2> QED BY <1>1, <2>7
<1> QED BY <1>2, <1>3

(* absorb is what its last round gives, bad when that is too small. *)
LEMMA AbsorbRounds ==
    ASSUME NEW H, NEW current, NEW new_size
    PROVE  \E f : /\ Growing(f, H, current, new_size, MaxOrder)
                  /\ absorb(H, current, new_size) =
                        [f[MaxOrder] EXCEPT
                            !.bad = @ \/ bytes(f[MaxOrder].heap.md[current].order) < new_size]
<1>1. PICK f : Growing(f, H, current, new_size, MaxOrder)
  BY Zenon, GrowingExists, SizeFacts
<1> DEFINE g == CHOOSE h : h = [n \in Orders |->
                    IF n = 0 THEN [heap |-> H, bad |-> FALSE]
                    ELSE absorbRound(h[n - 1], current, new_size)]
<1>2. g = [n \in Orders |-> IF n = 0 THEN [heap |-> H, bad |-> FALSE]
                            ELSE absorbRound(g[n - 1], current, new_size)]
  BY Zenon, <1>1 DEF Growing, Orders
<1>3. Growing(g, H, current, new_size, MaxOrder)
  BY Zenon, <1>2 DEF Growing, Orders
<1>4. absorb(H, current, new_size) =
         [g[MaxOrder] EXCEPT
             !.bad = @ \/ bytes(g[MaxOrder].heap.md[current].order) < new_size]
  BY DEF absorb
<1> HIDE DEF g
<1> QED BY Zenon, <1>3, <1>4

(* A round lets the block grow by free memory only. *)
LEMMA GrowthKeeps ==
    ASSUME NEW H, NEW s, NEW current, NEW new_size, IsGrowth(H, s, current),
           NEW t, t = absorbRound(s, current, new_size)
    PROVE  IsGrowth(H, t, current)
<1> DEFINE k == s.heap.md[current].order
           b == findNeighboringBlock(current, k)
           G == join(s.heap, current, b, current, k, FALSE)
           e == (s.heap.md[b].order # k \/ b < current)
<1>0. /\ s = [heap |-> s.heap, bad |-> s.bad] /\ s.bad \in BOOLEAN
      /\ s.bad = FALSE => Grown(H, s.heap, current)
  BY DEF IsGrowth
<1>1. \/ t = s
      \/ t = [s EXCEPT !.bad = TRUE]
      \/ /\ s.bad = FALSE /\ k # MaxOrder /\ s.heap.md[b].is_free
         /\ t = [heap |-> G, bad |-> e]
  BY Zenon, <1>0 DEF absorbRound
<1> HIDE DEF G, e
<1>2. CASE t = s
  BY <1>2
<1>3. CASE t = [s EXCEPT !.bad = TRUE]
  <2> DEFINE h == s.heap
             w == s.bad
  <2>1. s = [heap |-> h, bad |-> w]
    BY <1>0
  <2> HIDE DEF h, w
  <2>2. t = [heap |-> h, bad |-> TRUE]
    BY Zenon, <1>3, <2>1
  <2>3. t.bad = TRUE /\ t.heap = h
    BY <2>2
  <2> QED BY <2>2, <2>3 DEF IsGrowth
<1>4. CASE /\ s.bad = FALSE /\ k # MaxOrder /\ s.heap.md[b].is_free
           /\ t = [heap |-> G, bad |-> e]
  <2>1. t.heap = G /\ t.bad = e /\ e \in BOOLEAN /\ t = [heap |-> t.heap, bad |-> t.bad]
    <3>1. e \in BOOLEAN
      BY DEF e
    <3> QED BY <1>4, <3>1
  <2>2. /\ HeapOK(s.heap) /\ NoPairs(s.heap.md) /\ current \in Live(s.heap.md)
        /\ ~s.heap.md[current].is_free /\ Used(s.heap.md) = Used(H.md)
        /\ \A x \in Used(H.md) : x # current => s.heap.md[x] = H.md[x]
    BY <1>0, <1>4 DEF Grown
  <2>3. /\ Tiled(s.heap.md) /\ k \in Nat /\ k \in Orders /\ current \in Addr
    BY Zenon, <2>2, BlockFacts DEF HeapOK
  <2>4. b \in Live(s.heap.md) /\ b \in Addr /\ b # current /\ b \in Nat /\ current \in Nat
    <3>1. b \in Live(s.heap.md)
      BY Zenon, <1>4, <2>2, <2>3, NeighbourIsBlock
    <3>2. b \in Addr /\ b # current
      BY Zenon, <1>4, <2>2, <3>1 DEF Live
    <3> QED BY Zenon, <2>3, <3>1, <3>2, SizeFacts
  <2>5. ASSUME e = FALSE PROVE Grown(H, G, current)
    <3>1. s.heap.md[b].order = k /\ ~(b < current)
      BY Zenon, <2>5 DEF e
    <3>2. current = lower(current, b) /\ b = (IF current = current THEN b ELSE current)
      <4> HIDE DEF b
      <4> QED BY <2>4, <3>1 DEF lower
    <3>3. IsJoined(s.heap, G, current, b, k, FALSE)
      BY Zenon, <1>4, <2>2, <3>1, <3>2, JoinFacts DEF G
    <3>4. /\ HeapOK(G) /\ Live(G.md) = Live(s.heap.md) \ {b}
          /\ G.md[current] = [order |-> k + 1, is_free |-> FALSE] /\ G.md[b] = NoMD
          /\ \A x \in Addr : x # current /\ x # b => G.md[x] = s.heap.md[x]
      BY Zenon, <3>3 DEF IsJoined
    <3>5. current \in Live(G.md) /\ ~G.md[current].is_free
      <4>1. \A n, y : y = [order |-> n, is_free |-> FALSE] => ~y.is_free
        OBVIOUS
      <4>2. ~G.md[current].is_free
        BY Zenon, <3>4, <4>1
      <4> QED BY Zenon, <2>2, <2>4, <3>4, <4>2
    <3> HIDE DEF b, k
    <3>6. Used(G.md) = Used(s.heap.md)
      <4>1. b \notin Used(G.md) /\ b \notin Used(s.heap.md)
        BY Zenon, <1>4, <3>4 DEF Used
      <4>2. current \in Used(G.md) /\ current \in Used(s.heap.md)
        BY Zenon, <2>2, <3>5 DEF Used, Live
      <4>3. \A x \in Addr : x # current /\ x # b => (x \in Used(G.md) <=> x \in Used(s.heap.md))
        BY Zenon, <3>4 DEF Used
      <4>4. Used(G.md) \subseteq Addr /\ Used(s.heap.md) \subseteq Addr
        BY DEF Used
      <4> QED BY <4>1, <4>2, <4>3, <4>4
    <3>7. ASSUME NEW x \in Used(H.md), x # current PROVE G.md[x] = H.md[x]
      <4>1. x \in Addr /\ x # b
        BY Zenon, <1>4, <2>2 DEF Used
      <4> QED BY Zenon, <2>2, <3>4, <3>7, <4>1
    <3>8. NoPairs(G.md)
      <4> SUFFICES ASSUME NEW x \in Live(G.md), G.md[x].is_free, G.md[x].order # MaxOrder,
                          NEW c, c = findNeighboringBlock(x, G.md[x].order),
                          G.md[c].is_free, G.md[c].order = G.md[x].order
                   PROVE  FALSE
        BY DEF NoPairs
      <4>1. c \in Addr
        BY <3>4, NeighbourFacts DEF HeapOK
      <4>2. c # current /\ x # current
        BY <3>5
      <4>3. c # b /\ x # b /\ x \in Live(s.heap.md) /\ x \in Addr
        BY <3>4 DEF Live, NoMD
      <4>4. G.md[x] = s.heap.md[x] /\ G.md[c] = s.heap.md[c]
        BY Zenon, <3>4, <4>1, <4>2, <4>3
      <4> DEFINE md == s.heap.md
      <4>5. NoPairs(md) /\ x \in Live(md)
        BY Zenon, <2>2, <4>3
      <4>6. /\ c = findNeighboringBlock(x, md[x].order)
            /\ md[x].is_free /\ md[x].order # MaxOrder
            /\ md[c].is_free /\ md[c].order = md[x].order
        BY Zenon, <4>4
      <4> HIDE DEF md
      <4> QED BY Zenon, <4>5, <4>6 DEF NoPairs
    <3>9. Used(G.md) = Used(H.md)
      BY Zenon, <2>2, <3>6
    <3> QED BY Zenon, <3>4, <3>5, <3>7, <3>8, <3>9 DEF Grown
  <2> QED BY Zenon, <2>1, <2>5 DEF IsGrowth
<1> QED BY Zenon, <1>1, <1>2, <1>3, <1>4

(* What srealloc's loop leaves, when it swallowed only right halves. *)
LEMMA AbsorbFacts ==
    ASSUME NEW H, NEW current, Grown(H, H, current), NEW new_size \in Nat,
           NEW g, g = absorb(H, current, new_size)
    PROVE  /\ IsGrowth(H, g, current)
           /\ g.bad = FALSE => bytes(g.heap.md[current].order) >= new_size
<1>1. PICK f : /\ Growing(f, H, current, new_size, MaxOrder)
               /\ g = [f[MaxOrder] EXCEPT
                          !.bad = @ \/ bytes(f[MaxOrder].heap.md[current].order) < new_size]
  BY AbsorbRounds
<1>2. /\ f[0] = [heap |-> H, bad |-> FALSE]
      /\ \A i \in 0..MaxOrder : i # 0 => f[i] = absorbRound(f[i - 1], current, new_size)
  <2>1. MaxOrder \in Nat
    BY SizeFacts
  <2> DEFINE s0 == [heap |-> H, bad |-> FALSE]
  <2>2. f = [i \in 0..MaxOrder |-> IF i = 0 THEN s0
                                   ELSE absorbRound(f[i - 1], current, new_size)]
    BY Zenon, <1>1 DEF Growing
  <2> HIDE DEF s0
  <2>3. \A i \in 0..MaxOrder : f[i] = IF i = 0 THEN s0
                                      ELSE absorbRound(f[i - 1], current, new_size)
    BY Zenon, <2>2
  <2>4. 0 \in 0..MaxOrder
    BY <2>1
  <2>5. f[0] = s0 /\ \A i \in 0..MaxOrder : i # 0 =>
                        f[i] = absorbRound(f[i - 1], current, new_size)
    BY <2>3, <2>4
  <2> QED BY <2>5 DEF s0
<1> DEFINE ok(i) == IsGrowth(H, f[i], current)
<1>3. ok(0)
  <2>1. f[0].heap = H /\ f[0].bad = FALSE /\ f[0] = [heap |-> f[0].heap, bad |-> f[0].bad]
    BY <1>2
  <2> QED BY Zenon, <2>1 DEF IsGrowth
<1>4. ASSUME NEW i \in 0..MaxOrder, i # 0, ok(i - 1) PROVE ok(i)
  BY Zenon, <1>2, <1>4, GrowthKeeps
<1> DEFINE T == {i \in 0..MaxOrder : ~ok(i)}
<1>5. T = {}
  <2> SUFFICES ASSUME T # {} PROVE FALSE
    OBVIOUS
  <2>1. T \subseteq Nat /\ T \subseteq 0..MaxOrder /\ \A i \in T : ~ok(i)
    OBVIOUS
  <2>2. \A i \in 0..MaxOrder : i \notin T => ok(i)
    OBVIOUS
  <2> HIDE DEF ok, T
  <2>3. PICK i \in T : \A j \in T : i <= j
    BY Zenon, <2>1, LeastNatural
  <2>4. i # 0 /\ i \in 0..MaxOrder
    BY <1>3, <2>1
  <2>5. i - 1 \in 0..MaxOrder /\ i - 1 \notin T
    <3>1. MaxOrder \in Nat
      BY SizeFacts
    <3>2. i - 1 \in 0..MaxOrder /\ ~(i <= i - 1)
      BY <2>4, <3>1
    <3> QED BY <2>3, <3>2
  <2> QED BY <1>4, <2>1, <2>2, <2>4, <2>5
<1> DEFINE s == f[MaxOrder]
           small == bytes(s.heap.md[current].order) < new_size
<1>6. IsGrowth(H, s, current)
  <2>1. MaxOrder \in 0..MaxOrder
    BY SizeFacts
  <2>2. ok(MaxOrder)
    <3> HIDE DEF ok
    <3> QED BY <1>5, <2>1
  <2> QED BY <2>2
<1>7. g = [s EXCEPT !.bad = @ \/ small]
  BY <1>1
<1> HIDE DEF s, ok
<1>8. /\ s = [heap |-> s.heap, bad |-> s.bad] /\ s.bad \in BOOLEAN
      /\ s.bad = FALSE => Grown(H, s.heap, current)
  BY <1>6 DEF IsGrowth
<1>9. /\ g = [heap |-> g.heap, bad |-> g.bad] /\ g.bad \in BOOLEAN
      /\ g.heap = s.heap /\ g.bad = (s.bad \/ small)
  <2> DEFINE h == s.heap
             w == s.bad
  <2>1. s = [heap |-> h, bad |-> w] /\ w \in BOOLEAN
    BY <1>8
  <2>2. small \in BOOLEAN
    OBVIOUS
  <2> HIDE DEF small, h, w
  <2>3. g = [heap |-> h, bad |-> w \/ small]
    BY <1>7, <2>1
  <2>4. g.heap = h /\ g.bad = (w \/ small) /\ g = [heap |-> g.heap, bad |-> g.bad]
    BY <2>3
  <2>5. (w \/ small) \in BOOLEAN
    OBVIOUS
  <2> QED BY <2>4, <2>5 DEF h, w
<1> HIDE DEF small
<1>10. IsGrowth(H, g, current)
  BY <1>8, <1>9 DEF IsGrowth
<1>11. ASSUME g.bad = FALSE PROVE bytes(g.heap.md[current].order) >= new_size
  <2>1. s.bad = FALSE /\ ~small
    BY Zenon, <1>8, <1>9, <1>11
  <2>2. HeapOK(s.heap) /\ current \in Live(s.heap.md)
    BY <1>8, <2>1 DEF Grown
  <2>3. bytes(s.heap.md[current].order) \in Nat
    <3>1. pow2[s.heap.md[current].order] \in Nat
      BY Zenon, <2>2, BlockFacts DEF HeapOK
    <3> QED BY <3>1, HeapAssumption, Malloc3Assumption DEF bytes
  <2>4. ~(bytes(s.heap.md[current].order) < new_size)
    BY <2>1 DEF small
  <2>5. \A u, v \in Nat : ~(u < v) => u >= v
    OBVIOUS
  <2> QED BY <1>9, <2>3, <2>4, <2>5
<1> QED BY Zenon, <1>10, <1>11

-----------------------------------------------------------------------------
(* Blocks of the heap, mapped blocks and NULL are different pointers. *)
LEMMA Places ==
    /\ \A a \in Addr : a \notin MapIds /\ a # NULL
    /\ \A m \in MapIds : m \notin Addr /\ m # NULL
<1>1. Units \in Nat /\ MaxMapped \in Nat
  BY SizeFacts, HeapAssumption, Malloc3Assumption
<1> QED BY <1>1 DEF Addr, MapIds, NULL

(* smalloc returns one of these. *)
LEMMA SmallocFacts ==
    ASSUME NEW H, HeapOK(H), NEW size, NEW r \in Smalloc(H, size)
    PROVE  IsSmalloc(H, mapped, size, r)
<1>1. \/ r = [heap |-> H, p |-> NULL]
      \/ r = findExactSizeBlock(H, MetaSize + size)
      \/ \E m \in MapIds : mapped[m] = 0 /\ r = [heap |-> H, p |-> m]
  BY DEF Smalloc
<1>2. CASE r = [heap |-> H, p |-> NULL]
  BY <1>2 DEF IsSmalloc
<1>3. CASE r = findExactSizeBlock(H, MetaSize + size)
  <2>1. IsExact(H, MetaSize + size, r)
    BY <1>3, ExactFacts
  <2>2. CASE r = [heap |-> H, p |-> NULL]
    BY <2>2 DEF IsSmalloc
  <2> QED BY <2>1, <2>2 DEF IsExact, IsSmalloc
<1>4. CASE \E m \in MapIds : mapped[m] = 0 /\ r = [heap |-> H, p |-> m]
  BY <1>4 DEF IsSmalloc
<1> QED BY <1>1, <1>2, <1>3, <1>4

(* Giving out a result of smalloc. *)
LEMMA GiveFacts ==
    ASSUME NEW H, HeapOK(H), NEW mp \in [MapIds -> Nat],
           NEW pt \in [Handles -> Addr \cup MapIds \cup {NULL}],
           Owned(H.md, mp, pt), NEW h \in Handles, pt[h] = NULL,
           NEW size \in Nat, NEW r, IsSmalloc(H, mp, size, r), r.p # NULL,
           NEW mp2, mp2 = [m \in MapIds |-> IF m = r.p THEN MetaSize + size ELSE mp[m]],
           NEW pt2, pt2 = [pt EXCEPT ![h] = r.p]
    PROVE  IsGiven(H, mp, pt, h, size, r, mp2, pt2)
<1> DEFINE p == r.p
           m2 == r.heap.md
<1>1. /\ pt2[h] = p /\ \A g \in Handles : g # h => pt2[g] = pt[g]
      /\ \A m \in MapIds : m # p => mp2[m] = mp[m]
      /\ p \in MapIds => mp2[p] = MetaSize + size
  OBVIOUS
<1>2. MetaSize \in Nat \ {0} /\ MetaSize + size \in Nat /\ MetaSize + size # 0
  BY HeapAssumption, Malloc3Assumption
<1>3. /\ \A g \in Handles :
            pt[g] # NULL => pt[g] \in Used(H.md) \/ (pt[g] \in MapIds /\ mp[pt[g]] # 0)
      /\ \A a \in Used(H.md) : \E g \in Handles : pt[g] = a
      /\ \A m \in MapIds : mp[m] # 0 => \E g \in Handles : pt[g] = m
      /\ \A f, g \in Handles : pt[f] = pt[g] /\ f # g => pt[f] = NULL
  BY DEF Owned
<1>4. Used(H.md) \subseteq Addr
  BY DEF Used
<1>5. \A as \in [Handles -> Nat] : \A n \in Nat :
         /\ [as EXCEPT ![h] = n][h] = n
         /\ \A g \in Handles : g # h => [as EXCEPT ![h] = n][g] = as[g]
  BY Zenon
<1>6. CASE p \in MapIds /\ mp[p] = 0 /\ r.heap = H
  <2>1. \A g \in Handles : pt[g] # p
    BY <1>3, <1>4, <1>6, Places
  <2>2. Owned(H.md, mp2, pt2)
    <3>1. ASSUME NEW g \in Handles, pt2[g] # NULL
          PROVE  pt2[g] \in Used(H.md) \/ (pt2[g] \in MapIds /\ mp2[pt2[g]] # 0)
      <4>1. CASE g = h
        BY <1>1, <1>2, <1>6, <4>1
      <4>2. CASE g # h
        BY <1>1, <1>3, <2>1, <3>1, <4>2
      <4> QED BY <4>1, <4>2
    <3>2. \A a \in Used(H.md) : \E g \in Handles : pt2[g] = a
      BY <1>1, <1>3, <1>4, Places
    <3>3. ASSUME NEW m \in MapIds, mp2[m] # 0 PROVE \E g \in Handles : pt2[g] = m
      <4>1. CASE m = p
        BY <1>1, <4>1
      <4>2. CASE m # p
        BY <1>1, <1>3, <3>3, <4>2, Places
      <4> QED BY <4>1, <4>2
    <3>4. \A f, g \in Handles : pt2[f] = pt2[g] /\ f # g => pt2[f] = NULL
      BY <1>1, <1>3, <2>1
    <3> QED BY <3>1, <3>2, <3>3, <3>4 DEF Owned
  <2>3. ASSUME NEW as \in [Handles -> Nat], NEW n \in Nat, Room(H.md, mp, pt, as), n <= size
        PROVE  Room(H.md, mp2, pt2, [as EXCEPT ![h] = n])
    <3>1. MetaSize + size >= n + MetaSize
      BY <1>2, <2>3
    <3>2. ASSUME NEW g \in Handles, g # h
          PROVE  /\ pt2[g] \in Addr => bytes(H.md[pt2[g]].order) >= as[g] + MetaSize
                 /\ pt2[g] \in MapIds => mp2[pt2[g]] >= as[g] + MetaSize
      BY Zenon, <1>1, <2>1, <2>3, <3>2 DEF Room
    <3>3. p \notin Addr /\ mp2[p] = MetaSize + size
      BY <1>1, <1>6, Places
    <3> QED BY Zenon, <1>1, <1>5, <3>1, <3>2, <3>3 DEF Room
  <2> QED BY Zenon, <1>6, <2>1, <2>2, <2>3 DEF IsGiven
<1>7. CASE /\ p \in Live(H.md) /\ H.md[p].is_free
           /\ \E k \in Orders : bytes(k) >= MetaSize + size /\ IsTaken(H, r.heap, p, k)
  <2>1. PICK k \in Orders : bytes(k) >= MetaSize + size /\ IsTaken(H, r.heap, p, k)
    BY <1>7
  <2>2. /\ HeapOK(r.heap) /\ m2[p] = [order |-> k, is_free |-> FALSE]
        /\ Used(m2) = Used(H.md) \cup {p}
        /\ \A x \in Live(H.md) : x # p => m2[x] = H.md[x]
        /\ NoPairs(H.md) => NoPairs(m2)
    BY <2>1 DEF IsTaken
  <2>3. p \in Addr /\ p \notin Used(H.md) /\ p \notin MapIds /\ Used(H.md) \subseteq Live(H.md)
    BY <1>7, Places DEF Live, Used
  <2>4. \A g \in Handles : pt[g] # p
    BY <1>3, <2>3, Places
  <2>5. \A m \in MapIds : mp2[m] = mp[m]
    BY <1>1, <2>3
  <2> HIDE DEF p, m2
  <2>6. Owned(m2, mp2, pt2)
    <3>1. ASSUME NEW g \in Handles, pt2[g] # NULL
          PROVE  pt2[g] \in Used(m2) \/ (pt2[g] \in MapIds /\ mp2[pt2[g]] # 0)
      <4>1. CASE g = h
        BY <1>1, <2>2, <4>1
      <4>2. CASE g # h
        BY <1>1, <1>3, <2>2, <2>5, <3>1, <4>2
      <4> QED BY <4>1, <4>2
    <3>2. ASSUME NEW a \in Used(m2) PROVE \E g \in Handles : pt2[g] = a
      <4>1. CASE a = p
        BY <1>1, <4>1
      <4>2. CASE a # p
        BY <1>1, <1>3, <1>4, <2>2, <4>2, Places
      <4> QED BY <4>1, <4>2
    <3>3. \A m \in MapIds : mp2[m] # 0 => \E g \in Handles : pt2[g] = m
      BY <1>1, <1>3, <2>5, Places
    <3>4. \A f, g \in Handles : pt2[f] = pt2[g] /\ f # g => pt2[f] = NULL
      BY <1>1, <1>3, <2>4
    <3> QED BY <3>1, <3>2, <3>3, <3>4 DEF Owned
  <2>7. ASSUME NEW as \in [Handles -> Nat], NEW n \in Nat, Room(H.md, mp, pt, as), n <= size
        PROVE  Room(m2, mp2, pt2, [as EXCEPT ![h] = n])
    <3>1. bytes(k) >= n + MetaSize
      <4>1. bytes(k) \in Nat
        BY HeapAssumption, Malloc3Assumption, SizeFacts DEF bytes
      <4>2. \A u, v, w, z \in Nat : u >= v + w /\ z <= w => u >= z + v
        OBVIOUS
      <4> QED BY <1>2, <2>1, <2>7, <4>1, <4>2
    <3>2. ASSUME NEW g \in Handles, g # h
          PROVE  /\ pt2[g] \in Addr => bytes(m2[pt2[g]].order) >= as[g] + MetaSize
                 /\ pt2[g] \in MapIds => mp2[pt2[g]] >= as[g] + MetaSize
      <4>1. pt2[g] = pt[g] /\ pt[g] # p
        BY <1>1, <2>4, <3>2
      <4>2. pt[g] \in Addr => m2[pt[g]] = H.md[pt[g]]
        BY <1>3, <2>2, <2>3, <4>1, Places
      <4> QED BY Zenon, <2>5, <2>7, <4>1, <4>2 DEF Room
    <3>3. p \notin MapIds /\ bytes(m2[p].order) >= n + MetaSize
      <4>1. m2[p].order = k
        BY <2>2
      <4> QED BY <2>3, <3>1, <4>1
    <3> QED BY Zenon, <1>1, <1>5, <3>2, <3>3 DEF Room
  <2> QED BY Zenon, <2>2, <2>3, <2>4, <2>6, <2>7 DEF IsGiven, p, m2
<1> QED BY <1>6, <1>7 DEF IsSmalloc

(* Only the blocks in use matter to their holders. *)
LEMMA SameBlocks ==
    ASSUME NEW md, NEW md2, NEW mp, NEW pt, Owned(md, mp, pt), Used(md2) = Used(md),
           \A x \in Used(md) : md2[x] = md[x]
    PROVE  Owned(md2, mp, pt) /\ \A as : Room(md, mp, pt, as) => Room(md2, mp, pt, as)
<1>1. Owned(md2, mp, pt)
  BY DEF Owned
<1>2. \A h \in Handles : pt[h] \in Addr => pt[h] \in Used(md)
  BY Places DEF Owned
<1> QED BY <1>1, <1>2 DEF Room

(* Marking a block as free takes it from its owner. *)
LEMMA ReleaseFacts ==
    ASSUME NEW H, HeapOK(H), NoPairs(H.md), NEW mp \in [MapIds -> Nat],
           NEW pt \in [Handles -> Addr \cup MapIds \cup {NULL}],
           Owned(H.md, mp, pt), NEW h \in Handles, NEW p, p = pt[h], p \in Addr,
           NEW G, G = mark(H, p, TRUE), NEW pt1, pt1 = [pt EXCEPT ![h] = NULL]
    PROVE  IsReleased(H, G, mp, pt, pt1, p)
<1>1. /\ \A g \in Handles :
            pt[g] # NULL => pt[g] \in Used(H.md) \/ (pt[g] \in MapIds /\ mp[pt[g]] # 0)
      /\ \A a \in Used(H.md) : \E g \in Handles : pt[g] = a
      /\ \A m \in MapIds : mp[m] # 0 => \E g \in Handles : pt[g] = m
      /\ \A f, g \in Handles : pt[f] = pt[g] /\ f # g => pt[f] = NULL
  BY DEF Owned
<1>2. /\ pt1[h] = NULL /\ \A g \in Handles : g # h => pt1[g] = pt[g]
  OBVIOUS
<1>3. p \in Used(H.md) /\ p \in Live(H.md) /\ p # NULL /\ p \notin MapIds
  BY <1>1, Places DEF Used, Live
<1>4. IsMarked(H, G, p, TRUE)
  BY Zenon, <1>3, MarkFacts
<1>5. /\ HeapOK(G) /\ Live(G.md) = Live(H.md)
      /\ G.md[p] = [order |-> H.md[p].order, is_free |-> TRUE]
      /\ \A x \in Addr : x # p => G.md[x] = H.md[x]
      /\ \A x \in Addr : G.md[x].order = H.md[x].order
  BY Zenon, <1>4 DEF IsMarked
<1>6. G.md[p].is_free
  <2>1. \A n, y : y = [order |-> n, is_free |-> TRUE] => y.is_free
    OBVIOUS
  <2> QED BY Zenon, <1>5, <2>1
<1>7. Used(G.md) = Used(H.md) \ {p}
  <2>1. p \notin Used(G.md)
    BY Zenon, <1>6 DEF Used
  <2>2. \A x \in Addr : x # p => (x \in Used(G.md) <=> x \in Used(H.md))
    BY Zenon, <1>5 DEF Used
  <2>3. Used(G.md) \subseteq Addr /\ Used(H.md) \subseteq Addr
    BY Zenon DEF Used
  <2> QED BY Zenon, <2>1, <2>2, <2>3
<1>8. \A g \in Handles : g # h => pt[g] # p
  BY <1>1, <1>3
<1>9. Owned(G.md, mp, pt1)
  <2>1. ASSUME NEW g \in Handles, pt1[g] # NULL
        PROVE  pt1[g] \in Used(G.md) \/ (pt1[g] \in MapIds /\ mp[pt1[g]] # 0)
    <3>1. g # h /\ pt1[g] = pt[g] /\ pt[g] # p
      BY <1>2, <1>8, <2>1
    <3> QED BY Zenon, <1>1, <1>7, <2>1, <3>1
  <2>2. ASSUME NEW a \in Used(G.md) PROVE \E g \in Handles : pt1[g] = a
    <3>1. PICK g \in Handles : pt[g] = a
      BY Zenon, <1>1, <1>7
    <3>2. g # h
      BY Zenon, <1>7, <3>1
    <3> QED BY <1>2, <3>1, <3>2
  <2>3. ASSUME NEW m \in MapIds, mp[m] # 0 PROVE \E g \in Handles : pt1[g] = m
    <3>1. PICK g \in Handles : pt[g] = m
      BY <1>1, <2>3
    <3>2. g # h
      BY <1>3, <3>1
    <3> QED BY <1>2, <3>1, <3>2
  <2>4. \A f, g \in Handles : pt1[f] = pt1[g] /\ f # g => pt1[f] = NULL
    BY <1>1, <1>2
  <2> QED BY Zenon, <2>1, <2>2, <2>3, <2>4 DEF Owned
<1>10. ASSUME NEW as, Room(H.md, mp, pt, as) PROVE Room(G.md, mp, pt1, as)
  <2>1. \A g \in Handles : g = h => pt1[g] \notin Addr /\ pt1[g] \notin MapIds
    BY <1>2, Places
  <2> QED BY Zenon, <1>2, <1>5, <1>10, <2>1 DEF Room
<1>11. NoPairsBut(G.md, p)
  <2> SUFFICES ASSUME NEW x \in Live(G.md) \ {p}, G.md[x].is_free, G.md[x].order # MaxOrder,
                      NEW c, c = findNeighboringBlock(x, G.md[x].order), c # p,
                      G.md[c].is_free, G.md[c].order = G.md[x].order
               PROVE  FALSE
    BY Zenon DEF NoPairsBut
  <2>1. c \in Addr /\ x \in Addr /\ x \in Live(H.md)
    BY Zenon, <1>5, NeighbourFacts DEF HeapOK, Live
  <2>2. G.md[x] = H.md[x] /\ G.md[c] = H.md[c]
    BY Zenon, <1>5, <2>1
  <2>3. /\ H.md[x].is_free /\ H.md[x].order # MaxOrder /\ c = findNeighboringBlock(x, H.md[x].order)
        /\ H.md[c].is_free /\ H.md[c].order = H.md[x].order
    BY Zenon, <2>2
  <2> QED BY Zenon, <2>1, <2>3 DEF NoPairs
<1>12. ASSUME \/ H.md[p].order = MaxOrder
              \/ ~H.md[findNeighboringBlock(p, H.md[p].order)].is_free
       PROVE  NoPairs(G.md)
  <2> DEFINE n == findNeighboringBlock(p, H.md[p].order)
  <2> SUFFICES ASSUME NEW x \in Live(G.md), G.md[x].is_free, G.md[x].order # MaxOrder,
                      NEW c, c = findNeighboringBlock(x, G.md[x].order),
                      G.md[c].is_free, G.md[c].order = G.md[x].order
               PROVE  FALSE
    BY Zenon DEF NoPairs
  <2>0. x \in Addr /\ x \in Live(H.md) /\ Tiled(G.md)
    BY Zenon, <1>5 DEF HeapOK, Live
  <2>1. /\ c \in Addr /\ c # x /\ findNeighboringBlock(c, G.md[x].order) = x
    <3>1. IsNeighbour(x, c, G.md[x].order)
      BY Zenon, <2>0, NeighbourOf
    <3> QED BY Zenon, <3>1 DEF IsNeighbour
  <2>2. G.md[p].order = H.md[p].order /\ p \in Live(G.md)
    BY Zenon, <1>3, <1>5
  <2>4. CASE x = p
    <3>1. c = n /\ H.md[p].order # MaxOrder
      BY Zenon, <2>2, <2>4
    <3>2. G.md[c] = H.md[c]
      BY Zenon, <1>5, <2>1, <2>4
    <3> QED BY Zenon, <1>12, <3>1, <3>2
  <2>5. CASE c = p
    <3>1. x = n /\ H.md[p].order # MaxOrder
      BY Zenon, <2>1, <2>2, <2>5
    <3>2. G.md[x] = H.md[x]
      BY Zenon, <1>5, <2>0, <2>1, <2>5
    <3> QED BY Zenon, <1>12, <3>1, <3>2
  <2>6. CASE x # p /\ c # p
    <3>1. x \in Live(G.md) \ {p}
      BY Zenon, <2>6
    <3> QED BY Zenon, <1>11, <2>6, <3>1 DEF NoPairsBut
  <2> QED BY Zenon, <2>4, <2>5, <2>6
<1> QED BY Zenon, <1>3, <1>5, <1>6, <1>9, <1>10, <1>11, <1>12 DEF IsReleased

-----------------------------------------------------------------------------

(* Handing over a content leaves the others alone. *)
LEMMA DataGiven ==
    ASSUME NEW pt \in [Handles -> Addr \cup MapIds \cup {NULL}], NEW dt, NEW st,
           DOMAIN st = Handles, Idle(dt, pt), Kept(dt, pt, st), NEW h \in Handles,
           NEW p, Unheld(pt, p), NEW v,
           NEW dt2, NoWrap => dt2[p] = v, SameBut(dt, dt2, p),
           NEW pt2, pt2 = [pt EXCEPT ![h] = p], NEW st2, st2 = [st EXCEPT ![h] = v],
           pt[h] = NULL
    PROVE  Handed(dt, pt, st, h, p, v, dt2, pt2, st2)
<1>1. /\ pt2[h] = p /\ \A g \in Handles : g # h => pt2[g] = pt[g]
      /\ st2[h] = v /\ \A g \in Handles : g # h => st2[g] = st[g]
  OBVIOUS
<1>2. \A g \in Handles : pt[g] # NULL => pt[g] \in Addr \cup MapIds
  OBVIOUS
<1>3. Idle(dt2, pt2)
  <2> SUFFICES ASSUME NEW q \in Addr \cup MapIds, \A g \in Handles : pt2[g] # q
               PROVE  dt2[q] = Junk
    BY DEF Idle
  <2>1. q # p /\ q # NULL
    BY <1>1, Places
  <2>2. \A g \in Handles : pt[g] # q
    BY <1>1, <2>1
  <2> QED BY <2>1, <2>2 DEF Idle, SameBut
<1>4. Kept(dt2, pt2, st2)
  <2> SUFFICES ASSUME NoWrap, NEW g \in Handles, pt2[g] # NULL PROVE dt2[pt2[g]] = st2[g]
    BY DEF Kept
  <2>1. CASE g = h
    BY <1>1, <2>1
  <2>2. CASE g # h
    <3>1. pt2[g] = pt[g] /\ pt[g] # p /\ pt[g] \in Addr \cup MapIds /\ st2[g] = st[g]
      BY <1>1, <1>2, <2>2 DEF Unheld
    <3>2. dt[pt[g]] = st[g]
      BY <3>1 DEF Kept
    <3> QED BY <3>1, <3>2 DEF SameBut
  <2> QED BY <2>1, <2>2
<1> QED BY <1>3, <1>4 DEF Handed

(* Giving up a content leaves the others alone. *)
LEMMA DataReleased ==
    ASSUME NEW pt \in [Handles -> Addr \cup MapIds \cup {NULL}], NEW dt, NEW st, NEW h \in Handles,
           Idle(dt, pt), Kept(dt, pt, st),
           \A f, g \in Handles : pt[f] = pt[g] /\ f # g => pt[f] = NULL,
           NEW p, p = pt[h], p # NULL,
           NEW dt2, dt2[p] = Junk, SameBut(dt, dt2, p),
           NEW pt2, pt2 = [pt EXCEPT ![h] = NULL],
           NEW st2, \A g \in Handles : g # h => st2[g] = st[g]
    PROVE  Dropped(dt, pt, st, h, p, dt2, pt2, st2)
<1>1. pt2[h] = NULL /\ \A g \in Handles : g # h => pt2[g] = pt[g] /\ pt[g] # p
  OBVIOUS
<1>2. \A g \in Handles : pt[g] # NULL => pt[g] \in Addr \cup MapIds
  OBVIOUS
<1>3. Idle(dt2, pt2)
  <2> SUFFICES ASSUME NEW q \in Addr \cup MapIds, \A g \in Handles : pt2[g] # q, q # p
               PROVE  dt2[q] = Junk
    BY DEF Idle
  <2>1. \A g \in Handles : pt[g] # q
    BY <1>1
  <2> QED BY <2>1 DEF Idle, SameBut
<1>4. Kept(dt2, pt2, st2)
  <2> SUFFICES ASSUME NoWrap, NEW g \in Handles, pt2[g] # NULL PROVE dt2[pt2[g]] = st2[g]
    BY DEF Kept
  <2>1. g # h /\ pt2[g] = pt[g] /\ pt[g] # p /\ pt[g] \in Addr \cup MapIds /\ st2[g] = st[g]
    BY <1>1, <1>2
  <2>2. dt[pt[g]] = st[g]
    BY <2>1 DEF Kept
  <2> QED BY <2>1, <2>2 DEF SameBut
<1> QED BY <1>3, <1>4 DEF Dropped

(* smalloc gives out what nobody holds. *)
LEMMA GivenPlace ==
    ASSUME NEW H, NEW mp, NEW pt, NEW as, NEW dt, NEW st, Fine(H, mp, pt, as, dt, st),
           NEW h \in Handles, pt[h] = NULL, NEW size \in Nat,
           NEW r, IsSmalloc(H, mp, size, r), r.p # NULL
    PROVE  r.p \in Addr \cup MapIds /\ Unheld(pt, r.p) /\ dt[r.p] = Junk
<1> DEFINE mp2 == [m \in MapIds |-> IF m = r.p THEN MetaSize + size ELSE mp[m]]
           pt2 == [pt EXCEPT ![h] = r.p]
<1>1. /\ mp \in [MapIds -> Nat] /\ pt \in [Handles -> Addr \cup MapIds \cup {NULL}]
      /\ HeapOK(H) /\ Owned(H.md, mp, pt) /\ Idle(dt, pt)
  BY DEF Fine, TypesOf, Good
<1>2. IsGiven(H, mp, pt, h, size, r, mp2, pt2)
  BY Zenon, <1>1, GiveFacts
<1> QED BY <1>1, <1>2 DEF IsGiven, Unheld, Idle

(* smalloc, and what follows it in scalloc and srealloc, gives h the block *)
(* r.p for n bytes of content v.                                           *)
LEMMA GivenGood ==
    ASSUME NEW H, NEW mp, NEW pt, NEW as, NEW dt, NEW st, NEW h, NEW size, NEW n, NEW r,
           NEW v, NEW mp2, NEW pt2, NEW as2, NEW dt2, NEW st2,
           Request(H, mp, pt, as, dt, st, h, size, n, r, v, mp2, pt2, as2, dt2, st2)
    PROVE  Served(H, mp, pt, as, dt, st, h, size, n, r, v, mp2, pt2, as2, dt2, st2)
<1>0. /\ Fine(H, mp, pt, as, dt, st) /\ h \in Handles /\ pt[h] = NULL
      /\ size \in Nat /\ n \in Nat /\ (NoWrap => n <= size)
      /\ IsSmalloc(H, mp, size, r) /\ r.p # NULL
      /\ mp2 = [m \in MapIds |-> IF m = r.p THEN MetaSize + size ELSE mp[m]]
      /\ pt2 = [pt EXCEPT ![h] = r.p] /\ as2 = [as EXCEPT ![h] = n]
      /\ (NoWrap => dt2[r.p] = v) /\ SameBut(dt, dt2, r.p) /\ DOMAIN dt2 = DOMAIN dt
      /\ st2 = [st EXCEPT ![h] = v]
  BY DEF Request
<1>1. /\ mp \in [MapIds -> Nat] /\ pt \in [Handles -> Addr \cup MapIds \cup {NULL}]
      /\ as \in [Handles -> Nat] /\ DOMAIN dt = Addr \cup MapIds /\ DOMAIN st = Handles
  BY Zenon, <1>0 DEF Fine, TypesOf
<1>2. /\ HeapOK(H) /\ NoPairs(H.md) /\ Owned(H.md, mp, pt)
      /\ Idle(dt, pt) /\ Kept(dt, pt, st) /\ (NoWrap => Room(H.md, mp, pt, as))
  BY Zenon, <1>0 DEF Fine, Good
<1>3. IsGiven(H, mp, pt, h, size, r, mp2, pt2)
  BY Zenon, <1>0, <1>1, <1>2, GiveFacts
<1>4. /\ HeapOK(r.heap) /\ NoPairs(r.heap.md) /\ Owned(r.heap.md, mp2, pt2)
      /\ r.p \in Addr \cup MapIds /\ Unheld(pt, r.p)
  BY <1>2, <1>3 DEF IsGiven, Unheld
<1>5. NoWrap => Room(r.heap.md, mp2, pt2, as2)
  BY Zenon, <1>0, <1>1, <1>2, <1>3 DEF IsGiven
<1>6. Idle(dt2, pt2) /\ Kept(dt2, pt2, st2)
  <2>1. Handed(dt, pt, st, h, r.p, v, dt2, pt2, st2)
    BY Zenon, <1>0, <1>1, <1>2, <1>4, DataGiven
  <2> QED BY <2>1 DEF Handed
<1>7. TypesOf(mp2, pt2, as2, dt2, st2)
  <2>1. MetaSize + size \in Nat
    BY <1>0, HeapAssumption, Malloc3Assumption
  <2>2. mp2 \in [MapIds -> Nat]
    BY <1>0, <1>1, <2>1
  <2>3. pt2 \in [Handles -> Addr \cup MapIds \cup {NULL}] /\ as2 \in [Handles -> Nat]
    BY Zenon, <1>0, <1>1, <1>4
  <2>4. DOMAIN dt2 = Addr \cup MapIds /\ DOMAIN st2 = Handles
    BY <1>0, <1>1
  <2> QED BY <2>2, <2>3, <2>4 DEF TypesOf
<1> QED BY <1>4, <1>5, <1>6, <1>7 DEF Fine, Good, Served

(* How much a handle without a block asked for does not matter. *)
LEMMA RoomOthers ==
    ASSUME NEW md, NEW mp, NEW pt, NEW as, Room(md, mp, pt, as), NEW h \in Handles,
           pt[h] = NULL, NEW as2, \A g \in Handles : g # h => as2[g] = as[g]
    PROVE  SameRoom(md, mp, pt, as, h, as2)
<1>1. \A g \in Handles : pt[g] \in Addr \/ pt[g] \in MapIds => g # h
  BY Places
<1> QED BY Zenon, <1>1 DEF Room, SameRoom

(* A release leads from a good state to that one. *)
LEMMA ReleasedGood ==
    ASSUME NEW H, NEW mp, NEW pt, NEW as, NEW dt, NEW st, Fine(H, mp, pt, as, dt, st),
           NEW h \in Handles, NEW p, p = pt[h], p \in Addr,
           NEW G, G = mark(H, p, TRUE), NEW pt2, pt2 = [pt EXCEPT ![h] = NULL],
           NEW dt2, dt2[p] = Junk, SameBut(dt, dt2, p), DOMAIN dt2 = DOMAIN dt,
           NEW st2, \A g \in Handles : g # h => st2[g] = st[g], DOMAIN st2 = DOMAIN st
    PROVE  Between(H, G, mp, pt, as, dt, st, h, p, pt2, dt2, st2)
<1>1. /\ mp \in [MapIds -> Nat] /\ pt \in [Handles -> Addr \cup MapIds \cup {NULL}]
      /\ as \in [Handles -> Nat] /\ DOMAIN dt = Addr \cup MapIds /\ DOMAIN st = Handles
  BY Zenon DEF Fine, TypesOf
<1>2. /\ HeapOK(H) /\ NoPairs(H.md) /\ Owned(H.md, mp, pt)
      /\ Idle(dt, pt) /\ Kept(dt, pt, st) /\ (NoWrap => Room(H.md, mp, pt, as))
  BY Zenon DEF Fine, Good
<1>3. IsReleased(H, G, mp, pt, pt2, p)
  BY Zenon, <1>1, <1>2, ReleaseFacts
<1>4. p # NULL /\ \A f, g \in Handles : pt[f] = pt[g] /\ f # g => pt[f] = NULL
  BY <1>2, Places DEF Owned
<1>5. Idle(dt2, pt2) /\ Kept(dt2, pt2, st2)
  <2>1. Dropped(dt, pt, st, h, p, dt2, pt2, st2)
    BY Zenon, <1>1, <1>2, <1>4, DataReleased
  <2> QED BY <2>1 DEF Dropped
<1>6. TypesOf(mp, pt2, as, dt2, st2)
  BY Zenon, <1>1 DEF TypesOf
<1> QED BY Zenon, <1>2, <1>3, <1>5, <1>6 DEF IsReleased, Between

(* sfree of a block of the heap. *)
LEMMA FreedGood ==
    ASSUME NEW H, NEW mp, NEW pt, NEW as, NEW dt, NEW st, Fine(H, mp, pt, as, dt, st),
           NEW h \in Handles, NEW p, p = pt[h], p \in Addr,
           NEW c, c = coalesce(mark(H, p, TRUE), p), ~c.bad,
           NEW pt2, pt2 = [pt EXCEPT ![h] = NULL], NEW as2, as2 = [as EXCEPT ![h] = 0],
           NEW dt2, dt2 = [dt EXCEPT ![p] = Junk], NEW st2, st2 = [st EXCEPT ![h] = Junk]
    PROVE  Freed(H, mp, pt, as, dt, st, h, p, c, pt2, as2, dt2, st2)
<1> DEFINE G == mark(H, p, TRUE)
<1>1. /\ pt \in [Handles -> Addr \cup MapIds \cup {NULL}] /\ as \in [Handles -> Nat]
      /\ DOMAIN dt = Addr \cup MapIds /\ DOMAIN st = Handles
  BY Zenon DEF Fine, TypesOf
<1>2. /\ dt2[p] = Junk /\ SameBut(dt, dt2, p) /\ DOMAIN dt2 = DOMAIN dt
      /\ \A g \in Handles : g # h => st2[g] = st[g]
      /\ DOMAIN st2 = DOMAIN st
  BY <1>1 DEF SameBut
<1> HIDE DEF G
<1>3. /\ TypesOf(mp, pt2, as, dt2, st2) /\ IsReleased(H, G, mp, pt, pt2, p)
      /\ Idle(dt2, pt2) /\ Kept(dt2, pt2, st2)
      /\ NoWrap => Room(G.md, mp, pt2, as)
  <2>1. G = mark(H, p, TRUE)
    BY DEF G
  <2>2. Between(H, G, mp, pt, as, dt, st, h, p, pt2, dt2, st2)
    BY Zenon, <1>2, <2>1, ReleasedGood
  <2> QED BY Zenon, <2>2 DEF Between
<1>4. /\ HeapOK(G) /\ p \in Live(G.md) /\ G.md[p].is_free /\ NoPairsBut(G.md, p)
      /\ Owned(G.md, mp, pt2)
  BY <1>3 DEF IsReleased
<1>5. IsFreed(G, c)
  BY Zenon, <1>4, CoalesceFacts DEF G
<1>6. /\ HeapOK(c.heap) /\ NoPairs(c.heap.md) /\ Used(c.heap.md) = Used(G.md)
      /\ \A x \in Used(G.md) : c.heap.md[x] = G.md[x]
  BY Zenon, <1>5 DEF IsFreed
<1>7. /\ Owned(c.heap.md, mp, pt2)
      /\ NoWrap => Room(c.heap.md, mp, pt2, as)
  BY Zenon, <1>3, <1>4, <1>6, SameBlocks
<1>8. pt2[h] = NULL /\ \A g \in Handles : g # h => as2[g] = as[g]
  BY <1>1
<1>9. NoWrap => Room(c.heap.md, mp, pt2, as2)
  <2>1. SUFFICES ASSUME NoWrap PROVE Room(c.heap.md, mp, pt2, as2)
    BY Zenon
  <2> DEFINE md == c.heap.md
  <2>2. Room(md, mp, pt2, as)
    BY Zenon, <1>7, <2>1
  <2> HIDE DEF md
  <2>3. SameRoom(md, mp, pt2, as, h, as2)
    BY Zenon, <1>8, <2>2, RoomOthers
  <2> QED BY Zenon, <2>3 DEF SameRoom, md
<1>10. TypesOf(mp, pt2, as2, dt2, st2)
  BY Zenon, <1>1, <1>3 DEF TypesOf
<1> QED BY Zenon, <1>3, <1>6, <1>7, <1>9, <1>10 DEF Fine, Good, Freed

(* sfree of a mapped block. *)
LEMMA UnmappedGood ==
    ASSUME NEW H, NEW mp, NEW pt, NEW as, NEW dt, NEW st, Fine(H, mp, pt, as, dt, st),
           NEW h \in Handles, NEW p, p = pt[h], p \in MapIds,
           NEW mp2, mp2 = [mp EXCEPT ![p] = 0],
           NEW pt2, pt2 = [pt EXCEPT ![h] = NULL], NEW as2, as2 = [as EXCEPT ![h] = 0],
           NEW dt2, dt2 = [dt EXCEPT ![p] = Junk], NEW st2, st2 = [st EXCEPT ![h] = Junk]
    PROVE  Unmapped(H, mp, pt, as, dt, st, h, p, mp2, pt2, as2, dt2, st2)
<1>1. /\ mp \in [MapIds -> Nat] /\ pt \in [Handles -> Addr \cup MapIds \cup {NULL}]
      /\ as \in [Handles -> Nat] /\ DOMAIN dt = Addr \cup MapIds /\ DOMAIN st = Handles
  BY Zenon DEF Fine, TypesOf
<1>2. /\ HeapOK(H) /\ NoPairs(H.md) /\ Owned(H.md, mp, pt)
      /\ Idle(dt, pt) /\ Kept(dt, pt, st) /\ (NoWrap => Room(H.md, mp, pt, as))
  BY Zenon DEF Fine, Good
<1>3. /\ dt2[p] = Junk /\ SameBut(dt, dt2, p) /\ DOMAIN dt2 = DOMAIN dt
      /\ \A g \in Handles : g # h => st2[g] = st[g]
      /\ DOMAIN st2 = DOMAIN st
  BY <1>1 DEF SameBut
<1>4. /\ p # NULL /\ p \notin Addr
      /\ \A f, g \in Handles : pt[f] = pt[g] /\ f # g => pt[f] = NULL
      /\ \A g \in Handles :
            pt[g] # NULL => pt[g] \in Used(H.md) \/ (pt[g] \in MapIds /\ mp[pt[g]] # 0)
      /\ \A a \in Used(H.md) : a \in Addr /\ \E g \in Handles : pt[g] = a
      /\ \A m \in MapIds : mp[m] # 0 => \E g \in Handles : pt[g] = m
  BY <1>2, Places DEF Owned, Used
<1>5. Idle(dt2, pt2) /\ Kept(dt2, pt2, st2)
  <2>1. Dropped(dt, pt, st, h, p, dt2, pt2, st2)
    BY Zenon, <1>1, <1>2, <1>3, <1>4, DataReleased
  <2> QED BY <2>1 DEF Dropped
<1>6. /\ pt2[h] = NULL /\ \A g \in Handles : g # h => pt2[g] = pt[g] /\ pt[g] # p
      /\ mp2[p] = 0 /\ \A m \in MapIds : m # p => mp2[m] = mp[m]
      /\ \A g \in Handles : g # h => as2[g] = as[g]
  BY <1>1, <1>4
<1>7. Owned(H.md, mp2, pt2)
  <2>1. \A g \in Handles :
           pt2[g] # NULL => pt2[g] \in Used(H.md) \/ (pt2[g] \in MapIds /\ mp2[pt2[g]] # 0)
    BY <1>4, <1>6
  <2>2. \A a \in Used(H.md) : \E g \in Handles : pt2[g] = a
    BY <1>4, <1>6
  <2>3. \A m \in MapIds : mp2[m] # 0 => \E g \in Handles : pt2[g] = m
    BY <1>4, <1>6
  <2>4. \A f, g \in Handles : pt2[f] = pt2[g] /\ f # g => pt2[f] = NULL
    BY <1>4, <1>6
  <2> QED BY <2>1, <2>2, <2>3, <2>4 DEF Owned
<1>8. NoWrap => Room(H.md, mp2, pt2, as)
  <2>1. pt2[h] \notin Addr /\ pt2[h] \notin MapIds
    BY <1>6, Places
  <2> SUFFICES ASSUME NoWrap, NEW g \in Handles
               PROVE  /\ pt2[g] \in Addr => bytes(H.md[pt2[g]].order) >= as[g] + MetaSize
                      /\ pt2[g] \in MapIds => mp2[pt2[g]] >= as[g] + MetaSize
    BY Zenon DEF Room
  <2>2. CASE g = h
    BY Zenon, <2>1, <2>2
  <2>3. CASE g # h
    <3>1. pt2[g] = pt[g] /\ (pt[g] \in MapIds => mp2[pt[g]] = mp[pt[g]])
      BY Zenon, <1>6, <2>3
    <3>2. /\ pt[g] \in Addr => bytes(H.md[pt[g]].order) >= as[g] + MetaSize
          /\ pt[g] \in MapIds => mp[pt[g]] >= as[g] + MetaSize
      BY Zenon, <1>2 DEF Room
    <3> QED BY Zenon, <3>1, <3>2
  <2> QED BY Zenon, <2>2, <2>3
<1>9. NoWrap => Room(H.md, mp2, pt2, as2)
  <2>1. SUFFICES ASSUME NoWrap PROVE Room(H.md, mp2, pt2, as2)
    OBVIOUS
  <2> DEFINE md == H.md
  <2>2. Room(md, mp2, pt2, as)
    BY Zenon, <1>8, <2>1
  <2> HIDE DEF md
  <2>3. SameRoom(md, mp2, pt2, as, h, as2)
    BY Zenon, <1>6, <2>2, RoomOthers
  <2> QED BY <2>3 DEF SameRoom, md
<1>10. TypesOf(mp2, pt2, as2, dt2, st2)
  BY Zenon, <1>1, <1>3 DEF TypesOf
<1> QED BY <1>2, <1>5, <1>7, <1>9, <1>10 DEF Fine, Good, Unmapped

(* srealloc in place. *)
LEMMA GrownGood ==
    ASSUME NEW H, NEW mp, NEW pt, NEW as, NEW dt, NEW st, Fine(H, mp, pt, as, dt, st),
           NEW h \in Handles, pt[h] \in Addr, NEW size \in Nat,
           NEW n \in Nat, NoWrap => n = size + MetaSize,
           NEW g, g = absorb(H, pt[h], n), ~g.bad,
           NEW as2, as2 = [as EXCEPT ![h] = size]
    PROVE  GrewTo(H, mp, pt, as, dt, st, h, size, n, g, as2)
<1> DEFINE p == pt[h]
<1>1. /\ mp \in [MapIds -> Nat] /\ pt \in [Handles -> Addr \cup MapIds \cup {NULL}]
      /\ as \in [Handles -> Nat] /\ DOMAIN dt = Addr \cup MapIds /\ DOMAIN st = Handles
  BY Zenon DEF Fine, TypesOf
<1>2. /\ HeapOK(H) /\ NoPairs(H.md) /\ Owned(H.md, mp, pt)
      /\ Idle(dt, pt) /\ Kept(dt, pt, st) /\ (NoWrap => Room(H.md, mp, pt, as))
  BY Zenon DEF Fine, Good
<1>3. \A f \in Handles : pt[f] \in Addr => pt[f] \in Used(H.md) /\ (f # h => pt[f] # p)
  BY <1>2, Places DEF Owned
<1>4. p \in Used(H.md)
  BY Zenon, <1>3
<1>5. Grown(H, H, p)
  BY Zenon, <1>2, <1>4 DEF Grown, Used, Live
<1> HIDE DEF p
<1>7. /\ IsGrowth(H, g, p)
      /\ g.bad = FALSE => bytes(g.heap.md[p].order) >= n
  <2>1. g = absorb(H, p, n)
    BY DEF p
  <2> QED BY Zenon, <1>5, <2>1, AbsorbFacts
<1>8. g.bad = FALSE
  BY <1>7 DEF IsGrowth
<1>9. /\ HeapOK(g.heap) /\ NoPairs(g.heap.md) /\ Used(g.heap.md) = Used(H.md)
      /\ \A x \in Used(H.md) : x # p => g.heap.md[x] = H.md[x]
      /\ NoWrap => bytes(g.heap.md[p].order) >= size + MetaSize
  <2>1. /\ HeapOK(g.heap) /\ NoPairs(g.heap.md) /\ Used(g.heap.md) = Used(H.md)
        /\ \A x \in Used(H.md) : x # p => g.heap.md[x] = H.md[x]
    BY Zenon, <1>7, <1>8 DEF IsGrowth, Grown
  <2>2. NoWrap => bytes(g.heap.md[p].order) >= size + MetaSize
    BY Zenon, <1>7, <1>8
  <2> QED BY Zenon, <2>1, <2>2
<1>10. Owned(g.heap.md, mp, pt)
  BY Zenon, <1>2, <1>9 DEF Owned
<1>11. NoWrap => Room(g.heap.md, mp, pt, as2)
  <2>1. SUFFICES ASSUME NoWrap, NEW f \in Handles
                 PROVE  /\ pt[f] \in Addr => bytes(g.heap.md[pt[f]].order) >= as2[f] + MetaSize
                        /\ pt[f] \in MapIds => mp[pt[f]] >= as2[f] + MetaSize
    BY Zenon DEF Room
  <2>2. CASE f = h
    <3>1. as2[f] = size /\ pt[f] = p /\ p \notin MapIds
      BY <1>1, <2>2, Places DEF p
    <3> QED BY Zenon, <1>9, <2>1, <3>1
  <2>3. CASE f # h
    <3>1. as2[f] = as[f] /\ (pt[f] \in Addr => g.heap.md[pt[f]] = H.md[pt[f]])
      BY <1>1, <1>3, <1>9, <2>3
    <3> QED BY Zenon, <1>2, <2>1, <3>1 DEF Room
  <2> QED BY Zenon, <2>2, <2>3
<1>12. TypesOf(mp, pt, as2, dt, st)
  BY Zenon, <1>1 DEF TypesOf
<1> QED BY Zenon, <1>2, <1>9, <1>10, <1>11, <1>12 DEF Fine, Good, GrewTo

(* srealloc that finds the block large enough. *)
LEMMA KeptGood ==
    ASSUME NEW H, NEW mp, NEW pt, NEW as, NEW dt, NEW st, Fine(H, mp, pt, as, dt, st),
           NEW h \in Handles, pt[h] \in Addr, NEW size \in Nat,
           NEW n, NoWrap => n = size + MetaSize, bytes(H.md[pt[h]].order) >= n,
           NEW as2, as2 = [as EXCEPT ![h] = size]
    PROVE  Stayed(H, mp, pt, as, dt, st, h, size, n, as2)
<1>1. as \in [Handles -> Nat]
  BY Zenon DEF Fine, TypesOf
<1>2. ASSUME NoWrap, Room(H.md, mp, pt, as) PROVE Room(H.md, mp, pt, as2)
  <2>1. as2[h] = size /\ pt[h] \notin MapIds
    BY <1>1, Places
  <2>2. \A f \in Handles : f # h => as2[f] = as[f]
    BY <1>1
  <2> QED BY Zenon, <1>2, <2>1, <2>2 DEF Room
<1>3. TypesOf(mp, pt, as2, dt, st)
  BY Zenon, <1>1 DEF Fine, TypesOf
<1> QED BY Zenon, <1>2, <1>3 DEF Fine, Good, Stayed

(* The caller writes to its memory. *)
LEMMA WrittenGood ==
    ASSUME NEW H, NEW mp, NEW pt, NEW as, NEW dt, NEW st, Fine(H, mp, pt, as, dt, st),
           NEW h \in Handles, pt[h] # NULL, NEW v,
           NEW dt2, dt2 = [dt EXCEPT ![pt[h]] = v], NEW st2, st2 = [st EXCEPT ![h] = v]
    PROVE  Written(H, mp, pt, as, dt, st, h, v, dt2, st2)
<1>1. /\ pt \in [Handles -> Addr \cup MapIds \cup {NULL}]
      /\ DOMAIN dt = Addr \cup MapIds /\ DOMAIN st = Handles
      /\ Owned(H.md, mp, pt) /\ Idle(dt, pt) /\ Kept(dt, pt, st)
  BY DEF Fine, TypesOf, Good
<1>2. dt2[pt[h]] = v /\ \A q \in Addr \cup MapIds : q # pt[h] => dt2[q] = dt[q]
  BY <1>1
<1>3. st2[h] = v /\ \A g \in Handles : g # h => st2[g] = st[g]
  BY <1>1
<1>4. \A g \in Handles : g # h /\ pt[g] # NULL => pt[g] # pt[h]
  BY <1>1 DEF Owned
<1>5. Idle(dt2, pt)
  BY <1>1, <1>2 DEF Idle
<1>6. Kept(dt2, pt, st2)
  BY <1>1, <1>2, <1>3, <1>4 DEF Kept
<1>7. DOMAIN dt2 = Addr \cup MapIds /\ DOMAIN st2 = Handles
  BY <1>1
<1> QED BY Zenon, <1>5, <1>6, <1>7 DEF Fine, TypesOf, Good, Written

(* srealloc to a new block.  The old one is free again, and its content    *)
(* is with h at its new place.                                             *)
LEMMA MovedGood ==
    ASSUME NEW H, NEW mp, NEW pt, NEW as, NEW dt, NEW st, Fine(H, mp, pt, as, dt, st),
           NEW h \in Handles, NEW p, p = pt[h], p \in Addr, NEW size \in Nat,
           bytes(H.md[p].order) < size + MetaSize,
           \/ H.md[p].order = MaxOrder
           \/ ~H.md[findNeighboringBlock(p, H.md[p].order)].is_free,
           NEW G, G = mark(H, p, TRUE), NEW r, IsSmalloc(G, mp, size, r), r.p # NULL,
           NEW mp2, mp2 = [m \in MapIds |-> IF m = r.p THEN MetaSize + size ELSE mp[m]],
           NEW pt2, pt2 = [pt EXCEPT ![h] = r.p], NEW as2, as2 = [as EXCEPT ![h] = size],
           NEW dt2, dt2 = [dt EXCEPT ![r.p] = dt[p], ![p] = Junk],
           NEW st2, st2 = [st EXCEPT ![h] = st[h]]
    PROVE  Moved(H, G, mp, pt, as, dt, st, h, p, size, r, mp2, pt2, as2, dt2, st2)
<1> DEFINE pt1 == [pt EXCEPT ![h] = NULL]
           dt1 == [dt EXCEPT ![p] = Junk]
<1>1. /\ pt \in [Handles -> Addr \cup MapIds \cup {NULL}] /\ as \in [Handles -> Nat]
      /\ DOMAIN dt = Addr \cup MapIds /\ DOMAIN st = Handles
      /\ Kept(dt, pt, st)
  BY Zenon DEF Fine, TypesOf, Good
<1>2. /\ dt1[p] = Junk /\ SameBut(dt, dt1, p) /\ DOMAIN dt1 = DOMAIN dt
      /\ \A q \in Addr \cup MapIds : q # p => dt1[q] = dt[q]
  BY <1>1 DEF SameBut
<1>3. pt1[h] = NULL /\ [pt1 EXCEPT ![h] = r.p] = pt2
  BY <1>1
<1>4. pt1 = [pt EXCEPT ![h] = NULL]
  OBVIOUS
<1>5. NoWrap => dt[p] = st[h]
  BY <1>1, Places DEF Kept
<1> HIDE DEF pt1, dt1
<1>6. /\ TypesOf(mp, pt1, as, dt1, st) /\ IsReleased(H, G, mp, pt, pt1, p)
      /\ Idle(dt1, pt1) /\ Kept(dt1, pt1, st)
      /\ NoWrap => Room(G.md, mp, pt1, as)
  <2>1. Between(H, G, mp, pt, as, dt, st, h, p, pt1, dt1, st)
    BY Zenon, <1>2, <1>4, ReleasedGood
  <2> QED BY Zenon, <2>1 DEF Between
<1>7. HeapOK(G) /\ G.md[p].order = H.md[p].order /\ Owned(G.md, mp, pt1) /\ NoPairs(G.md)
  BY Zenon, <1>6 DEF IsReleased
<1>8. Fine(G, mp, pt1, as, dt1, st)
  BY Zenon, <1>6, <1>7 DEF Fine, Good
<1>9. r.p \in Addr \cup MapIds /\ Unheld(pt1, r.p)
  BY Zenon, <1>3, <1>8, GivenPlace
<1>10. r.p # p
  <2>1. CASE r.p \in MapIds
    BY <2>1, Places
  <2>2. CASE bytes(G.md[r.p].order) >= MetaSize + size
    <3> DEFINE n == bytes(H.md[p].order)
    <3>1. H.md[p].order \in Orders
      <4>1. HeapOK(H) /\ p \in Used(H.md)
        BY <1>1, Places DEF Fine, Good, Owned
      <4> QED BY <4>1, BlockFacts DEF HeapOK, Used, Live
    <3>2. n \in Int
      BY <3>1, SizeFacts, HeapAssumption, Malloc3Assumption DEF bytes
    <3>3. n < size + MetaSize
      OBVIOUS
    <3>4. r.p = p => n >= MetaSize + size
      BY Zenon, <1>7, <2>2
    <3> HIDE DEF n
    <3> QED BY <3>2, <3>3, <3>4, HeapAssumption, Malloc3Assumption
  <2> QED BY Zenon, <2>1, <2>2 DEF IsSmalloc
<1>11. (NoWrap => dt2[r.p] = st[h]) /\ dt2[p] = Junk /\ DOMAIN dt2 = DOMAIN dt1
  BY <1>1, <1>2, <1>5, <1>9, <1>10
<1>12. SameBut(dt1, dt2, r.p)
  BY <1>1, <1>2, <1>9, <1>10, <1>11 DEF SameBut
<1> DEFINE v == st[h]
<1>13. (NoWrap => dt2[r.p] = v) /\ st2 = [st EXCEPT ![h] = v] /\ pt2 = [pt1 EXCEPT ![h] = r.p]
  BY <1>3, <1>11
<1>14. size <= size /\ DOMAIN dt2 = DOMAIN dt1
  BY <1>11
<1> HIDE DEF v
<1>15. Request(G, mp, pt1, as, dt1, st, h, size, size, r, v, mp2, pt2, as2, dt2, st2)
  BY Zenon, <1>3, <1>8, <1>12, <1>13, <1>14 DEF Request
<1>16. Served(G, mp, pt1, as, dt1, st, h, size, size, r, v, mp2, pt2, as2, dt2, st2)
  BY Zenon, <1>15, GivenGood
<1> QED BY <1>16 DEF Served, Moved

-----------------------------------------------------------------------------

(* The allocator starts with it. *)
LEMMA Malloc3Starts == Init => Malloc3Inv
<1> SUFFICES ASSUME Init PROVE Malloc3Inv
  OBVIOUS
<1>1. HeapNow = firstHeap /\ firstMalloc = TRUE
  BY DEF Init, HeapNow
<1>2. /\ mapped = [m \in MapIds |-> 0] /\ ptr = [h \in Handles |-> NULL]
      /\ asked = [h \in Handles |-> 0] /\ data = [p \in Addr \cup MapIds |-> Junk]
      /\ stored = [h \in Handles |-> Junk]
  BY DEF Init
<1>3. TypesOf(mapped, ptr, asked, data, stored)
  BY <1>2 DEF TypesOf
<1>4. HeapOK(firstHeap) /\ NoPairs(firstHeap.md) /\ Used(firstHeap.md) = {}
  BY FirstHeapFacts
<1>5. Owned(firstHeap.md, mapped, ptr) /\ Room(firstHeap.md, mapped, ptr, asked)
  <2>1. \A h \in Handles : ptr[h] = NULL /\ ptr[h] \notin Addr /\ ptr[h] \notin MapIds
    BY <1>2, Places
  <2>2. \A m \in MapIds : mapped[m] = 0
    BY <1>2
  <2> QED BY <1>4, <2>1, <2>2 DEF Owned, Room
<1>6. Idle(data, ptr) /\ Kept(data, ptr, stored)
  BY <1>2 DEF Idle, Kept
<1>7. Fine(HeapNow, mapped, ptr, asked, data, stored)
  BY <1>1, <1>3, <1>4, <1>5, <1>6 DEF Fine, Good
<1>8. (\A a \in Addr : heap.md[a] = NoMD) /\ \A h \in Handles : ptr[h] = NULL
  BY DEF Init
<1> QED BY <1>1, <1>7, <1>8 DEF Malloc3Inv

(* Whoever holds memory finds the heap set up. *)
LEMMA HolderFacts ==
    ASSUME Malloc3Inv, bad = "no", NEW h \in Handles, ptr[h] # NULL
    PROVE  firstMalloc = FALSE /\ Fine(heap, mapped, ptr, asked, data, stored)
BY DEF Malloc3Inv, HeapNow

(* After the first call the invariant is about the heap as it is. *)
LEMMA LaterInv ==
    ASSUME firstMalloc' = FALSE,
           bad' = "no" => Fine(heap', mapped', ptr', asked', data', stored')
    PROVE  Malloc3Inv'
<1>1. HeapNow' = heap'
  BY DEF HeapNow
<1> QED BY Zenon, <1>1 DEF Malloc3Inv

(* smalloc keeps the invariant. *)
LEMMA SmallocStep ==
    ASSUME Malloc3Inv, bad = "no", NEW h \in Handles, NEW size \in Sizes, smalloc(h, size)
    PROVE  Malloc3Inv'
<1> DEFINE H == HeapNow
<1>1. Fine(H, mapped, ptr, asked, data, stored)
  BY DEF Malloc3Inv
<1>2. ptr[h] = NULL /\ firstMalloc' = FALSE /\ data' = data /\ size \in Nat
  BY HeapAssumption, Malloc3Assumption DEF smalloc
<1>3. PICK r \in Smalloc(H, size) :
         /\ heap' = r.heap /\ mapIn(r.p, size)
         /\ IF r.p = NULL THEN UNCHANGED <<ptr, asked, stored>>
            ELSE give(h, r.p, size, Junk)
  BY DEF smalloc
<1>4. HeapOK(H) /\ mapped \in [MapIds -> Nat] /\ DOMAIN data = Addr \cup MapIds
  BY <1>1 DEF Fine, Good, TypesOf
<1> HIDE DEF H
<1>5. IsSmalloc(H, mapped, size, r)
  BY <1>4, SmallocFacts
<1>6. mapped' = [m \in MapIds |-> IF m = r.p THEN MetaSize + size ELSE mapped[m]]
  BY <1>3 DEF mapIn
<1>7. CASE r.p = NULL
  <2>1. r.heap = H
    BY <1>5, <1>7, Places DEF IsSmalloc, Live
  <2>2. mapped' = mapped
    BY <1>4, <1>6, <1>7, Places
  <2>3. Fine(heap', mapped', ptr', asked', data', stored')
    BY <1>1, <1>2, <1>3, <1>7, <2>1, <2>2
  <2> QED BY Zenon, <1>2, <2>3, LaterInv
<1>8. CASE r.p # NULL
  <2>1. /\ ptr' = [ptr EXCEPT ![h] = r.p] /\ asked' = [asked EXCEPT ![h] = size]
        /\ stored' = [stored EXCEPT ![h] = Junk]
    BY <1>3, <1>8 DEF give
  <2>2. data[r.p] = Junk
    BY <1>1, <1>2, <1>5, <1>8, GivenPlace
  <2>3. Request(H, mapped, ptr, asked, data, stored, h, size, size, r, Junk,
                mapped', ptr', asked', data', stored')
    BY <1>1, <1>2, <1>5, <1>6, <1>8, <2>1, <2>2 DEF Request, SameBut
  <2>4. Served(H, mapped, ptr, asked, data, stored, h, size, size, r, Junk,
               mapped', ptr', asked', data', stored')
    BY <2>3, GivenGood
  <2>5. Fine(heap', mapped', ptr', asked', data', stored')
    BY <1>3, <2>4 DEF Served
  <2> QED BY Zenon, <1>2, <2>5, LaterInv
<1> QED BY <1>7, <1>8

(* scalloc keeps the invariant. *)
LEMMA ScallocStep ==
    ASSUME Malloc3Inv, bad = "no", NEW h \in Handles, NEW num \in Counts,
           NEW size \in Sizes, scalloc(h, num, size), vars' # vars
    PROVE  Malloc3Inv'
<1> DEFINE H == HeapNow
           n == size * num
           tot_size == n % Word
<1>1. Fine(H, mapped, ptr, asked, data, stored)
  BY DEF Malloc3Inv
<1>2. n \in Nat /\ tot_size \in Nat
  BY HeapAssumption, Malloc3Assumption
<1>3. NoWrap => n = tot_size
  <2>1. NoWrap => n < Word
    BY DEF NoWrap
  <2>2. \A x, w \in Nat : x < w => x % w = x
    BY SMT
  <2> HIDE DEF n
  <2> QED BY <1>2, <2>1, <2>2, HeapAssumption, Malloc3Assumption
<1>4. ptr[h] = NULL /\ firstMalloc' = FALSE
  BY DEF scalloc
<1>5. PICK r \in Smalloc(H, tot_size) :
         /\ heap' = r.heap /\ mapIn(r.p, tot_size)
         /\ IF r.p = NULL THEN UNCHANGED <<ptr, asked, data, stored>>
            ELSE /\ data' = [data EXCEPT ![r.p] = cleared(r.p, tot_size, n)]
                 /\ give(h, r.p, n, Zero)
  BY DEF scalloc
<1>6. HeapOK(H) /\ mapped \in [MapIds -> Nat] /\ DOMAIN data = Addr \cup MapIds
  BY <1>1 DEF Fine, Good, TypesOf
<1> HIDE DEF H, n, tot_size
<1>7. IsSmalloc(H, mapped, tot_size, r)
  BY <1>6, SmallocFacts
<1>8. mapped' = [m \in MapIds |-> IF m = r.p THEN MetaSize + tot_size ELSE mapped[m]]
  BY <1>5 DEF mapIn
<1>9. CASE r.p = NULL
  <2>1. r.heap = H
    BY <1>7, <1>9, Places DEF IsSmalloc, Live
  <2>2. mapped' = mapped
    BY <1>6, <1>8, <1>9, Places
  <2>3. Fine(heap', mapped', ptr', asked', data', stored')
    BY <1>1, <1>5, <1>9, <2>1, <2>2
  <2> QED BY Zenon, <1>4, <2>3, LaterInv
<1>10. CASE r.p # NULL
  <2>1. /\ ptr' = [ptr EXCEPT ![h] = r.p] /\ asked' = [asked EXCEPT ![h] = n]
        /\ data' = [data EXCEPT ![r.p] = cleared(r.p, tot_size, n)]
        /\ stored' = [stored EXCEPT ![h] = Zero]
    BY <1>5, <1>10 DEF give
  <2>2. r.p \in Addr \cup MapIds
    BY <1>1, <1>2, <1>4, <1>7, <1>10, GivenPlace
  <2>3. /\ data'[r.p] = cleared(r.p, tot_size, n)
        /\ SameBut(data, data', r.p) /\ DOMAIN data' = DOMAIN data
    BY <1>6, <2>1, <2>2 DEF SameBut
  <2>a. (NoWrap => data'[r.p] = Zero) /\ (NoWrap => n <= tot_size)
    BY <1>2, <1>3, <2>3 DEF cleared
  <2>4. Request(H, mapped, ptr, asked, data, stored, h, tot_size, n, r, Zero,
                mapped', ptr', asked', data', stored')
    BY Zenon, <1>1, <1>2, <1>4, <1>7, <1>8, <1>10, <2>1, <2>3, <2>a DEF Request
  <2>5. Served(H, mapped, ptr, asked, data, stored, h, tot_size, n, r, Zero,
               mapped', ptr', asked', data', stored')
    BY <2>4, GivenGood
  <2>6. Fine(heap', mapped', ptr', asked', data', stored')
    BY <1>5, <2>5 DEF Served
  <2> QED BY Zenon, <1>4, <2>6, LaterInv
<1> QED BY <1>9, <1>10

(* sfree keeps the invariant. *)
LEMMA SfreeStep ==
    ASSUME Malloc3Inv, bad = "no", NEW h \in Handles, sfree(h)
    PROVE  Malloc3Inv'
<1> DEFINE p == ptr[h]
           c == coalesce(mark(heap, p, TRUE), p)
<1>1. p # NULL /\ firstMalloc' = firstMalloc
  BY DEF sfree
<1>2. firstMalloc = FALSE /\ Fine(heap, mapped, ptr, asked, data, stored)
  BY Zenon, <1>1, HolderFacts
<1>3. /\ ptr' = [ptr EXCEPT ![h] = NULL] /\ asked' = [asked EXCEPT ![h] = 0]
      /\ data' = [data EXCEPT ![p] = Junk] /\ stored' = [stored EXCEPT ![h] = Junk]
  BY DEF sfree, give
<1>4. p \in Addr \/ p \in MapIds
  BY <1>1, <1>2 DEF Fine, TypesOf
<1>5. CASE p \in MapIds
  <2>1. mapped' = [mapped EXCEPT ![p] = 0] /\ heap' = heap
    BY <1>5 DEF sfree
  <2>2. p = ptr[h]
    OBVIOUS
  <2> HIDE DEF p
  <2>3. Unmapped(heap, mapped, ptr, asked, data, stored, h, p,
                 mapped', ptr', asked', data', stored')
    BY Zenon, <1>2, <1>3, <1>5, <2>1, <2>2, UnmappedGood
  <2>4. Fine(heap', mapped', ptr', asked', data', stored')
    BY <2>1, <2>3 DEF Unmapped
  <2> QED BY Zenon, <1>1, <1>2, <2>4, LaterInv
<1>6. CASE p \in Addr
  <2>1. /\ heap' = c.heap /\ mapped' = mapped
        /\ bad' = IF c.bad THEN "sfree" ELSE bad
    BY Zenon, <1>6, Places DEF sfree
  <2>2. p = ptr[h] /\ c = coalesce(mark(heap, p, TRUE), p)
    OBVIOUS
  <2> HIDE DEF p, c
  <2>3. ASSUME ~c.bad
        PROVE  Freed(heap, mapped, ptr, asked, data, stored, h, p, c,
                     ptr', asked', data', stored')
    BY Zenon, <1>2, <1>3, <1>6, <2>2, <2>3, FreedGood
  <2>4. bad' = "no" => Fine(heap', mapped', ptr', asked', data', stored')
    BY <2>1, <2>3 DEF Freed
  <2> QED BY Zenon, <1>1, <1>2, <2>4, LaterInv
<1> QED BY <1>4, <1>5, <1>6

(* Growing in place keeps the invariant. *)
LEMMA GrowStep ==
    ASSUME Malloc3Inv, bad = "no", NEW h \in Handles, ptr[h] \in Addr,
           NEW size \in Nat, NEW n \in Nat,
           NoWrap => n = size + MetaSize, growInPlace(h, size, n), firstMalloc' = firstMalloc
    PROVE  Malloc3Inv'
<1> DEFINE g == absorb(heap, ptr[h], n)
<1>1. firstMalloc = FALSE /\ Fine(heap, mapped, ptr, asked, data, stored)
  BY Zenon, HolderFacts, Places
<1>2. /\ heap' = g.heap /\ asked' = [asked EXCEPT ![h] = size]
      /\ bad' = "no" => ~g.bad
      /\ mapped' = mapped /\ ptr' = ptr /\ data' = data /\ stored' = stored
  BY DEF growInPlace
<1>3. g = absorb(heap, ptr[h], n)
  OBVIOUS
<1> HIDE DEF g
<1>4. ASSUME ~g.bad PROVE GrewTo(heap, mapped, ptr, asked, data, stored, h, size, n, g, asked')
  BY Zenon, <1>1, <1>2, <1>3, <1>4, GrownGood
<1>5. bad' = "no" => Fine(heap', mapped', ptr', asked', data', stored')
  BY <1>2, <1>4 DEF GrewTo
<1> QED BY Zenon, <1>1, <1>5, LaterInv

(* Moving to a new block keeps the invariant. *)
LEMMA MoveStep ==
    ASSUME Malloc3Inv, bad = "no", NEW h \in Handles, ptr[h] \in Addr,
           NEW size \in Nat, moveAway(h, size), firstMalloc' = firstMalloc,
           bytes(heap.md[ptr[h]].order) < size + MetaSize,
           \/ heap.md[ptr[h]].order = MaxOrder
           \/ ~heap.md[findNeighboringBlock(ptr[h], heap.md[ptr[h]].order)].is_free
    PROVE  Malloc3Inv'
<1> DEFINE p == ptr[h]
           G == mark(heap, p, TRUE)
<1>1. firstMalloc = FALSE /\ Fine(heap, mapped, ptr, asked, data, stored)
  BY Zenon, HolderFacts, Places
<1>2. PICK r \in Smalloc(G, size) :
         IF r.p = NULL THEN UNCHANGED <<heap, mapped, ptr, asked, data, stored, bad>>
         ELSE /\ heap' = r.heap /\ mapIn(r.p, size)
              /\ data' = [data EXCEPT ![r.p] = data[p], ![p] = Junk]
              /\ give(h, r.p, size, stored[h])
  BY Zenon DEF moveAway, moved
<1>3. p = ptr[h] /\ G = mark(heap, p, TRUE)
  OBVIOUS
<1>4. /\ p \in Addr /\ bytes(heap.md[p].order) < size + MetaSize
      /\ \/ heap.md[p].order = MaxOrder
         \/ ~heap.md[findNeighboringBlock(p, heap.md[p].order)].is_free
  OBVIOUS
<1>5. HeapOK(G)
  <2>1. /\ HeapOK(heap) /\ NoPairs(heap.md) /\ mapped \in [MapIds -> Nat]
        /\ ptr \in [Handles -> Addr \cup MapIds \cup {NULL}] /\ Owned(heap.md, mapped, ptr)
    BY Zenon, <1>1 DEF Fine, Good, TypesOf
  <2> DEFINE pt1 == [ptr EXCEPT ![h] = NULL]
  <2>2. pt1 = [ptr EXCEPT ![h] = NULL]
    OBVIOUS
  <2> HIDE DEF pt1, p, G
  <2>3. IsReleased(heap, G, mapped, ptr, pt1, p)
    BY Zenon, <1>3, <1>4, <2>1, <2>2, ReleaseFacts
  <2> QED BY Zenon, <2>3 DEF IsReleased
<1> HIDE DEF p, G
<1>6. IsSmalloc(G, mapped, size, r)
  BY <1>5, SmallocFacts
<1>7. CASE r.p = NULL
  <2>1. Fine(heap', mapped', ptr', asked', data', stored')
    BY <1>1, <1>2, <1>7
  <2> QED BY Zenon, <1>1, <2>1, LaterInv
<1>8. CASE r.p # NULL
  <2>1. /\ heap' = r.heap
        /\ mapped' = [m \in MapIds |-> IF m = r.p THEN MetaSize + size ELSE mapped[m]]
        /\ ptr' = [ptr EXCEPT ![h] = r.p] /\ asked' = [asked EXCEPT ![h] = size]
        /\ data' = [data EXCEPT ![r.p] = data[p], ![p] = Junk]
        /\ stored' = [stored EXCEPT ![h] = stored[h]]
    BY <1>2, <1>8 DEF mapIn, give
  <2>2. Moved(heap, G, mapped, ptr, asked, data, stored, h, p, size, r,
              mapped', ptr', asked', data', stored')
    BY Zenon, <1>1, <1>3, <1>4, <1>6, <1>8, <2>1, MovedGood
  <2>3. Fine(heap', mapped', ptr', asked', data', stored')
    BY <2>1, <2>2 DEF Moved
  <2> QED BY Zenon, <1>1, <2>3, LaterInv
<1> QED BY <1>7, <1>8

(* srealloc of a block of the heap keeps the invariant. *)
LEMMA ReallocStep ==
    ASSUME Malloc3Inv, bad = "no", NEW h \in Handles, NEW size \in Sizes,
           reallocBlock(h, size)
    PROVE  Malloc3Inv'
<1> DEFINE p == ptr[h]
           k == heap.md[p].order
           n == (size + MetaSize) % Word
<1>1. p \in Addr /\ firstMalloc' = firstMalloc /\ size \in Nat
  BY HeapAssumption, Malloc3Assumption DEF reallocBlock
<1>2. firstMalloc = FALSE /\ Fine(heap, mapped, ptr, asked, data, stored)
  BY Zenon, <1>1, HolderFacts, Places
<1>n. n \in Nat /\ n <= size + MetaSize /\ (NoWrap => n = size + MetaSize)
  <2> DEFINE x == size + MetaSize
  <2>1. x \in Nat /\ Word \in Nat /\ Word # 0 /\ (NoWrap => x < Word)
    BY <1>1, HeapAssumption, Malloc3Assumption DEF NoWrap
  <2>2. \A y, w \in Nat : w # 0 => y % w \in Nat /\ y % w < w /\ (y < w => y % w = y)
    BY SMT
  <2>3. n = x % Word
    OBVIOUS
  <2> HIDE DEF x, n
  <2>4. n \in Nat /\ n < Word /\ (x < Word => n = x)
    BY <2>1, <2>2, <2>3
  <2>5. n <= x
    BY <2>1, <2>4
  <2> QED BY <2>1, <2>4, <2>5 DEF x
<1>3. CASE size = 0
  <2>1. UNCHANGED <<heap, mapped, ptr, asked, data, stored>>
    BY <1>3 DEF reallocBlock
  <2>2. Fine(heap', mapped', ptr', asked', data', stored')
    BY <1>2, <2>1
  <2> QED BY Zenon, <1>1, <1>2, <2>2, LaterInv
<1>4. CASE size # 0 /\ bytes(k) >= n
  <2>1. /\ asked' = [asked EXCEPT ![h] = size]
        /\ UNCHANGED <<heap, mapped, ptr, data, stored>>
    BY <1>4 DEF reallocBlock
  <2>2. Stayed(heap, mapped, ptr, asked, data, stored, h, size, n, asked')
    BY Zenon, <1>1, <1>2, <1>4, <1>n, <2>1, KeptGood
  <2>3. Fine(heap', mapped', ptr', asked', data', stored')
    BY <2>1, <2>2 DEF Stayed
  <2> QED BY Zenon, <1>1, <1>2, <2>3, LaterInv
<1>5. CASE size # 0 /\ ~(bytes(k) >= n)
  <2>1. PICK free \in neighbourFree(p, k) :
           IF free THEN growInPlace(h, size, n) ELSE moveAway(h, size)
    BY <1>5 DEF reallocBlock
  <2>2. CASE free
    BY <1>1, <1>n, <2>1, <2>2, GrowStep
  <2>3. CASE ~free
    <3>1. k = MaxOrder \/ ~heap.md[findNeighboringBlock(p, k)].is_free
      BY <2>1, <2>3 DEF neighbourFree
    <3>2. bytes(k) < size + MetaSize
      <4>1. HeapOK(heap) /\ p \in Used(heap.md)
        BY Zenon, <1>1, <1>2, Places DEF Fine, Good, Owned
      <4>2. k \in Orders
        BY <4>1, BlockFacts DEF HeapOK, Used, Live
      <4> HIDE DEF k, n
      <4>3. bytes(k) \in Int
        BY <4>2, SizeFacts, HeapAssumption, Malloc3Assumption DEF bytes
      <4> QED BY <1>1, <1>5, <1>n, <4>3, HeapAssumption, Malloc3Assumption
    <3> QED BY <1>1, <2>1, <2>3, <3>1, <3>2, MoveStep
  <2> QED BY <2>2, <2>3
<1> QED BY <1>3, <1>4, <1>5

(* A write of the caller keeps the invariant. *)
LEMMA WriteStep ==
    ASSUME Malloc3Inv, bad = "no", NEW h \in Handles, Write(h)
    PROVE  Malloc3Inv'
<1>1. /\ ptr[h] # NULL /\ data' = [data EXCEPT ![ptr[h]] = h]
      /\ stored' = [stored EXCEPT ![h] = h]
      /\ UNCHANGED <<firstMalloc, heap, mapped, ptr, asked>>
  BY DEF Write
<1>2. firstMalloc = FALSE /\ Fine(heap, mapped, ptr, asked, data, stored)
  BY Zenon, <1>1, HolderFacts
<1>3. Written(heap, mapped, ptr, asked, data, stored, h, h, data', stored')
  BY Zenon, <1>1, <1>2, WrittenGood
<1>4. Fine(heap', mapped', ptr', asked', data', stored')
  BY <1>1, <1>3 DEF Written
<1> QED BY Zenon, <1>1, <1>2, <1>4, LaterInv

(* Malloc3Inv is an invariant of the allocator. *)
THEOREM Malloc3Invariant == Spec => []Malloc3Inv
<1>1. Malloc3Inv /\ [Next]_vars => Malloc3Inv'
  <2> SUFFICES ASSUME Malloc3Inv, [Next]_vars PROVE Malloc3Inv'
    OBVIOUS
  <2>1. CASE vars' = vars
    BY <2>1 DEF vars, Malloc3Inv, HeapNow
  <2>2. CASE Next /\ vars' # vars
    <3>1. bad = "no"
      BY <2>2 DEF Next
    <3>2. PICK h \in Handles :
             \/ sfree(h) \/ Write(h)
             \/ \E size \in Sizes : smalloc(h, size) \/ srealloc(h, size)
             \/ \E num \in Counts, size \in Sizes : scalloc(h, num, size)
      <4>1. ~ \E p \in Addr : sfreeAgain(p)
        BY <2>2 DEF sfreeAgain
      <4> QED BY Zenon, <2>2, <4>1 DEF Next
    <3>3. CASE sfree(h)
      BY <3>1, <3>3, SfreeStep
    <3>4. CASE Write(h)
      BY <3>1, <3>4, WriteStep
    <3>5. ASSUME NEW size \in Sizes, smalloc(h, size) PROVE Malloc3Inv'
      BY <3>1, <3>5, SmallocStep
    <3>6. ASSUME NEW size \in Sizes, srealloc(h, size) PROVE Malloc3Inv'
      BY <3>1, <3>5, <3>6, ReallocStep DEF srealloc
    <3>7. ASSUME NEW num \in Counts, NEW size \in Sizes, scalloc(h, num, size)
          PROVE  Malloc3Inv'
      BY <2>2, <3>1, <3>7, ScallocStep
    <3> QED BY <3>2, <3>3, <3>4, <3>5, <3>6, <3>7
  <2> QED BY <2>1, <2>2
<1> QED BY <1>1, Malloc3Starts, PTL DEF Spec

-----------------------------------------------------------------------------

(* Free memory.  If every block that begins in an aligned stretch is free  *)
(* the stretch lies in one block: otherwise the smallest block in it would *)
(* have its neighbour in it too, free and of the same size.                *)
LEMMA StretchFits ==
    ASSUME NEW md, Tiled(md), NoPairs(md), NEW k \in Orders, NEW a \in Addr,
           Multiple(a, pow2[k]),
           \A b \in Live(md) : a <= b /\ b < a + pow2[k] => md[b].is_free
    PROVE  \E b \in Live(md) : b <= a /\ a + pow2[k] <= EndOf(md, b)
<1> DEFINE p == pow2[k]
           Small == {b \in Live(md) : a <= b /\ b < a + p /\ md[b].order < k}
           T == {n \in Nat : \E b \in Small : md[b].order = n}
<1>1. /\ k \in Nat /\ a \in Nat /\ p \in Nat \ {0} /\ k <= MaxOrder /\ MaxOrder \in Nat
      /\ Multiple(a, p)
  BY SizeFacts DEF Orders
<1>2. PICK c \in Live(md) : c <= a /\ a < EndOf(md, c)
  BY DEF Tiled
<1>3. /\ c \in Nat /\ md[c].order \in Nat /\ pow2[md[c].order] \in Nat \ {0}
      /\ Multiple(c, pow2[md[c].order]) /\ EndOf(md, c) = c + pow2[md[c].order]
  BY BlockFacts DEF EndOf
<1>4. CASE k <= md[c].order
  <2> DEFINE q == pow2[md[c].order]
  <2>1. Multiple(c, p)
    BY <1>1, <1>3, <1>4, SizesDouble, MultipleDown
  <2>2. Multiple(q, p)
    <3>1. q = 1 * q
      BY <1>3
    <3>2. Multiple(q, q)
      BY <1>3, <3>1 DEF Multiple
    <3> QED BY <1>1, <1>3, <1>4, <3>2, SizesDouble, MultipleDown
  <2> HIDE DEF p, q
  <2>3. Multiple(c + q, p)
    BY <1>1, <2>1, <2>2, MultiplesAdd
  <2>4. a < c + q
    BY <1>2, <1>3 DEF q
  <2>5. a + p <= c + q
    BY <1>1, <2>3, <2>4, MultiplesApart
  <2> QED BY <1>2, <1>3, <2>5 DEF p, q
<1>5. CASE md[c].order < k
  <2> DEFINE q == pow2[md[c].order]
  <2>1. Multiple(a, q)
    <3>1. md[c].order <= k
      BY <1>1, <1>3, <1>5
    <3> QED BY <1>1, <1>3, <3>1, SizesDouble, MultipleDown
  <2> HIDE DEF q
  <2>2. ~(c < a)
    <3>1. c < a => c + q <= a
      BY <1>3, <2>1, MultiplesApart DEF q
    <3> QED BY <1>1, <1>2, <1>3, <3>1 DEF q
  <2>3. c \in Small
    BY <1>1, <1>2, <1>3, <1>5, <2>2
  <2>4. T \subseteq Nat /\ T # {}
    BY <1>3, <2>3
  <2> HIDE DEF T
  <2>5. PICK n \in T : \A m \in T : n <= m
    BY Zenon, <2>4, LeastNatural
  <2>6. PICK b \in Small : md[b].order = n
    BY <2>5 DEF T
  <2>7. b \in Live(md) /\ a <= b /\ b < a + p /\ n < k /\ n \in Nat
    BY <2>4, <2>5, <2>6
  <2>8. n # MaxOrder /\ n + 1 \in Nat /\ n + 1 <= k
    BY <1>1, <2>7
  <2> DEFINE d == findNeighboringBlock(b, md[b].order)
             e == pow2[n]
  <2>9. /\ e \in Nat \ {0} /\ b \in Nat /\ d \in Nat
        /\ \/ d = b + e /\ Multiple(b, 2 * e)
           \/ d + e = b /\ Multiple(d, 2 * e)
    BY <2>6, <2>7, <2>8, NeighbourFacts
  <2>10. d \in Live(md) /\ md[d].order <= n
    BY <2>6, <2>7, <2>8, NeighbourIsBlock
  <2>11. Multiple(a, 2 * e) /\ Multiple(p, 2 * e) /\ 2 * e \in Nat \ {0}
    <3>1. pow2[n + 1] = 2 * e
      BY <2>7, SizeFacts
    <3>2. Multiple(a, pow2[n + 1])
      BY <1>1, <2>8, SizesDouble, MultipleDown
    <3>3. Multiple(p, p)
      <4>1. p = 1 * p
        BY <1>1
      <4> QED BY <1>1, <4>1 DEF Multiple
    <3>4. Multiple(p, pow2[n + 1])
      BY <1>1, <2>8, <3>3, SizesDouble, MultipleDown
    <3> QED BY <2>9, <3>1, <3>2, <3>4
  <2> HIDE DEF p, e, d
  <2>12. Multiple(a + p, 2 * e)
    BY <2>11, MultiplesAdd
  <2>13. a <= d /\ d < a + p
    <3>1. CASE d = b + e /\ Multiple(b, 2 * e)
      <4>1. b + 2 * e <= a + p
        BY <2>7, <2>11, <2>12, <3>1, MultiplesApart
      <4> QED BY <1>1, <2>7, <2>9, <3>1, <4>1
    <3>2. CASE d + e = b /\ Multiple(d, 2 * e)
      <4>1. d < a => d + 2 * e <= a
        BY <2>11, <3>2, MultiplesApart
      <4> QED BY <1>1, <2>7, <2>9, <3>2, <4>1
    <3> QED BY <2>9, <3>1, <3>2
  <2>14. md[d].order = n
    <3>1. md[d].order \in Nat
      BY <2>10, BlockFacts
    <3>2. md[d].order < k
      BY <1>1, <2>7, <2>10, <3>1
    <3>3. md[d].order \in T
      BY <2>10, <2>13, <3>1, <3>2 DEF T
    <3>4. n <= md[d].order
      BY <2>5, <3>3
    <3> QED BY <2>7, <2>10, <3>1, <3>4
  <2>15. md[b].is_free /\ md[d].is_free
    BY <2>7, <2>10, <2>13 DEF p
  <2> QED BY <2>6, <2>7, <2>8, <2>14, <2>15 DEF NoPairs, d
<1> QED BY <1>1, <1>3, <1>4, <1>5

(* What the properties speak of, in the terms of the invariant. *)
LEMMA SoundFacts ==
    ASSUME Malloc3Inv, Sound
    PROVE  /\ HeapOK(heap) /\ NoPairs(heap.md) /\ Tiled(heap.md)
           /\ Blocks = Live(heap.md)
           /\ \A a \in Blocks : Span(a) = a .. (EndOf(heap.md, a) - 1)
<1>1. HeapOK(heap) /\ NoPairs(heap.md)
  BY DEF Malloc3Inv, Sound, HeapNow, Fine, Good
<1>2. Tiled(heap.md)
  BY <1>1 DEF HeapOK
<1>3. Blocks = Live(heap.md)
  BY DEF Blocks, Live
<1>4. \A a \in Blocks : Span(a) = a .. (EndOf(heap.md, a) - 1)
  <2>1. \A a \in Blocks : a \in Nat /\ pow2[heap.md[a].order] \in Nat
    BY <1>2, <1>3, BlockFacts
  <2>2. \A x, y \in Nat : x + y - 1 = (x + y) - 1
    OBVIOUS
  <2> QED BY <2>1, <2>2 DEF Span, EndOf
<1> QED BY <1>1, <1>2, <1>3, <1>4

(* In every reachable state without an error the lists of lines 105-107    *)
(* hold exactly the blocks of their sizes in the order of their addresses, *)
(* the blocks cover the heap without overlap, aligned to their sizes, and  *)
(* the address findNeighboringBlock computes is that of a block.           *)
THEOREM HeapIsPartitioned == Spec => []HeapPartition
<1>1. Malloc3Inv => HeapPartition
  <2> SUFFICES ASSUME Malloc3Inv, Sound
               PROVE  /\ \A k \in Orders :
                           /\ {heap.list[k][i] : i \in 1..Len(heap.list[k])} =
                                 {a \in Blocks : heap.md[a].order = k}
                           /\ \A i \in 1..(Len(heap.list[k]) - 1) :
                                 heap.list[k][i] < heap.list[k][i + 1]
                      /\ \A x \in Addr :
                            \E b \in Blocks : {a \in Blocks : x \in Span(a)} = {b}
                      /\ \A a \in Blocks :
                            /\ a % pow2[heap.md[a].order] = 0
                            /\ heap.md[a].order < MaxOrder =>
                                  findNeighboringBlock(a, heap.md[a].order) \in Blocks
    BY DEF HeapPartition
  <2> DEFINE md == heap.md
  <2>1. /\ HeapOK(heap) /\ Tiled(md) /\ Blocks = Live(md)
        /\ \A a \in Blocks : Span(a) = a .. (EndOf(md, a) - 1)
    BY SoundFacts
  <2>2. ASSUME NEW k \in Orders
        PROVE  /\ {heap.list[k][i] : i \in 1..Len(heap.list[k])} =
                     {a \in Blocks : md[a].order = k}
               /\ \A i \in 1..(Len(heap.list[k]) - 1) : heap.list[k][i] < heap.list[k][i + 1]
    <3> DEFINE l == heap.list[k]
    <3>1. Ascending(l, OfOrder(md, k))
      BY <2>1 DEF HeapOK
    <3>2. OfOrder(md, k) = {a \in Blocks : md[a].order = k}
      BY <2>1, OfOrderLive
    <3> HIDE DEF l
    <3>3. Len(l) \in Nat /\ \A i, j \in 1..Len(l) : i < j => l[i] < l[j]
      BY <3>1 DEF Ascending
    <3>4. \A n \in Nat : \A i \in 1..(n - 1) : i \in 1..n /\ i + 1 \in 1..n /\ i < i + 1
      OBVIOUS
    <3>5. \A i \in 1..(Len(l) - 1) : l[i] < l[i + 1]
      BY <3>3, <3>4
    <3>6. {l[i] : i \in 1..Len(l)} = {a \in Blocks : md[a].order = k}
      BY <3>1, <3>2 DEF Ascending
    <3> QED BY <3>5, <3>6 DEF l
  <2>3. ASSUME NEW x \in Addr
        PROVE  \E b \in Blocks : {a \in Blocks : x \in Span(a)} = {b}
    <3>1. PICK b \in Live(md) : b <= x /\ x < EndOf(md, b)
      BY <2>1 DEF Tiled
    <3>2. x \in Nat /\ \A a \in Live(md) : a \in Nat /\ EndOf(md, a) \in Nat
      <4>1. \A a \in Live(md) : a \in Nat /\ pow2[md[a].order] \in Nat \ {0}
        BY <2>1, BlockFacts
      <4> QED BY <4>1, SizeFacts DEF EndOf
    <3>3. \A a \in Blocks : x \in Span(a) <=> a <= x /\ x < EndOf(md, a)
      BY <2>1, <3>2
    <3>4. \A a \in Live(md) : a <= x /\ x < EndOf(md, a) => a = b
      BY <2>1, <3>1, <3>2 DEF Tiled
    <3> QED BY <2>1, <3>1, <3>3, <3>4
  <2>4. ASSUME NEW a \in Blocks
        PROVE  /\ a % pow2[md[a].order] = 0
               /\ md[a].order < MaxOrder => findNeighboringBlock(a, md[a].order) \in Blocks
    <3>1. /\ a \in Live(md) /\ a \in Nat /\ pow2[md[a].order] \in Nat \ {0}
          /\ Multiple(a, pow2[md[a].order]) /\ md[a].order \in Nat
      BY <2>1, BlockFacts
    <3>2. a % pow2[md[a].order] = 0
      BY <3>1, MultipleIsAligned
    <3>3. ASSUME md[a].order < MaxOrder PROVE findNeighboringBlock(a, md[a].order) \in Blocks
      <4>1. md[a].order # MaxOrder
        BY <3>1, <3>3, SizeFacts
      <4> QED BY <2>1, <3>1, <4>1, NeighbourIsBlock
    <3> QED BY <3>2, <3>3
  <2> QED BY <2>2, <2>3, <2>4
<1> QED BY <1>1, Malloc3Invariant, PTL

(* In every reachable state without an error the callers' pointers are the *)
(* blocks in use, of the heap and from mmap, and no two are the same:      *)
(* smalloc never gives out memory that somebody holds.                     *)
THEOREM BlocksHaveOwners == Spec => []BlockOwners
<1>1. Malloc3Inv => BlockOwners
  <2> SUFFICES ASSUME Malloc3Inv, bad = "no"
               PROVE  /\ {ptr[h] : h \in Handles} \ {NULL} =
                            {a \in Blocks : ~heap.md[a].is_free}
                            \cup {m \in MapIds : mapped[m] # 0}
                      /\ \A g, h \in Handles : ptr[g] = ptr[h] /\ g # h => ptr[g] = NULL
    BY DEF BlockOwners
  <2>1. Owned(HeapNow.md, mapped, ptr)
    BY DEF Malloc3Inv, Fine, Good
  <2>2. {a \in Blocks : ~heap.md[a].is_free} = Used(HeapNow.md)
    <3>1. CASE firstMalloc = FALSE
      BY <3>1 DEF HeapNow, Blocks, Used
    <3>2. CASE firstMalloc = TRUE
      <4>1. Used(HeapNow.md) = {}
        BY <3>2, FirstHeapFacts DEF HeapNow
      <4>2. Blocks = {}
        BY <3>2 DEF Malloc3Inv, Blocks
      <4> QED BY <4>1, <4>2
    <3> QED BY Zenon, <3>1, <3>2 DEF Malloc3Inv
  <2>3. /\ \A h \in Handles : ptr[h] # NULL =>
              ptr[h] \in Used(HeapNow.md) \/ (ptr[h] \in MapIds /\ mapped[ptr[h]] # 0)
        /\ \A a \in Used(HeapNow.md) : a \in Addr /\ \E h \in Handles : ptr[h] = a
        /\ \A m \in MapIds : mapped[m] # 0 => \E h \in Handles : ptr[h] = m
        /\ \A g, h \in Handles : ptr[g] = ptr[h] /\ g # h => ptr[g] = NULL
    BY <2>1 DEF Owned, Used
  <2> QED BY <2>2, <2>3, Places
<1> QED BY <1>1, Malloc3Invariant, PTL

(* In every reachable state without an error an aligned stretch that is    *)
(* entirely free lies in one free block: eager merging in sfree and the    *)
(* unmerged free of srealloc never leave smalloc unable to use it.         *)
THEOREM FreeSpaceStaysUsable == Spec => []FreeSpaceUsable
<1>1. Malloc3Inv => FreeSpaceUsable
  <2> SUFFICES ASSUME Malloc3Inv, Sound, NEW k \in Orders,
                      NEW a \in {x \in Addr : x % pow2[k] = 0},
                      \A b \in Blocks : Span(b) \cap (a .. (a + pow2[k] - 1)) # {} =>
                                            heap.md[b].is_free
               PROVE  \E b \in Blocks : (a .. (a + pow2[k] - 1)) \subseteq Span(b)
    BY DEF FreeSpaceUsable
  <2> DEFINE md == heap.md
             p == pow2[k]
  <2>1. /\ NoPairs(md) /\ Tiled(md) /\ Blocks = Live(md)
        /\ \A b \in Blocks : Span(b) = b .. (EndOf(md, b) - 1)
    BY SoundFacts
  <2>2. a \in Addr /\ a \in Nat /\ p \in Nat \ {0} /\ a % p = 0
    BY SizeFacts
  <2>3. Multiple(a, p)
    BY <2>2, MultipleIsAligned
  <2>4. \A b \in Live(md) : b \in Nat /\ EndOf(md, b) \in Nat /\ b < EndOf(md, b)
    BY <2>1, BlockFacts DEF EndOf
  <2>5. ASSUME NEW b \in Live(md), a <= b, b < a + p PROVE md[b].is_free
    <3>1. b \in Span(b)
      BY <2>1, <2>4
    <3>2. b \in a .. (a + p - 1)
      BY <2>2, <2>4, <2>5
    <3> QED BY <2>1, <3>1, <3>2
  <2> HIDE DEF md
  <2>6. PICK b \in Live(md) : b <= a /\ a + p <= EndOf(md, b)
    BY <2>1, <2>2, <2>3, <2>5, StretchFits
  <2>7. (a .. (a + p - 1)) \subseteq (b .. (EndOf(md, b) - 1))
    BY <2>2, <2>4, <2>6
  <2> QED BY Zenon, <2>1, <2>6, <2>7
<1> QED BY <1>1, Malloc3Invariant, PTL

(* When no product or sum of sizes exceeds a word, in every reachable      *)
(* state without an error a caller finds in its memory what it stored      *)
(* there, the zeros of scalloc or what srealloc moved: nobody else's       *)
(* block, split, merge or move ever overwrites it.                         *)
THEOREM DataStays == NoWrap => (Spec => []DataKept)
<1> SUFFICES ASSUME NoWrap PROVE Spec => []DataKept
  OBVIOUS
<1>1. Malloc3Inv => DataKept
  BY DEF Malloc3Inv, DataKept, Fine, Good, Kept
<1> QED BY <1>1, Malloc3Invariant, PTL

(* When no product or sum of sizes exceeds a word, in every reachable      *)
(* state without an error a caller's block has room for what it asked for  *)
(* and for the metadata.                                                   *)
THEOREM RequestsHaveRoom == NoWrap => (Spec => []RoomForRequest)
<1> SUFFICES ASSUME NoWrap PROVE Spec => []RoomForRequest
  OBVIOUS
<1>1. Malloc3Inv => RoomForRequest
  <2> SUFFICES ASSUME Malloc3Inv, bad = "no", NEW h \in Handles
               PROVE  /\ ptr[h] \in Addr =>
                           bytes(heap.md[ptr[h]].order) >= asked[h] + MetaSize
                      /\ ptr[h] \in MapIds => mapped[ptr[h]] >= asked[h] + MetaSize
    BY DEF RoomForRequest
  <2>1. CASE firstMalloc = TRUE
    BY <2>1, Places DEF Malloc3Inv
  <2>2. CASE firstMalloc = FALSE
    <3>1. Room(heap.md, mapped, ptr, asked)
      BY <2>2 DEF Malloc3Inv, Fine, Good, HeapNow
    <3> QED BY <3>1 DEF Room
  <2> QED BY Zenon, <2>1, <2>2 DEF Malloc3Inv
<1> QED BY <1>1, Malloc3Invariant, PTL
=============================================================================
