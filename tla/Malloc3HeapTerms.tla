-------------------------- MODULE Malloc3HeapTerms --------------------------
(***************************************************************************)
(* The terms that the proofs about Malloc3Heap are written in: powers of   *)
(* two, heaps and their lists, and what each operation makes of a heap.  A *)
(* term that a lemma concludes has all the parameters of that lemma, used  *)
(* in it or not, so that the lemma can be found from it.                   *)
(***************************************************************************)
EXTENDS Malloc3Heap

(* Powers of two and their multiples. *)

(* P holds the powers of two. *)
Doubling(P) == P[0] = 1 /\ \A n \in Nat : P[n + 1] = 2 * P[n]

(* a is a multiple of p. *)
Multiple(a, p) == \E q \in Nat : a = q * p

(* The other half: the address with the bit of p flipped. *)
flipped(a, p) == IF (a \div p) % 2 = 0 THEN a + p ELSE a - p

(* Sizes. *)

(* p holds the sizes up to order n. *)
Powers(p, n) == p = [k \in 0..n |-> IF k = 0 THEN 1 ELSE 2 * p[k - 1]]

(* The blocks of a heap. *)

Metadata == [order : Orders, is_free : BOOLEAN]

Live(md) == {a \in Addr : md[a] # NoMD}

EndOf(md, a) == a + pow2[md[a].order]

(* The blocks are aligned, lie side by side and cover the heap. *)
Tiled(md) ==
    /\ md \in [Addr -> Metadata \cup {NoMD}]
    /\ \A a \in Live(md) : Multiple(a, pow2[md[a].order])
    /\ \A a, b \in Live(md) : a < b => EndOf(md, a) <= b
    /\ \A x \in Addr : \E a \in Live(md) : a <= x /\ x < EndOf(md, a)

IsNeighbour(a, b, k) == b \in Addr /\ b # a /\ findNeighboringBlock(b, k) = a

(* md becomes md2 when the halves at lo and hi become one block. *)
Merged(md, md2, lo, hi) ==
    /\ md2 \in [Addr -> Metadata \cup {NoMD}]
    /\ md2[lo] # NoMD /\ md2[lo].order = md[lo].order + 1 /\ md2[hi] = NoMD
    /\ \A x \in Addr : x # lo /\ x # hi => md2[x] = md[x]

(* Two blocks of one order that make up an aligned block of the next. *)
Halves(md, lo, hi) ==
    /\ lo \in Live(md) /\ hi \in Live(md)
    /\ md[hi].order = md[lo].order /\ md[lo].order # MaxOrder
    /\ hi = lo + pow2[md[lo].order]
    /\ Multiple(lo, 2 * pow2[md[lo].order])

(* md becomes md2 when the block of order i at a is halved until its first *)
(* piece has order k.                                                      *)
Halved(md, md2, a, i, k) ==
    /\ md2 \in [Addr -> Metadata \cup {NoMD}]
    /\ md2[a] # NoMD /\ md2[a].order = k
    /\ \A j \in k..(i - 1) : md2[a + pow2[j]] # NoMD /\ md2[a + pow2[j]].order = j
    /\ \A x \in Addr : x # a /\ (\A j \in k..(i - 1) : x # a + pow2[j]) => md2[x] = md[x]

(* The lists. *)

(* l is the set S of addresses in increasing order. *)
Ascending(l, S) ==
    /\ l \in Seq(Addr)
    /\ \A i, j \in 1..Len(l) : i < j => l[i] < l[j]
    /\ S = {l[i] : i \in 1..Len(l)}

(* r is the list l with a put in after the first n. *)
IsPutIn(r, l, n, a) ==
    /\ r \in Seq(Addr) /\ Len(r) = Len(l) + 1
    /\ \A i \in 1..(Len(l) + 1) :
          r[i] = IF i <= n THEN l[i] ELSE IF i = n + 1 THEN a ELSE l[i - 1]

(* r is the list l without its entry n. *)
IsTakenOut(r, l, n) ==
    /\ r \in Seq(Addr) /\ Len(r) = Len(l) - 1
    /\ \A i \in 1..(Len(l) - 1) : r[i] = IF i < n THEN l[i] ELSE l[i + 1]

(* A heap whose lists hold its blocks. *)

OfOrder(md, k) == {a \in Addr : md[a].order = k}

HeapOK(H) ==
    /\ H = [md |-> H.md, list |-> H.list]
    /\ Tiled(H.md)
    /\ \A k \in Orders : Ascending(H.list[k], OfOrder(H.md, k))

(* The blocks in use. *)
Used(md) == {a \in Addr : md[a] # NoMD /\ ~md[a].is_free}

(* Outside S the same blocks are in use, with the same metadata. *)
SameUse(md, md2, S) ==
    \A x \in Addr \ S : /\ x \in Used(md2) <=> x \in Used(md)
                        /\ x \in Used(md) => md2[x] = md[x]

(* No free block has a free neighbour of its own order. *)
NoPairs(md) ==
    \A a \in Live(md) :
        md[a].is_free /\ md[a].order # MaxOrder =>
            LET b == findNeighboringBlock(a, md[a].order)
            IN  ~(md[b].is_free /\ md[b].order = md[a].order)

(* Marking a block leaves everything but its is_free. *)
IsMarked(H, G, a, f) ==
    /\ HeapOK(G) /\ Live(G.md) = Live(H.md)
    /\ G.md[a] = [order |-> H.md[a].order, is_free |-> f]
    /\ \A x \in Addr : x # a => G.md[x] = H.md[x]
    /\ \A x \in Addr : G.md[x].order = H.md[x].order

(* What splitBlocks_ChallengeZero makes of a block in use. *)
IsSplit(H, G, a, i, k) ==
    /\ G = [md |-> G.md, list |-> G.list] /\ Halved(H.md, G.md, a, i, k)
    /\ G.md[a] = [order |-> k, is_free |-> FALSE]
    /\ \A j \in k..(i - 1) : G.md[a + pow2[j]] = [order |-> j, is_free |-> TRUE]

(* G is H with the block a in use, cut down to order k. *)
IsTaken(H, G, a, k) ==
    /\ HeapOK(G) /\ G.md[a] = [order |-> k, is_free |-> FALSE]
    /\ Used(G.md) = Used(H.md) \cup {a}
    /\ \A x \in Live(H.md) : x # a => G.md[x] = H.md[x]
    /\ NoPairs(H.md) => NoPairs(G.md)

(* What a merge of two halves makes of the heap. *)
IsJoined(H, G, at, other, k, f) ==
    /\ HeapOK(G) /\ Live(G.md) = Live(H.md) \ {other}
    /\ G.md[at] = [order |-> k + 1, is_free |-> f] /\ G.md[other] = NoMD
    /\ \A x \in Addr : x # at /\ x # other => G.md[x] = H.md[x]

(* What findExactSizeBlock_ChallengeZero returns. *)
IsExact(H, size, r) ==
    \/ r = [heap |-> H, p |-> NULL]
    \/ /\ r.p \in Live(H.md) /\ H.md[r.p].is_free /\ bytes(H.md[r.p].order) >= size
       /\ \E k \in Orders : bytes(k) >= size /\ IsTaken(H, r.heap, r.p, k)

(* The loop of sfree. *)

(* f holds the first n rounds. *)
Freeing(f, H, res, n) ==
    f = [i \in 0..n |-> IF i = 0 THEN [heap |-> H, res |-> res, bad |-> FALSE]
                        ELSE coalesceRound(f[i - 1])]

(* No free block but r has a free neighbour of its own order but r. *)
NoPairsBut(md, r) ==
    \A a \in Live(md) \ {r} :
        md[a].is_free /\ md[a].order # MaxOrder =>
            LET b == findNeighboringBlock(a, md[a].order)
            IN  b # r => ~(md[b].is_free /\ md[b].order = md[a].order)

(* The loop ends at s. *)
Stopped(s) ==
    LET k == s.heap.md[s.res].order
    IN  k = MaxOrder \/ ~s.heap.md[findNeighboringBlock(s.res, k)].is_free

(* After n rounds from the heap H. *)
AfterRounds(H, s, n) ==
    /\ HeapOK(s.heap) /\ s.res \in Live(s.heap.md) /\ s.heap.md[s.res].is_free
    /\ NoPairsBut(s.heap.md, s.res)
    /\ Used(s.heap.md) = Used(H.md)
    /\ \A x \in Used(H.md) : s.heap.md[x] = H.md[x]
    /\ s.heap.md[s.res].order >= n \/ Stopped(s)

(* What sfree's loop leaves, when it merged only halves. *)
IsFreed(H, c) ==
    /\ c.bad \in BOOLEAN
    /\ c.bad = FALSE => /\ HeapOK(c.heap) /\ NoPairs(c.heap.md)
                        /\ Used(c.heap.md) = Used(H.md)
                        /\ \A x \in Used(H.md) : c.heap.md[x] = H.md[x]

(* The loop of srealloc. *)

Growing(f, H, current, new_size, n) ==
    f = [i \in 0..n |-> IF i = 0 THEN [heap |-> H, bad |-> FALSE]
                        ELSE absorbRound(f[i - 1], current, new_size)]

(* After some rounds from the heap H. *)
Grown(H, G, current) ==
    /\ HeapOK(G) /\ NoPairs(G.md) /\ current \in Live(G.md) /\ ~G.md[current].is_free
    /\ Used(G.md) = Used(H.md)
    /\ \A x \in Used(H.md) : x # current => G.md[x] = H.md[x]

IsGrowth(H, s, current) ==
    /\ s = [heap |-> s.heap, bad |-> s.bad] /\ s.bad \in BOOLEAN
    /\ s.bad = FALSE => Grown(H, s.heap, current)
=============================================================================
