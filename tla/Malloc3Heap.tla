---------------------------- MODULE Malloc3Heap ----------------------------
(***************************************************************************)
(* The heap of the buddy allocator, OS_HW4_234123/malloc_3.cpp, as a value *)
(* and what the allocator's functions make of it.                          *)
(*                                                                         *)
(* Addresses count units, the size of a block of order 0; order k is 2^k   *)
(* units.  md is the metadata at an address where a block starts; what a   *)
(* merge leaves behind inside a larger block is not metadata any more.     *)
(* list is mdListArr: the addresses of the blocks of each order.           *)
(***************************************************************************)
EXTENDS Integers, Sequences

CONSTANTS
    MaxOrder,    \* MAX_ORDER
    Roots,       \* 32, the blocks of order MaxOrder that sbrk provides
    Unit         \* 128, the bytes of a block of order 0

ASSUME HeapAssumption == MaxOrder \in Nat /\ Roots \in Nat \ {0} /\ Unit \in Nat

(* blocksSizesArr, in units: the powers of two. *)
pow2[k \in Nat] == IF k = 0 THEN 1 ELSE 2 * pow2[k - 1]

Orders == 0..MaxOrder
Units == Roots * pow2[MaxOrder]
Addr == 0..(Units - 1)
NULL == -1
NoMD == [order |-> -1, is_free |-> FALSE]

bytes(k) == Unit * pow2[k]

-----------------------------------------------------------------------------
(* MDList. *)

(* addMD at the end, whatever the address (mutation). *)
addMDLast(l, a) == Append(l, a)

(* addMD: before the first block with a greater address. *)
addMD(l, a) ==
    LET above == {i \in 1..Len(l) : l[i] > a}
        n == IF above = {} THEN Len(l)
             ELSE (CHOOSE i \in above : \A j \in above : i <= j) - 1
    IN  SubSeq(l, 1, n) \o <<a>> \o SubSeq(l, n + 1, Len(l))

(* delMD: the first block at that address, if there is one. *)
delMD(l, a) ==
    LET at == {i \in 1..Len(l) : l[i] = a}
        n == CHOOSE i \in at : \A j \in at : i <= j
    IN  IF at = {} THEN l ELSE SubSeq(l, 1, n - 1) \o SubSeq(l, n + 1, Len(l))

(* findFreeSizedBlock: the first free block of a list, if there is one. *)
hasFree(H, k) == \E i \in 1..Len(H.list[k]) : H.md[H.list[k][i]].is_free

findFreeSizedBlock(H, k) ==
    LET l == H.list[k] IN
    l[CHOOSE i \in 1..Len(l) : /\ H.md[l[i]].is_free
                               /\ \A j \in 1..(i - 1) : ~H.md[l[j]].is_free]

-----------------------------------------------------------------------------
(* Blocks are split. *)

(* The 32 free blocks of the first call. *)
firstHeap ==
    LET starts == [i \in 1..Roots |-> (i - 1) * pow2[MaxOrder]] IN
    [md |-> [a \in Addr |-> IF \E i \in 1..Roots : starts[i] = a
                            THEN [order |-> MaxOrder, is_free |-> TRUE] ELSE NoMD],
     list |-> [k \in Orders |-> IF k = MaxOrder THEN starts ELSE << >>]]

(* splitBlocks_ChallengeZero: the block of order i at a is halved until    *)
(* its first piece has order k; every other half becomes a free block.     *)
splitBlocks(H, a, i, k) ==
    IF i = k THEN H ELSE
    [md |-> [x \in Addr |->
                IF x = a THEN [order |-> k, is_free |-> FALSE]
                ELSE IF \E j \in k..(i - 1) : x = a + pow2[j]
                THEN [order |-> CHOOSE j \in k..(i - 1) : x = a + pow2[j],
                      is_free |-> TRUE]
                ELSE H.md[x]],
     list |-> [j \in Orders |->
                IF j = k THEN addMD(addMD(H.list[j], a + pow2[j]), a)
                ELSE IF j \in k..(i - 1) THEN addMD(H.list[j], a + pow2[j])
                ELSE IF j = i THEN delMD(H.list[j], a)
                ELSE H.list[j]]]

mark(H, a, is_free) == [H EXCEPT !.md[a].is_free = is_free]

(* findExactSizeBlock_ChallengeZero: the least order that fits and has a   *)
(* free block; NULL when there is none.                                    *)
findExactSizeBlock(H, size) ==
    LET fitting == {k \in Orders : bytes(k) >= size}
        k0 == CHOOSE k \in fitting : \A j \in fitting : k <= j
        usable == {i \in fitting : hasFree(H, i)}
        i0 == CHOOSE i \in usable : \A j \in usable : i <= j
        a == findFreeSizedBlock(H, i0)
    IN  IF usable = {} THEN [heap |-> H, p |-> NULL]
        ELSE [heap |-> mark(splitBlocks(mark(H, a, FALSE), a, i0, k0), a, FALSE),
              p |-> a]

-----------------------------------------------------------------------------
(* Blocks are joined. *)

(* findNeighboringBlock_ChallengeOne: the address with the bit of the size *)
(* flipped; the blocks of order MaxOrder are aligned to their size.        *)
findNeighboringBlock(a, k) ==
    IF (a \div pow2[k]) % 2 = 0 THEN a + pow2[k] ELSE a - pow2[k]

lower(a, b) == IF a < b THEN a ELSE b

(* The block that a merge of a and b leaves at `at': its own size doubles, *)
(* and it moves from list k to list k + 1.  The metadata of the other one  *)
(* is gone, unless it was not of order k: then it stays in its list too.   *)
join(H, a, b, at, k, is_free) ==
    LET other == IF at = a THEN b ELSE a IN
    [md |-> [x \in Addr |->
                IF x = at THEN [order |-> H.md[at].order + 1, is_free |-> is_free]
                ELSE IF x = other /\ H.md[x].order = k THEN NoMD
                ELSE H.md[x]],
     list |-> [j \in Orders |->
                IF j = k THEN delMD(delMD(H.list[j], a), b)
                ELSE IF j = k + 1 THEN addMD(H.list[j], at)
                ELSE H.list[j]]]

(* A round of the loop of lines 558-579.  It tests is_free of the          *)
(* neighbour and not its size.                                             *)
coalesceRound(s) ==
    LET k == s.heap.md[s.res].order
        b == findNeighboringBlock(s.res, k)
    IN  IF s.bad \/ k = MaxOrder THEN s
        ELSE IF ~s.heap.md[b].is_free THEN s
        ELSE [heap |-> join(s.heap, s.res, b, lower(s.res, b), k, TRUE),
              res |-> lower(s.res, b), bad |-> s.heap.md[b].order # k]

(* The loop without its second and later rounds (mutation). *)
coalesceOnce(H, res) == coalesceRound([heap |-> H, res |-> res, bad |-> FALSE])

coalesce(H, res) ==
    LET round[n \in Orders] ==
            IF n = 0 THEN [heap |-> H, res |-> res, bad |-> FALSE]
            ELSE coalesceRound(round[n - 1])
    IN  round[MaxOrder]

(* A round of the loop of lines 611-624: current swallows its neighbour.   *)
(* It is wrong when that is not its free right half, and when there is     *)
(* none to swallow.                                                        *)
absorbRound(s, current, new_size) ==
    LET k == s.heap.md[current].order
        b == findNeighboringBlock(current, k)
    IN  IF s.bad \/ bytes(k) >= new_size THEN s
        ELSE IF k = MaxOrder THEN [s EXCEPT !.bad = TRUE]
        ELSE IF ~s.heap.md[b].is_free THEN [s EXCEPT !.bad = TRUE]
        ELSE [heap |-> join(s.heap, current, b, current, k, FALSE),
              bad |-> s.heap.md[b].order # k \/ b < current]

(* The loop ends when the block is large enough; ending before leaves      *)
(* newMD unset, which is wrong too.                                        *)
absorb(H, current, new_size) ==
    LET round[n \in Orders] ==
            IF n = 0 THEN [heap |-> H, bad |-> FALSE]
            ELSE absorbRound(round[n - 1], current, new_size)
        last == round[MaxOrder]
    IN  [last EXCEPT !.bad = @ \/ bytes(last.heap.md[current].order) < new_size]
=============================================================================
