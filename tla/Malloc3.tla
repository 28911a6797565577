------------------------------ MODULE Malloc3 ------------------------------
(***************************************************************************)
(* The buddy allocator of OS_HW4_234123/malloc_3.cpp.                      *)
(*                                                                         *)
(* The heap is a value of Malloc3Heap.  The caller is modelled by handles, *)
(* as in Malloc2.                                                          *)
(*                                                                         *)
(* sfree and srealloc look only at is_free of the neighbour's metadata.    *)
(* `bad' records that they joined a block with something that is not its   *)
(* free other half, or (srealloc) left newMD unset or moved bytes past the *)
(* end of the heap; the model stops there.                                 *)
(***************************************************************************)
EXTENDS Malloc3Heap

CONSTANTS
    MetaSize,    \* sizeof(MallocMetadata)
    SizeLimit,   \* 100000000
    Word,        \* 2^64: sums and products of sizes are taken modulo Word
    Sizes,       \* the sizes the caller asks for
    Counts,      \* the counts the caller gives to scalloc
    Handles,     \* the pointers the caller keeps
    MaxMapped    \* bound: blocks that mmap provides at a time

ASSUME Malloc3Assumption ==
    /\ MaxMapped \in Nat /\ MetaSize \in 1..(Unit - 1)
    /\ SizeLimit \in Nat /\ Word \in Nat \ {0} /\ SizeLimit < Word
    /\ Sizes \subseteq Nat /\ Counts \subseteq Nat

VARIABLES
    firstMalloc,
    heap,     \* md and mdListArr
    mapped,   \* mappedList: the size of each mapped block, 0 for none
    ptr,      \* the pointer in each handle
    asked,    \* the bytes the holder of each handle asked for
    data,     \* what is stored in each block in use, Junk elsewhere
    stored,   \* what the holder of each handle believes is there
    bad

vars == <<firstMalloc, heap, mapped, ptr, asked, data, stored, bad>>

MapIds == (Units + 1)..(Units + MaxMapped)
Zero == 0
Junk == -1

Init ==
    /\ firstMalloc = TRUE
    /\ heap = [md |-> [a \in Addr |-> NoMD], list |-> [k \in Orders |-> << >>]]
    /\ mapped = [m \in MapIds |-> 0]
    /\ ptr = [h \in Handles |-> NULL] /\ asked = [h \in Handles |-> 0]
    /\ data = [p \in Addr \cup MapIds |-> Junk]
    /\ stored = [h \in Handles |-> Junk]
    /\ bad = "no"

-----------------------------------------------------------------------------
(* smalloc. *)

invalidSize(size) == size = 0 \/ size > SizeLimit

(* smalloc that forgets the metadata when it looks for a block (mutation). *)
SmallocBare(H, size) ==
    IF invalidSize(size) THEN {[heap |-> H, p |-> NULL]}
    ELSE IF MetaSize + size <= bytes(MaxOrder)
    THEN {findExactSizeBlock(H, size)}
    ELSE {[heap |-> H, p |-> m] : m \in {n \in MapIds : mapped[n] = 0}}

(* The results smalloc can have on heap H: a block of the heap, NULL, or a *)
(* block from mmap.                                                        *)
Smalloc(H, size) ==
    IF invalidSize(size) THEN {[heap |-> H, p |-> NULL]}
    ELSE IF MetaSize + size <= bytes(MaxOrder)
    THEN {findExactSizeBlock(H, MetaSize + size)}
    ELSE {[heap |-> H, p |-> m] : m \in {n \in MapIds : mapped[n] = 0}}

HeapNow == IF firstMalloc THEN firstHeap ELSE heap

(* mappedList after smalloc returned p. *)
mapIn(p, size) ==
    mapped' = [m \in MapIds |-> IF m = p THEN MetaSize + size ELSE mapped[m]]

give(h, p, size, token) ==
    /\ ptr' = [ptr EXCEPT ![h] = p]
    /\ asked' = [asked EXCEPT ![h] = size]
    /\ stored' = [stored EXCEPT ![h] = token]

smalloc(h, size) ==
    /\ ptr[h] = NULL
    /\ firstMalloc' = FALSE
    /\ \E r \in Smalloc(HeapNow, size) :
          /\ heap' = r.heap /\ mapIn(r.p, size)
          /\ IF r.p = NULL THEN UNCHANGED <<ptr, asked, stored>>
             ELSE give(h, r.p, size, Junk)
    /\ UNCHANGED <<data, bad>>

(* memset(adrs, 0, tot_size): what the caller asked for is zero, unless    *)
(* the product has wrapped around.                                         *)
cleared(p, tot_size, total) == IF tot_size = total THEN Zero ELSE data[p]

scalloc(h, num, size) ==
    LET tot_size == (size * num) % Word IN
    /\ ptr[h] = NULL
    /\ IF size = 0 \/ num = 0 \/ tot_size > SizeLimit THEN UNCHANGED vars
       ELSE /\ firstMalloc' = FALSE
            /\ \E r \in Smalloc(HeapNow, tot_size) :
                  /\ heap' = r.heap /\ mapIn(r.p, tot_size)
                  /\ IF r.p = NULL THEN UNCHANGED <<ptr, asked, data, stored>>
                     ELSE /\ data' = [data EXCEPT ![r.p] = cleared(r.p, tot_size, size * num)]
                          /\ give(h, r.p, size * num, Zero)
            /\ UNCHANGED bad

-----------------------------------------------------------------------------
(* sfree. *)

sfree(h) ==
    LET p == ptr[h]
        c == coalesce(mark(heap, p, TRUE), p)
    IN  /\ p # NULL
        /\ give(h, NULL, 0, Junk)
        /\ data' = [data EXCEPT ![p] = Junk]
        /\ IF p \in MapIds
           THEN mapped' = [mapped EXCEPT ![p] = 0] /\ UNCHANGED <<heap, bad>>
           ELSE /\ heap' = c.heap
                /\ bad' = IF c.bad THEN "sfree" ELSE bad
                /\ UNCHANGED mapped
        /\ UNCHANGED firstMalloc

(* sfree of a block that is free already (lines 533-535).  An address that *)
(* a merge has left inside a larger block is not one.                      *)
sfreeAgain(p) == heap.md[p].is_free /\ UNCHANGED vars

-----------------------------------------------------------------------------
(* srealloc of a block of the heap.  Its comment excludes mapped blocks.   *)

(* is_free at the neighbour's address.  Beyond a block of order MaxOrder   *)
(* that is another block of that order or memory outside the heap,         *)
(* depending on where sbrk placed it: either answer is possible.           *)
neighbourFree(a, k) ==
    IF k = MaxOrder THEN BOOLEAN
    ELSE {heap.md[findNeighboringBlock(a, k)].is_free}

(* srealloc that does not copy (mutation). *)
notMoved(oldp, p) == data[p]

(* memmove(newMD, oldp, current->size) *)
moved(oldp, p) == data[oldp]

(* memmove takes current->size bytes from oldp, which is MetaSize beyond   *)
(* the start of the block: past the program break for the last block.      *)
readsPastEnd(H, a) == a + pow2[H.md[a].order] \notin Addr

(* Lines 609-627. *)
growInPlace(h, size, new_size) ==
    LET current == ptr[h]
        g == absorb(heap, current, new_size)
    IN  /\ heap' = g.heap
        /\ bad' \in IF g.bad THEN {"srealloc"}
                    ELSE IF readsPastEnd(g.heap, current) THEN {bad, "srealloc"}
                    ELSE {bad}
        /\ asked' = [asked EXCEPT ![h] = size]
        /\ UNCHANGED <<mapped, ptr, data, stored>>

(* moveAway that leaves the old block free when smalloc fails (mutation). *)
moveAwayNotRestored(h, size) ==
    LET current == ptr[h] IN
    \E r \in Smalloc(mark(heap, current, TRUE), size) :
       IF r.p = NULL
       THEN heap' = r.heap /\ UNCHANGED <<mapped, ptr, asked, data, stored, bad>>
       ELSE /\ heap' = r.heap /\ mapIn(r.p, size)
            /\ data' = [data EXCEPT ![r.p] = moved(current, r.p), ![current] = Junk]
            /\ give(h, r.p, size, stored[h])
            /\ UNCHANGED bad

(* Lines 628-638: the old block is marked free first, stays unmerged, and  *)
(* is in use again when smalloc fails.                                     *)
moveAway(h, size) ==
    LET current == ptr[h] IN
    \E r \in Smalloc(mark(heap, current, TRUE), size) :
       IF r.p = NULL THEN UNCHANGED <<heap, mapped, ptr, asked, data, stored, bad>>
       ELSE /\ heap' = r.heap /\ mapIn(r.p, size)
            /\ data' = [data EXCEPT ![r.p] = moved(current, r.p), ![current] = Junk]
            /\ give(h, r.p, size, stored[h])
            /\ bad' \in IF readsPastEnd(heap, current) THEN {bad, "srealloc"} ELSE {bad}

reallocBlock(h, size) ==
    LET current == ptr[h]
        k == heap.md[current].order
        new_size == (size + MetaSize) % Word
    IN  /\ current \in Addr
        /\ UNCHANGED firstMalloc
        /\ IF size = 0 THEN UNCHANGED <<heap, mapped, ptr, asked, data, stored, bad>>
           ELSE IF bytes(k) >= new_size
           THEN /\ asked' = [asked EXCEPT ![h] = size]
                /\ UNCHANGED <<heap, mapped, ptr, data, stored, bad>>
           ELSE \E free \in neighbourFree(current, k) :
                   IF free THEN growInPlace(h, size, new_size) ELSE moveAway(h, size)

srealloc(h, size) ==
    \/ ptr[h] = NULL /\ size # 0 /\ smalloc(h, size)
    \/ reallocBlock(h, size)

(* The caller stores something of its own. *)
Write(h) ==
    /\ ptr[h] # NULL
    /\ data' = [data EXCEPT ![ptr[h]] = h]
    /\ stored' = [stored EXCEPT ![h] = h]
    /\ UNCHANGED <<firstMalloc, heap, mapped, ptr, asked, bad>>

Next ==
    /\ bad = "no"
    /\ \/ \E h \in Handles :
             \/ sfree(h) \/ Write(h)
             \/ \E size \in Sizes : smalloc(h, size) \/ srealloc(h, size)
             \/ \E num \in Counts, size \in Sizes : scalloc(h, num, size)
       \/ \E p \in Addr : sfreeAgain(p)

Spec == Init /\ [][Next]_vars

-----------------------------------------------------------------------------
Sound == bad = "no" /\ ~firstMalloc

Blocks == {a \in Addr : heap.md[a] # NoMD}

Span(a) == a .. (a + pow2[heap.md[a].order] - 1)

(* The lists are what lines 105-107 say: list k holds exactly the blocks   *)
(* of order k, in the order of their addresses.  The blocks cover the heap *)
(* without overlap, each aligned to its size, and where sfree and srealloc *)
(* look for a neighbour (line 549) there is the metadata of a block.       *)
HeapPartition ==
    Sound =>
        /\ \A k \in Orders :
              /\ {heap.list[k][i] : i \in 1..Len(heap.list[k])} =
                    {a \in Blocks : heap.md[a].order = k}
              /\ \A i \in 1..(Len(heap.list[k]) - 1) :
                    heap.list[k][i] < heap.list[k][i + 1]
        /\ \A x \in Addr : \E b \in Blocks : {a \in Blocks : x \in Span(a)} = {b}
        /\ \A a \in Blocks :
              /\ a % pow2[heap.md[a].order] = 0
              /\ heap.md[a].order < MaxOrder =>
                    findNeighboringBlock(a, heap.md[a].order) \in Blocks

(* A block that is not free has exactly one owner, and owners hold only    *)
(* such blocks, mapped ones included.                                      *)
BlockOwners ==
    bad = "no" =>
        /\ {ptr[h] : h \in Handles} \ {NULL} =
              {a \in Blocks : ~heap.md[a].is_free} \cup {m \in MapIds : mapped[m] # 0}
        /\ \A g, h \in Handles : ptr[g] = ptr[h] /\ g # h => ptr[g] = NULL

(* No free memory is lost to smalloc: an aligned stretch of 2^k units that *)
(* is entirely free lies in one free block.  So smalloc returns NULL only  *)
(* when no such stretch is left, although srealloc frees the old block     *)
(* without merging it (line 630).                                          *)
FreeSpaceUsable ==
    Sound =>
        \A k \in Orders : \A a \in {x \in Addr : x % pow2[k] = 0} :
            (\A b \in Blocks : Span(b) \cap (a .. (a + pow2[k] - 1)) # {} =>
                                   heap.md[b].is_free)
            => \E b \in Blocks : (a .. (a + pow2[k] - 1)) \subseteq Span(b)

(* A caller's block has room for what it asked for, as long as no sum or   *)
(* product of sizes exceeds a size_t.                                      *)
RoomForRequest ==
    bad = "no" =>
        \A h \in Handles :
            /\ ptr[h] \in Addr => bytes(heap.md[ptr[h]].order) >= asked[h] + MetaSize
            /\ ptr[h] \in MapIds => mapped[ptr[h]] >= asked[h] + MetaSize

(* A caller finds in its block what it stored there, or the zeros of       *)
(* scalloc, after srealloc too.                                            *)
DataKept ==
    bad = "no" => \A h \in Handles : ptr[h] # NULL => data[ptr[h]] = stored[h]

(* "combine free neighbors" (line 557): what sfree combines is free, so no *)
(* block of a caller lies inside a free block.                             *)
CombinesOnlyFree ==
    \A h \in Handles, a \in Blocks :
        ptr[h] \in Addr /\ heap.md[a].is_free => ptr[h] \notin Span(a)

(* "if size or num are > 100000000 and neither are 0 then the mult should  *)
(* be > 100000000" (line 511): scalloc never gives out memory for more     *)
(* than the limit.                                                         *)
CallocRefusesLarge == \A h \in Handles : asked[h] <= SizeLimit
=============================================================================
