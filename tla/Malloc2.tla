------------------------------ MODULE Malloc2 ------------------------------
(***************************************************************************)
(* The allocator of OS_HW4_234123/malloc_2.cpp: a list of blocks in the    *)
(* order of their addresses that only grows, first fit, and counters kept  *)
(* beside it.                                                              *)
(*                                                                         *)
(* A block is named by its place in globalPointersList, which no block     *)
(* ever leaves; 0 is NULL.  The memory of a block is a token for each of   *)
(* its bytes.  The caller is modelled by handles: each holds a pointer it  *)
(* was given and remembers, for each byte it asked for, what it relies on  *)
(* finding there.  A call of scalloc asks for the product as the code      *)
(* computes it: when that wraps around, it is less than num * size.        *)
(***************************************************************************)
EXTENDS Integers, Sequences, FiniteSets

CONSTANTS
    SizeLimit,   \* 100000000
    Word,        \* 2^64: a product of size_t values is taken modulo Word
    Sizes,       \* the sizes and counts the caller asks for
    Handles,     \* the pointers the caller keeps
    Tokens,      \* what the caller stores
    MaxBlocks,   \* bound: the blocks sbrk provides in a behaviour
    MetaSize     \* sizeof(MallocMetadata)

ASSUME Malloc2Assumption ==
    /\ SizeLimit \in Nat /\ Word \in Nat \ {0} /\ SizeLimit < Word
    /\ Sizes \subseteq Nat
    /\ MaxBlocks \in Nat /\ MetaSize \in Nat

VARIABLES
    heap,      \* the list of blocks and the five counters
    mem,       \* what each block holds
    ptr,       \* the pointer in each handle
    stored     \* what the holder of each handle relies on, Junk for nothing

vars == <<heap, mem, ptr, stored>>

NULL == 0
Zero == 0     \* the token of memory cleared by memset
Junk == -1    \* the token of memory nobody has written
Token == Tokens \cup {Zero, Junk}
Block == [size : Nat, is_free : BOOLEAN]
Blocks == 1..Len(heap.list)

Init ==
    /\ heap = [list |-> << >>, free_blocks |-> 0, free_bytes |-> 0,
               allocated_blocks |-> 0, allocated_bytes |-> 0,
               meta_data_bytes |-> 0]
    /\ mem = << >>
    /\ ptr = [h \in Handles |-> NULL] /\ stored = [h \in Handles |-> << >>]

-----------------------------------------------------------------------------
(* The pieces that smalloc, scalloc and srealloc repeat. *)

invalid(size) == size = 0 \/ size > SizeLimit

(* The test of the search loop without is_free (mutation). *)
fitsAny(b, size) == b.size >= size

(* The test of the search loop. *)
fits(b, size) == b.size >= size /\ b.is_free

(* The block the search loop stops at, NULL when it runs off the end. *)
firstFit(H, size) ==
    IF \E i \in 1..Len(H.list) : fits(H.list[i], size)
    THEN CHOOSE i \in 1..Len(H.list) :
            /\ fits(H.list[i], size)
            /\ \A j \in 1..(i - 1) : ~fits(H.list[j], size)
    ELSE NULL

(* The list with is_free of block i set. *)
mark(l, i, is_free) == [l EXCEPT ![i] = [size |-> l[i].size, is_free |-> is_free]]

(* A free block is handed out, whole. *)
reuse(H, i) ==
    [list |-> mark(H.list, i, FALSE),
     free_blocks |-> H.free_blocks - 1,
     free_bytes |-> H.free_bytes - H.list[i].size,
     allocated_blocks |-> H.allocated_blocks,
     allocated_bytes |-> H.allocated_bytes,
     meta_data_bytes |-> H.meta_data_bytes]

(* A block from sbrk that is not linked (mutation). *)
extendUnlinked(H, size) == [H EXCEPT !.allocated_blocks = @ + 1]

(* A block from sbrk whose metadata counts as allocated bytes (mutation). *)
extendCountsMeta(H, size) ==
    [H EXCEPT !.list = Append(@, [size |-> size, is_free |-> FALSE]),
              !.allocated_blocks = @ + 1,
              !.allocated_bytes = @ + size + MetaSize,
              !.meta_data_bytes = @ + MetaSize]

(* sbrk provides a block, linked at the end of the list. *)
extend(H, size) ==
    [list |-> Append(H.list, [size |-> size, is_free |-> FALSE]),
     free_blocks |-> H.free_blocks,
     free_bytes |-> H.free_bytes,
     allocated_blocks |-> H.allocated_blocks + 1,
     allocated_bytes |-> H.allocated_bytes + size,
     meta_data_bytes |-> H.meta_data_bytes + MetaSize]

(* sfree without its test for a block that is free already (mutation). *)
sfreeAlways(H, p) ==
    IF p = NULL THEN H
    ELSE [H EXCEPT !.list = mark(@, p, TRUE),
                   !.free_blocks = @ + 1,
                   !.free_bytes = @ + H.list[p].size]

sfree(H, p) ==
    IF p = NULL \/ H.list[p].is_free THEN H
    ELSE [list |-> mark(H.list, p, TRUE),
          free_blocks |-> H.free_blocks + 1,
          free_bytes |-> H.free_bytes + H.list[p].size,
          allocated_blocks |-> H.allocated_blocks,
          allocated_bytes |-> H.allocated_bytes,
          meta_data_bytes |-> H.meta_data_bytes]

(* What an allocation of `size' bytes can do: the heap after it and the    *)
(* pointer, NULL when sbrk fails.  sbrk may fail whenever it is called.    *)
Allocation(size) ==
    LET i == firstFit(heap, size) IN
    IF i # NULL THEN {[heap |-> reuse(heap, i), p |-> i]}
    ELSE IF Len(heap.list) = MaxBlocks THEN {[heap |-> heap, p |-> NULL]}
    ELSE {[heap |-> heap, p |-> NULL],
          [heap |-> extend(heap, size), p |-> Len(heap.list) + 1]}

(* n bytes, each with the same token. *)
same(n, token) == [i \in 1..n |-> token]

(* Block p as an allocation of n bytes finds it: new, or as its last owner *)
(* left it.                                                                *)
found(p, n) == IF p \in DOMAIN mem THEN mem[p] ELSE same(n, Junk)

(* Contents c once the first n bytes are those of the contents d. *)
overwritten(c, n, d) == [i \in 1..Len(c) |-> IF i <= n THEN d[i] ELSE c[i]]

(* The memory once block p, which may be new, has contents c. *)
put(p, c) == IF p \in DOMAIN mem THEN [mem EXCEPT ![p] = c] ELSE Append(mem, c)

(* Handle h gets pointer p and relies on s. *)
give(h, p, s) ==
    /\ ptr' = [ptr EXCEPT ![h] = p]
    /\ stored' = [stored EXCEPT ![h] = s]

(* The first n bytes of s; bytes beyond s are nobody's. *)
resized(s, n) == [i \in 1..n |-> IF i <= Len(s) THEN s[i] ELSE Junk]

(* An early return of NULL. *)
nothingChanges == UNCHANGED vars

-----------------------------------------------------------------------------
(* The caller's calls.  A handle that receives a pointer is empty before.  *)

smalloc(h, size) ==
    /\ ptr[h] = NULL
    /\ IF invalid(size) THEN nothingChanges
       ELSE \E r \in Allocation(size) :
               /\ heap' = r.heap
               /\ IF r.p = NULL THEN UNCHANGED <<mem, ptr, stored>>
                  ELSE mem' = put(r.p, found(r.p, size)) /\ give(h, r.p, same(size, Junk))

(* Memory handed out by scalloc without its memset (mutation). *)
notCleared(c, n) == c

(* memset(p, 0, n): the rest of a larger block stays as it was. *)
cleared(c, n) == overwritten(c, n, same(n, Zero))

scalloc(h, num, size) ==
    LET bytes == (size * num) % Word IN
    /\ ptr[h] = NULL
    /\ IF size = 0 \/ num = 0 \/ bytes > SizeLimit THEN nothingChanges
       ELSE \E r \in Allocation(bytes) :
               /\ heap' = r.heap
               /\ IF r.p = NULL THEN UNCHANGED <<mem, ptr, stored>>
                  ELSE /\ mem' = put(r.p, cleared(found(r.p, bytes), bytes))
                       /\ give(h, r.p, same(bytes, Zero))

(* sfree(NULL), sfree of a pointer the caller holds, and sfree of a block  *)
(* that is free already, which the code tolerates.                         *)
sfreeHeld(h) ==
    /\ heap' = sfree(heap, ptr[h])
    /\ give(h, NULL, << >>)
    /\ UNCHANGED mem

sfreeAgain(p) ==
    /\ p \in Blocks /\ heap.list[p].is_free
    /\ heap' = sfree(heap, p)
    /\ UNCHANGED <<mem, ptr, stored>>

(* srealloc without its memcpy (mutation). *)
notCopied(c, n, oldp) == c

(* memcpy(newp, oldp, n).  It reads n bytes of an old block that is        *)
(* smaller: the old contents arrive, with whatever lies behind them.       *)
copied(c, n, oldp) == overwritten(c, n, resized(mem[oldp], n))

srealloc(h, size) ==
    LET oldp == ptr[h]
        keeps == resized(stored[h], size)
    IN  /\ oldp # NULL
        /\ IF invalid(size) THEN nothingChanges
           ELSE IF size <= heap.list[oldp].size
           THEN give(h, oldp, keeps) /\ UNCHANGED <<heap, mem>>
           ELSE \E r \in Allocation(size) :
                   IF r.p = NULL THEN heap' = r.heap /\ UNCHANGED <<mem, ptr, stored>>
                   ELSE /\ heap' = sfree(r.heap, oldp)
                        /\ mem' = put(r.p, copied(found(r.p, size), size, oldp))
                        /\ give(h, r.p, keeps)

(* The caller fills what it asked for with a token. *)
Write(h, token) ==
    LET n == Len(stored[h]) IN
    /\ ptr[h] # NULL
    /\ mem' = [mem EXCEPT ![ptr[h]] = overwritten(@, n, same(n, token))]
    /\ stored' = [stored EXCEPT ![h] = same(n, token)]
    /\ UNCHANGED <<heap, ptr>>

Next ==
    \/ \E h \in Handles, size \in Sizes : smalloc(h, size) \/ srealloc(h, size)
    \/ \E h \in Handles, num, size \in Sizes : scalloc(h, num, size)
    \/ \E h \in Handles : sfreeHeld(h)
    \/ \E p \in 1..MaxBlocks : sfreeAgain(p)
    \/ \E h \in Handles, token \in Tokens : Write(h, token)

Spec == Init /\ [][Next]_vars

-----------------------------------------------------------------------------
FreeBlocks == {i \in Blocks : heap.list[i].is_free}

HeapType ==
    [list : Seq(Block), free_blocks : Nat, free_bytes : Int,
     allocated_blocks : Nat, allocated_bytes : Nat, meta_data_bytes : Nat]

(* Type invariant: in particular num_of_free_blocks, which is unsigned,    *)
(* never goes below zero.                                                  *)
HeapTypeOK ==
    /\ heap \in HeapType
    /\ mem \in Seq(Seq(Token)) /\ Len(mem) = Len(heap.list)
    /\ \A i \in Blocks : Len(mem[i]) = heap.list[i].size
    /\ ptr \in [Handles -> Blocks \cup {NULL}]
    /\ stored \in [Handles -> Seq(Token)]

(* num_of_free_blocks, num_of_allocated_blocks and num_of_meta_data_bytes  *)
(* (lines 9-13) agree with the list through reuse, growth, frees, repeated *)
(* frees and the free hidden in srealloc.                                  *)
CountersExact ==
    /\ heap.free_blocks = Cardinality(FreeBlocks)
    /\ heap.allocated_blocks = Len(heap.list)
    /\ heap.meta_data_bytes = MetaSize * Len(heap.list)

(* The sum of the sizes of the blocks of the list l that are in S. *)
bytesOf(l, S) ==
    LET sum[n \in 0..Len(l)] ==
            IF n = 0 THEN 0
            ELSE sum[n - 1] + (IF n \in S THEN l[n].size ELSE 0)
    IN  sum[Len(l)]

(* The byte counters (lines 10 and 12) agree with the list too. *)
BytesExact ==
    /\ heap.free_bytes = bytesOf(heap.list, FreeBlocks)
    /\ heap.allocated_bytes = bytesOf(heap.list, Blocks)

(* A block that is not free belongs to exactly one caller, and a caller    *)
(* holds only such blocks: no block is handed out twice, a block freed     *)
(* twice is not handed out twice, and an srealloc that fails (lines 182-   *)
(* 189 and 214) leaves the old block with its caller.                      *)
OneOwner ==
    /\ \A i \in Blocks : ~heap.list[i].is_free <=> \E h \in Handles : ptr[h] = i
    /\ \A g, h \in Handles : ptr[g] = ptr[h] /\ g # h => ptr[g] = NULL

(* Contents c have room for s and hold what s relies on. *)
Holds(c, s) ==
    Len(s) <= Len(c) /\ \A i \in 1..Len(s) : s[i] # Junk => c[i] = s[i]

(* A caller's block has the bytes it asked for, and the caller finds there *)
(* what it stored, zeros after scalloc even in a recycled block, and after *)
(* srealloc what the old block held, up to the shorter of the two lengths. *)
(* After scalloc these are the bytes of the product as line 100 computes   *)
(* it: of a product that wraps, memset (lines 114 and 153) clears no more. *)
ContentsKept == \A h \in Handles : ptr[h] # NULL => Holds(mem[ptr[h]], stored[h])
=============================================================================
