---------------------------- MODULE Malloc3Terms ----------------------------
(***************************************************************************)
(* The terms that the proofs about Malloc3 are written in, beside those    *)
(* about the heap: what each call makes of the callers' blocks, and the    *)
(* inductive invariant.                                                    *)
(***************************************************************************)
EXTENDS Malloc3, Malloc3HeapTerms

(* The products that callers give to scalloc, and the sizes that they give *)
(* to srealloc with the metadata, fit in a size_t.                         *)
NoWrap ==
    /\ \A size \in Sizes, num \in Counts : size * num < Word
    /\ \A size \in Sizes : size + MetaSize < Word

(* The callers. *)

(* pt holds the blocks in use and the mapped ones, each once. *)
Owned(md, mp, pt) ==
    /\ \A h \in Handles :
          pt[h] # NULL => pt[h] \in Used(md) \/ (pt[h] \in MapIds /\ mp[pt[h]] # 0)
    /\ \A a \in Used(md) : \E h \in Handles : pt[h] = a
    /\ \A m \in MapIds : mp[m] # 0 => \E h \in Handles : pt[h] = m
    /\ \A g, h \in Handles : pt[g] = pt[h] /\ g # h => pt[g] = NULL

Room(md, mp, pt, as) ==
    \A h \in Handles :
        /\ pt[h] \in Addr => bytes(md[pt[h]].order) >= as[h] + MetaSize
        /\ pt[h] \in MapIds => mp[pt[h]] >= as[h] + MetaSize

(* Memory that nobody holds stores nothing. *)
Idle(dt, pt) ==
    \A q \in Addr \cup MapIds : (\A h \in Handles : pt[h] # q) => dt[q] = Junk

Kept(dt, pt, st) == NoWrap => \A h \in Handles : pt[h] # NULL => dt[pt[h]] = st[h]

(* The results of smalloc on a heap. *)
IsSmalloc(H, mp, size, r) ==
    \/ r.p = NULL /\ r.heap = H
    \/ r.p \in MapIds /\ mp[r.p] = 0 /\ r.heap = H
    \/ /\ r.p \in Live(H.md) /\ H.md[r.p].is_free
       /\ bytes(H.md[r.p].order) >= MetaSize + size
       /\ \E k \in Orders : bytes(k) >= MetaSize + size /\ IsTaken(H, r.heap, r.p, k)

(* The state after r is given to h, which held nothing. *)
IsGiven(H, mp, pt, h, size, r, mp2, pt2) ==
    /\ HeapOK(r.heap) /\ (NoPairs(H.md) => NoPairs(r.heap.md))
    /\ Owned(r.heap.md, mp2, pt2)
    /\ r.p \in Addr \cup MapIds /\ \A g \in Handles : pt[g] # r.p
    /\ \A as \in [Handles -> Nat] : \A n \in Nat :
          Room(H.md, mp, pt, as) /\ n <= size =>
              Room(r.heap.md, mp2, pt2, [as EXCEPT ![h] = n])

(* The state after h gave back its block p. *)
IsReleased(H, G, mp, pt, pt1, p) ==
    /\ HeapOK(G) /\ p \in Live(G.md) /\ G.md[p].is_free /\ NoPairsBut(G.md, p)
    /\ G.md[p].order = H.md[p].order
    /\ Owned(G.md, mp, pt1)
    /\ \A as : Room(H.md, mp, pt, as) => Room(G.md, mp, pt1, as)
    /\ \/ H.md[p].order = MaxOrder
       \/ ~H.md[findNeighboringBlock(p, H.md[p].order)].is_free
       => NoPairs(G.md)

(* The states. *)

TypesOf(mp, pt, as, dt, st) ==
    /\ mp \in [MapIds -> Nat] /\ pt \in [Handles -> Addr \cup MapIds \cup {NULL}]
    /\ as \in [Handles -> Nat]
    /\ DOMAIN dt = Addr \cup MapIds /\ DOMAIN st = Handles

(* What holds in a state with the heap H. *)
Good(H, mp, pt, as, dt, st) ==
    /\ HeapOK(H) /\ NoPairs(H.md) /\ Owned(H.md, mp, pt)
    /\ Idle(dt, pt) /\ Kept(dt, pt, st)
    /\ NoWrap => Room(H.md, mp, pt, as)

(* Only what is stored at p may differ. *)
SameBut(dt, dt2, p) == \A q \in Addr \cup MapIds : q # p => dt2[q] = dt[q]

(* Nobody holds p. *)
Unheld(pt, p) == \A g \in Handles : pt[g] # p

(* The content v at p was handed over to h. *)
Handed(dt, pt, st, h, p, v, dt2, pt2, st2) == Idle(dt2, pt2) /\ Kept(dt2, pt2, st2)

(* h gave up the content at p. *)
Dropped(dt, pt, st, h, p, dt2, pt2, st2) == Idle(dt2, pt2) /\ Kept(dt2, pt2, st2)

Fine(H, mp, pt, as, dt, st) == TypesOf(mp, pt, as, dt, st) /\ Good(H, mp, pt, as, dt, st)

(* h, which holds nothing, gets r for n bytes, with v stored there. *)
Request(H, mp, pt, as, dt, st, h, size, n, r, v, mp2, pt2, as2, dt2, st2) ==
    /\ Fine(H, mp, pt, as, dt, st) /\ h \in Handles /\ pt[h] = NULL
    /\ size \in Nat /\ n \in Nat /\ (NoWrap => n <= size)
    /\ IsSmalloc(H, mp, size, r) /\ r.p # NULL
    /\ mp2 = [m \in MapIds |-> IF m = r.p THEN MetaSize + size ELSE mp[m]]
    /\ pt2 = [pt EXCEPT ![h] = r.p] /\ as2 = [as EXCEPT ![h] = n]
    /\ (NoWrap => dt2[r.p] = v) /\ SameBut(dt, dt2, r.p) /\ DOMAIN dt2 = DOMAIN dt
    /\ st2 = [st EXCEPT ![h] = v]

(* The request of h was served with r. *)
Served(H, mp, pt, as, dt, st, h, size, n, r, v, mp2, pt2, as2, dt2, st2) ==
    Fine(r.heap, mp2, pt2, as2, dt2, st2)

(* The room is still there when h alone asked for something else. *)
SameRoom(md, mp, pt, as, h, as2) == Room(md, mp, pt, as2)

(* The state between the release of p by h and what follows it. *)
Between(H, G, mp, pt, as, dt, st, h, p, pt2, dt2, st2) ==
    /\ TypesOf(mp, pt2, as, dt2, st2) /\ IsReleased(H, G, mp, pt, pt2, p)
    /\ Idle(dt2, pt2) /\ Kept(dt2, pt2, st2)
    /\ NoWrap => Room(G.md, mp, pt2, as)

(* h gave back its block p, and coalescing ended in c. *)
Freed(H, mp, pt, as, dt, st, h, p, c, pt2, as2, dt2, st2) ==
    Fine(c.heap, mp, pt2, as2, dt2, st2)

(* h gave back its mapped block p. *)
Unmapped(H, mp, pt, as, dt, st, h, p, mp2, pt2, as2, dt2, st2) ==
    Fine(H, mp2, pt2, as2, dt2, st2)

(* The block of h grew in place to size bytes. *)
GrewTo(H, mp, pt, as, dt, st, h, size, n, g, as2) ==
    Fine(g.heap, mp, pt, as2, dt, st)

(* h got its own block again. *)
Stayed(H, mp, pt, as, dt, st, h, size, n, as2) ==
    Fine(H, mp, pt, as2, dt, st)

(* h wrote v to its memory. *)
Written(H, mp, pt, as, dt, st, h, v, dt2, st2) ==
    Fine(H, mp, pt, as, dt2, st2)

(* h got the block r instead of p. *)
Moved(H, G, mp, pt, as, dt, st, h, p, size, r, mp2, pt2, as2, dt2, st2) ==
    Fine(r.heap, mp2, pt2, as2, dt2, st2)

(* The inductive invariant of the allocator.  Before the first call the    *)
(* heap is the one that call will find.                                    *)
Malloc3Inv ==
    /\ firstMalloc \in BOOLEAN
    /\ bad = "no" =>
          /\ Fine(HeapNow, mapped, ptr, asked, data, stored)
          /\ firstMalloc => /\ \A a \in Addr : heap.md[a] = NoMD
                            /\ \A h \in Handles : ptr[h] = NULL
=============================================================================
