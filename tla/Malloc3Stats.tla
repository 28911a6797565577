---------------------------- MODULE Malloc3Stats ----------------------------
(* The statistics of malloc_3.cpp, over the heap and the mapped blocks of  *)
(* Malloc3.                                                                *)
EXTENDS Malloc3, FiniteSetsExt

CONSTANT IntWord    \* 2^32: an int holds its value modulo IntWord

ASSUME StatsAssumption == IntWord \in Nat \ {0}

(* A value added up in an int and returned as a size_t. *)
asInt(x) == (((x + IntWord \div 2) % IntWord) - IntWord \div 2) % Word

mappedNow == {m \in MapIds : mapped[m] # 0}

free(k) == {i \in 1..Len(heap.list[k]) : heap.md[heap.list[k][i]].is_free}

num_free_blocks == asInt(MapThenSumSet(LAMBDA k : Cardinality(free(k)), Orders))

(* The one sum that is a size_t. *)
num_free_bytes ==
    MapThenSumSet(LAMBDA k : Cardinality(free(k)) * (bytes(k) - MetaSize), Orders)

(* The blocks of the heap only (mutation). *)
num_heap_blocks == asInt(MapThenSumSet(LAMBDA k : Len(heap.list[k]), Orders))

num_allocated_blocks ==
    asInt(MapThenSumSet(LAMBDA k : Len(heap.list[k]), Orders) + Cardinality(mappedNow))

num_allocated_bytes ==
    asInt(MapThenSumSet(LAMBDA k : Len(heap.list[k]) * (bytes(k) - MetaSize), Orders)
          + MapThenSumSet(LAMBDA m : mapped[m] - MetaSize, mappedNow))

num_meta_data_bytes == (num_allocated_blocks * MetaSize) % Word

(* The statistics account for every byte: payload and metadata make up the *)
(* heap and the mappings, and what is counted and not free is what the     *)
(* callers hold.  bytesCnt (line 415) is an int: the figures are exact     *)
(* while the heap and the mappings are less than its range, and from then  *)
(* on they agree modulo 2^32 only.                                         *)
StatsConserved ==
    Sound =>
        LET held == {h \in Handles : ptr[h] # NULL}
            size(p) == IF p \in MapIds THEN mapped[p] ELSE bytes(heap.md[p].order)
            total == Roots * bytes(MaxOrder) + MapThenSumSet(LAMBDA m : mapped[m], mappedNow)
            agree(x, y) == IF total < IntWord \div 2 THEN x = y
                           ELSE (x - y) % IntWord = 0
        IN  /\ agree(num_allocated_bytes + num_meta_data_bytes, total)
            /\ agree(num_allocated_blocks - num_free_blocks, Cardinality(held))
            /\ agree(num_allocated_bytes - num_free_bytes,
                     MapThenSumSet(LAMBDA h : size(ptr[h]) - MetaSize, held))
=============================================================================
