----------------------------- MODULE Partition -----------------------------
(***************************************************************************)
(* One partition (partition.c) and the thread that owns it: the server of  *)
(* the partition, or the holder of its lock.  hash_insert is a sequence of *)
(* steps, one for each turn of its eviction loop.  Here a released element *)
(* is free at once; reference counts are the subject of MpHashTable.       *)
(***************************************************************************)
EXTENDS PartitionOps

CONSTANTS Keys, Sizes  \* keys of this partition, sizes clients insert

ASSUME ValuesAssumption == Keys \subseteq Nat /\ Sizes \subseteq Nat

VARIABLES
  p,        \* struct partition
  el,       \* key and size of every element, and the bytes memalign gave it
  pc,       \* "idle", "evict" (in hash_insert), "abort", "destroyed"
  ins,      \* hash_insert: key, elem_size and size
  before,   \* history: the entries by recency when hash_insert began
  fails     \* history: how often memalign has failed in this hash_insert

vars == <<p, el, pc, ins, before, fails>>

NoInsert == [key |-> 0, size |-> 0, value |-> 0]
NoElem == [key |-> 0, size |-> 0, value |-> 0, alloc |-> 0]

Entries(q) == [i \in 1..Len(q) |-> [key |-> el[q[i]].key, size |-> el[q[i]].size]]

\* init_hash_partition
Init ==
  /\ p = EmptyPartition
  /\ el = [e \in Elems |-> NoElem]
  /\ pc = "idle" /\ ins = NoInsert /\ before = <<>> /\ fails = 0

hash_lookup(k) ==
  /\ pc = "idle"
  /\ p' = Touch(p, Find(p, el, k))
  /\ UNCHANGED <<el, pc, ins, before, fails>>

\* Mutant: an element with the same key stays in the table.
hash_insert_keep(k, size) ==
  /\ pc = "idle"
  /\ p' = [Touch(p, Find(p, el, k)) EXCEPT !.size = @ + elem_size(size)]
  /\ ins' = [key |-> k, size |-> elem_size(size), value |-> size]
  /\ before' = Entries(p.lru)
  /\ pc' = "evict"
  /\ UNCHANGED <<el, fails>>

\* hash_insert up to its loop.
hash_insert(k, size) ==
  /\ pc = "idle"
  /\ LET e == Find(p, el, k)
         q == Touch(p, e)
         r == IF e # NULL THEN hash_remove(q, el, e) ELSE q
     IN p' = [r EXCEPT !.size = @ + elem_size(size)]
  /\ ins' = [key |-> k, size |-> elem_size(size), value |-> size]
  /\ before' = Entries(p.lru)
  /\ pc' = "evict"
  /\ UNCHANGED <<el, fails>>

\* A turn of the loop has no element: the partition is too full, or there is
\* room in it and memalign returns NULL, as it may at any time.
NoElement ==
  \/ p.size > max_size /\ UNCHANGED fails
  \/ p.size <= max_size /\ fails' = fails + 1

\* Mutant: the assertion comes after the eviction.
EvictAssertLate ==
  /\ pc = "evict" /\ NoElement
  /\ IF p.lru = <<>>
       THEN pc' = "abort" /\ UNCHANGED p
       ELSE \E l \in Victims(p) :
              /\ p' = hash_remove(p, el, l)
              /\ pc' = IF p.size - el[l].size > ins.size THEN pc ELSE "abort"
  /\ UNCHANGED <<el, ins, before>>

\* One turn of the loop: assert(p->size > elem_size), then evict.
Evict ==
  /\ pc = "evict" /\ NoElement
  /\ \/ /\ p.size > ins.size
        /\ \E l \in Victims(p) : p' = hash_remove(p, el, l)
        /\ UNCHANGED pc
     \/ /\ ~(p.size > ins.size)
        /\ pc' = "abort" /\ UNCHANGED p
  /\ UNCHANGED <<el, ins, before>>

\* The C library's memalign(boundary, size): how many bytes it reserves when
\* it does not fail.
memalign(boundary, bytes) == bytes

\* The arguments are in the order of the call in hash_insert.
NewElem == [key |-> ins.key, size |-> ins.size, value |-> ins.value,
            alloc |-> memalign(SIZEOF_ELEM + ins.value, CACHELINE)]

\* Mutant: the loop allocates before it has made room.
InsertLinkNoRoom ==
  /\ pc = "evict"
  /\ \E e \in Elems \ InTable(p) :
       /\ el' = [el EXCEPT ![e] = NewElem]
       /\ p' = Link(p, e, ins.key)
  /\ pc' = "idle" /\ ins' = NoInsert /\ before' = <<>> /\ fails' = 0

\* memalign succeeds and the element is linked.
InsertLink ==
  /\ pc = "evict" /\ p.size <= max_size
  /\ \E e \in Elems \ InTable(p) :
       /\ el' = [el EXCEPT ![e] = NewElem]
       /\ p' = Link(p, e, ins.key)
  /\ pc' = "idle" /\ ins' = NoInsert /\ before' = <<>> /\ fails' = 0

\* destroy_hash_partition releases every element of every chain.
destroy_hash_partition ==
  /\ pc = "idle"
  /\ pc' = "destroyed"
  /\ p' = [EmptyPartition EXCEPT !.size = p.size - TableSize(p, el)]
  /\ UNCHANGED <<el, ins, before, fails>>

\* The process has stopped at the assertion, or the partition is gone.
Stopped == pc \in {"abort", "destroyed"} /\ UNCHANGED vars

Next ==
  \/ \E k \in Keys : hash_lookup(k) \/ \E size \in Sizes : hash_insert(k, size)
  \/ Evict \/ InsertLink \/ destroy_hash_partition \/ Stopped

Spec == Init /\ [][Next]_vars

-----------------------------------------------------------------------------
\* The chains and the LRU list hold elements, and hash_remove never takes the
\* partition's size, a size_t, below 0.
TypeOK ==
  /\ \A b \in 0..nhash - 1 : p.table[b] \in Seq(Elems)
  /\ p.lru \in Seq(Elems) /\ p.size \in Nat
  /\ pc \in {"idle", "evict", "abort", "destroyed"} /\ fails \in Nat

\* The table and the LRU list agree on what is in the partition, and no key is
\* in it twice.
TableConsistent == WellLinked(p, el)

\* p->size is the bytes of the elements in the table plus, during an insert,
\* those of the new element; destroy_hash_partition asserts it.
SizeExact == p.size = TableSize(p, el) + ins.size

\* Between calls a partition never uses more than its share of the memory.
CapacityKept == pc = "idle" => p.size <= max_size

\* The assertion in the eviction loop fails only when every element has been
\* evicted, and then for a value that is larger than the whole partition or
\* because memalign has no memory for it.
AbortOnlyEmpty == pc = "abort" => InTable(p) = {} /\ (ins.size > max_size \/ fails > 0)

\* "The server thread allocates size bytes of memory" (design.tex): what
\* memalign reserves for an element holds its header and its value.
ValueFits == \A e \in InTable(p) : SIZEOF_ELEM + el[e].value <= el[e].alloc

\* A partition with EVICT_LRU is an LRU cache: an insert takes effect when
\* the element is linked, and costs one entry for each time memalign failed.
LRU == INSTANCE LruCache
         WITH EntrySizes <- {elem_size(size) : size \in Sizes},
              cache <- IF pc \in {"evict", "abort"} THEN before ELSE Entries(p.lru)
ImplementsLruCache == LRU!Spec
=============================================================================
