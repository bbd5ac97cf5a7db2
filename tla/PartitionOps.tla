---------------------------- MODULE PartitionOps ----------------------------
(***************************************************************************)
(* The storage of one partition (partition.c) as operators: a table of     *)
(* chains, the list of elements by recency, and the bytes in use.          *)
(*                                                                         *)
(* A partition p is a record [table, lru, size].  The fields key and size  *)
(* of struct elem are given by a function el from elements to records.     *)
(***************************************************************************)
EXTENDS Naturals, Sequences, FiniteSets, SequencesExt

CONSTANTS
  Elems,      \* addresses memalign may return
  NULL,
  nhash,      \* number of buckets
  max_size,   \* bytes the partition may use
  evictalgo   \* "EVICT_LRU" or "EVICT_RANDOM"

ASSUME PartitionAssumption ==
  /\ NULL \notin Elems
  /\ nhash \in Nat \ {0} /\ max_size \in Nat
  /\ evictalgo \in {"EVICT_LRU", "EVICT_RANDOM"}

CACHELINE == 64
SIZEOF_ELEM == 64

\* What a value of the given size takes, header included.
elem_size(size) == ((SIZEOF_ELEM + size + (CACHELINE - 1)) \div CACHELINE) * CACHELINE

hash_get_bucket(k) == k % nhash

EmptyPartition == [table |-> [b \in 0..nhash - 1 |-> <<>>], lru |-> <<>>, size |-> 0]

\* The elements linked into the table.
InTable(p) == UNION {ToSet(p.table[b]) : b \in DOMAIN p.table}

\* The element of a chain with key k, or NULL.
Find(p, el, k) ==
  LET chain == p.table[hash_get_bucket(k)]
      i == SelectInSeq(chain, LAMBDA e : el[e].key = k)
  IN IF i = 0 THEN NULL ELSE chain[i]

lru(p, e) == [p EXCEPT !.lru = <<e>> \o RemoveFirst(@, e)]

\* What hash_lookup leaves behind when it has found e.
Touch(p, e) == IF evictalgo = "EVICT_LRU" /\ e # NULL THEN lru(p, e) ELSE p

\* Mutant: the bytes of the element are not given back.
hash_remove_size(p, el, e) ==
  [p EXCEPT !.table[hash_get_bucket(el[e].key)] = RemoveFirst(@, e),
            !.lru = IF evictalgo = "EVICT_LRU" THEN RemoveFirst(@, e) ELSE @]

\* Mutant: the element stays on the LRU list.
hash_remove_stale(p, el, e) ==
  [p EXCEPT !.table[hash_get_bucket(el[e].key)] = RemoveFirst(@, e), !.size = @ - el[e].size]

hash_remove(p, el, e) ==
  [p EXCEPT !.table[hash_get_bucket(el[e].key)] = RemoveFirst(@, e),
            !.lru = IF evictalgo = "EVICT_LRU" THEN RemoveFirst(@, e) ELSE @,
            !.size = @ - el[e].size]

\* Mutant: the most recently used element is evicted.
VictimsHead(p) ==
  IF evictalgo = "EVICT_LRU"
    THEN {Head(p.lru)}
    ELSE {Head(p.table[b]) : b \in {b \in DOMAIN p.table : p.table[b] # <<>>}}

\* Elements the eviction loop may pick: read_tsc() picks any bucket.
Victims(p) ==
  IF evictalgo = "EVICT_LRU"
    THEN {Last(p.lru)}
    ELSE {Head(p.table[b]) : b \in {b \in DOMAIN p.table : p.table[b] # <<>>}}

\* The element e, with key k, is linked in.
Link(p, e, k) ==
  [p EXCEPT !.table[hash_get_bucket(k)] = Append(@, e),
            !.lru = IF evictalgo = "EVICT_LRU" THEN <<e>> \o @ ELSE @]

\* The two linkages of an element agree: the LRU list holds each element of
\* the table exactly once, every chain holds only elements of its bucket, and
\* no two elements have the same key.
WellLinked(p, el) ==
  /\ evictalgo = "EVICT_LRU" => ToSet(p.lru) = InTable(p) /\ IsInjective(p.lru)
  /\ \A b \in 0..nhash - 1 :
       /\ IsInjective(p.table[b])
       /\ \A e \in ToSet(p.table[b]) : hash_get_bucket(el[e].key) = b
  /\ \A e, f \in InTable(p) : el[e].key = el[f].key => e = f

\* The cache lines of the elements in S, and the bytes of those in the table.
LinesIn(S, el) == UNION {{e} \X (1..el[e].size \div CACHELINE) : e \in S}
TableSize(p, el) == CACHELINE * Cardinality(LinesIn(InTable(p), el))
=============================================================================
