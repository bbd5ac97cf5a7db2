--------------------------- MODULE PartitionProofs ---------------------------
(***************************************************************************)
(* Proofs about Partition: for every number of buckets, capacity, key and  *)
(* value size and for both eviction policies the table stays linked        *)
(* correctly, p->size is the bytes in the table, and the capacity is kept. *)
(***************************************************************************)
EXTENDS Partition, PartitionOpsProofs, FunctionTheorems

-----------------------------------------------------------------------------
(* The invariant *)

ElemTypes == [key : Nat, size : Lines, value : Nat, alloc : Nat]

\* The elements and the insert in progress are what hash_insert made them.
PartitionTypes ==
  /\ el \in [Elems -> ElemTypes]
  /\ ins \in [key : Nat, size : Lines, value : Nat]
  /\ pc \in {"idle", "evict", "abort", "destroyed"} /\ fails \in Nat

\* hash_insert has removed the old element of its key and has set aside bytes
\* for the new one; between calls none are.
InsertBegun ==
  /\ pc = "evict" => ins.size > 0 /\ \A e \in InTable(p) : el[e].key # ins.key
  /\ pc \in {"idle", "destroyed"} => ins.size = 0

\* No element is so small that the size would not show it.
NoneEmpty == \A e \in InTable(p) : el[e].size > 0

PartitionInv ==
  /\ PartitionTypes /\ InsertBegun /\ NoneEmpty
  /\ Sound(p, el)
  /\ IsFiniteSet(LinesIn(InTable(p), el)) /\ SizeExact
  /\ CapacityKept /\ AbortOnlyEmpty


\* The invariant gives what is needed of one element, and the bytes in use.
LEMMA PartitionFacts ==
  ASSUME PartitionInv
  PROVE  /\ \A e \in Elems : el[e] \in ElemTypes /\ el[e].size \in Int /\ el[e].key \in Nat
         /\ p \in Partitions /\ InTable(p) \subseteq Elems
         /\ ins.key \in Nat /\ ins.size \in Nat /\ fails \in Nat
         /\ TableSize(p, el) \in Nat /\ p.size \in Nat
<1>1. \A e \in Elems : el[e] \in ElemTypes /\ el[e].size \in Int /\ el[e].key \in Nat
  BY DEF PartitionInv, PartitionTypes, ElemTypes, Lines
<1>2. p \in Partitions
  BY DEF PartitionInv, Sound
<1>3. InTable(p) \subseteq Elems
  BY <1>2, TableFacts
<1>4. ins.key \in Nat /\ ins.size \in Nat /\ fails \in Nat
  BY DEF PartitionInv, PartitionTypes, Lines
<1>5. Cardinality(LinesIn(InTable(p), el)) \in Nat
  BY FS_CardinalityType DEF PartitionInv
<1>6. TableSize(p, el) \in Nat
  BY <1>5 DEF TableSize, CACHELINE
<1> QED
  BY <1>1, <1>2, <1>3, <1>4, <1>6 DEF PartitionInv, SizeExact

\* The bytes in use change by those of the element that is unlinked.
LEMMA TableSizeRemove ==
  ASSUME PartitionInv, NEW q, Sound(q, el), InTable(q) = InTable(p), q.size = p.size,
         NEW e \in InTable(p), NEW r, r = hash_remove(q, el, e)
  PROVE  /\ Sound(r, el) /\ InTable(r) = InTable(p) \ {e}
         /\ IsFiniteSet(LinesIn(InTable(r), el))
         /\ r.size = TableSize(r, el) + ins.size
         /\ r.size \in Nat
<1>1. e \in Elems /\ el[e].size \in Lines /\ el[e].size \in Nat
  BY PartitionFacts DEF ElemTypes, Lines
<1>2. TableSize(q, el) = TableSize(p, el) /\ IsFiniteSet(LinesIn(InTable(q), el))
  BY DEF TableSize, PartitionInv
<1>3. /\ Sound(r, el) /\ InTable(r) = InTable(p) \ {e} /\ r.size = p.size - el[e].size
      /\ IsFiniteSet(LinesIn(InTable(r), el))
      /\ TableSize(r, el) \in Nat /\ TableSize(q, el) = TableSize(r, el) + el[e].size
  BY <1>1, <1>2, RemoveSize
<1> QED
  BY <1>1, <1>2, <1>3, PartitionFacts DEF PartitionInv, SizeExact

\* hash_lookup: only the order of the LRU list changes.
LEMMA LookupKeepsInv ==
  ASSUME PartitionInv, NEW k \in Keys, hash_lookup(k)
  PROVE  PartitionInv'
<1>1. k \in Nat /\ Sound(p, el)
  BY ValuesAssumption DEF PartitionInv
<1>2. Find(p, el, k) \in InTable(p) \cup {NULL}
  BY <1>1, FindFacts
<1>3. Sound(p', el) /\ InTable(p') = InTable(p) /\ p'.size = p.size
  BY <1>1, <1>2, TouchFacts DEF hash_lookup
<1>4. UNCHANGED <<el, pc, ins, fails>>
  BY DEF hash_lookup
<1>5. PartitionTypes' /\ InsertBegun' /\ NoneEmpty'
  BY <1>3, <1>4 DEF PartitionInv, PartitionTypes, InsertBegun, NoneEmpty
<1>6. IsFiniteSet(LinesIn(InTable(p'), el')) /\ SizeExact'
  BY <1>3, <1>4 DEF PartitionInv, SizeExact, TableSize
<1> QED
  BY <1>3, <1>4, <1>5, <1>6 DEF PartitionInv, CapacityKept, AbortOnlyEmpty

\* hash_insert up to its loop: an old element of the key goes, and the bytes of
\* the new one are set aside.
LEMMA InsertKeepsInv ==
  ASSUME PartitionInv, NEW k \in Keys, NEW size \in Sizes, hash_insert(k, size)
  PROVE  PartitionInv'
<1> DEFINE e == Find(p, el, k)
           q == Touch(p, e)
           r == IF e # NULL THEN hash_remove(q, el, e) ELSE q
           n == r.size + elem_size(size)
<1>1. k \in Nat /\ size \in Nat /\ Sound(p, el) /\ pc = "idle" /\ ins.size = 0
  BY ValuesAssumption DEF PartitionInv, hash_insert, InsertBegun
<1>2. elem_size(size) \in Lines /\ elem_size(size) \in Nat /\ elem_size(size) > 0
  BY <1>1, ElemSizeFacts DEF Lines, SIZEOF_ELEM
<1>3. \/ e = NULL /\ \A f \in InTable(p) : el[f].key # k
      \/ e \in InTable(p) /\ el[e].key = k
  BY <1>1, FindFacts
<1>4. Sound(q, el) /\ InTable(q) = InTable(p) /\ q.size = p.size
  BY <1>1, <1>3, TouchFacts
<1>5. p' = [r EXCEPT !.size = n]
  BY DEF hash_insert
<1>6. UNCHANGED <<el, fails>> /\ pc' = "evict"
  BY DEF hash_insert
<1>7. ins' = [key |-> k, size |-> elem_size(size), value |-> size]
  BY DEF hash_insert
<1> HIDE DEF e, q
<1>8. /\ Sound(r, el) /\ IsFiniteSet(LinesIn(InTable(r), el))
      /\ r.size = TableSize(r, el) /\ r.size \in Nat
      /\ \A f \in InTable(r) : el[f].key # k /\ el[f].size > 0
  <2>1. CASE e = NULL
    <3>1. r = q /\ \A f \in InTable(p) : el[f].key # k
      <4>1. NULL \notin InTable(p)
        BY PartitionFacts, PartitionAssumption
      <4> QED
        BY <4>1, <2>1, <1>3
    <3>2. p.size = TableSize(p, el) + 0 /\ p.size \in Nat /\ TableSize(p, el) \in Nat
      BY <1>1, PartitionFacts DEF PartitionInv, SizeExact
    <3>3. IsFiniteSet(LinesIn(InTable(p), el))
      BY DEF PartitionInv
    <3>4. \A f \in InTable(p) : el[f].size > 0
      BY DEF PartitionInv, NoneEmpty
    <3> QED
      BY <3>1, <3>2, <3>3, <3>4, <1>4 DEF TableSize
  <2>2. CASE e # NULL
    <3>1. r = hash_remove(q, el, e) /\ e \in InTable(p) /\ el[e].key = k
      BY <2>2, <1>3
    <3> HIDE DEF r
    <3>2. /\ Sound(r, el) /\ InTable(r) = InTable(p) \ {e}
          /\ IsFiniteSet(LinesIn(InTable(r), el))
          /\ r.size = TableSize(r, el) + ins.size /\ r.size \in Nat
      BY <3>1, <1>4, TableSizeRemove
    <3>3. TableSize(r, el) \in Nat
      <4>1. Cardinality(LinesIn(InTable(r), el)) \in Nat
        BY <3>2, FS_CardinalityType
      <4> QED
        BY <4>1 DEF TableSize, CACHELINE
    <3>4. \A f \in InTable(r) : el[f].key # k /\ el[f].size > 0
      BY <3>1, <3>2, <1>1 DEF PartitionInv, NoneEmpty, Sound, WellLinked
    <3> QED
      BY <3>2, <3>3, <3>4, <1>1
  <2> QED
    BY <2>1, <2>2
<1> HIDE DEF r
<1>9. Sound(p', el) /\ InTable(p') = InTable(r) /\ p'.size = n
  <2>1. n \in Int /\ r \in Partitions
    BY <1>2, <1>8 DEF Sound
  <2>2. p'.size = n
    BY <2>1, <1>5 DEF Partitions
  <2> QED
    BY <2>1, <2>2, <1>5, <1>8, SoundSize
<1>10. ins'.key = k /\ ins'.size = elem_size(size)
  BY <1>7
<1>11. PartitionTypes'
  BY <1>1, <1>2, <1>6, <1>7 DEF PartitionInv, PartitionTypes
<1>12. SizeExact' /\ IsFiniteSet(LinesIn(InTable(p'), el'))
  BY <1>6, <1>8, <1>9, <1>10 DEF SizeExact, TableSize
<1>13. InsertBegun' /\ NoneEmpty'
  BY <1>2, <1>6, <1>8, <1>9, <1>10 DEF InsertBegun, NoneEmpty
<1> QED
  BY <1>6, <1>9, <1>11, <1>12, <1>13 DEF PartitionInv, CapacityKept, AbortOnlyEmpty

\* A table whose elements take no bytes has none.
LEMMA NoBytesNoElements ==
  ASSUME PartitionInv, TableSize(p, el) = 0
  PROVE  InTable(p) = {}
<1>1. SUFFICES ASSUME NEW e \in InTable(p) PROVE FALSE
  OBVIOUS
<1>2. Cardinality(LinesIn(InTable(p), el)) = 0
  <2>1. Cardinality(LinesIn(InTable(p), el)) \in Nat
    BY FS_CardinalityType DEF PartitionInv
  <2> QED
    BY <2>1 DEF TableSize, CACHELINE
<1>3. LinesIn(InTable(p), el) = {}
  BY <1>2, FS_EmptySet DEF PartitionInv
<1>4. 1 \in 1..el[e].size \div CACHELINE
  <2>1. el[e].size \in Nat /\ el[e].size % 64 = 0 /\ el[e].size > 0
    BY PartitionFacts DEF PartitionInv, NoneEmpty, ElemTypes, Lines, CACHELINE
  <2>2. el[e].size \div 64 \in Nat /\ el[e].size = 64 * (el[e].size \div 64)
    BY <2>1
  <2> QED
    BY <2>1, <2>2 DEF CACHELINE
<1>5. <<e, 1>> \in LinesIn(InTable(p), el)
  BY <1>4 DEF LinesIn
<1> QED
  BY <1>3, <1>5

\* The eviction loop: as long as the size is above that of the new element
\* there is an element in the table to evict.
LEMMA EvictKeepsInv ==
  ASSUME PartitionInv, Evict
  PROVE  PartitionInv'
<1>1. /\ UNCHANGED <<el, ins>> /\ pc = "evict" /\ ins.size > 0
      /\ Sound(p, el) /\ max_size \in Nat
  BY PartitionAssumption DEF Evict, PartitionInv, InsertBegun
<1>0. /\ fails' \in Nat /\ (p.size > max_size \/ fails' > 0)
  BY PartitionFacts DEF Evict, NoElement
<1>2. CASE p.size > ins.size /\ (\E l \in Victims(p) : p' = hash_remove(p, el, l)) /\ UNCHANGED pc
  <2>1. InTable(p) # {}
    <3>1. SUFFICES ASSUME InTable(p) = {} PROVE FALSE
      OBVIOUS
    <3>2. TableSize(p, el) = 0
      BY <3>1, LinesEmpty DEF TableSize
    <3> QED
      BY <3>2, <1>2, PartitionFacts DEF PartitionInv, SizeExact
  <2>2. PICK l \in InTable(p) : p' = hash_remove(p, el, l)
    BY <2>1, <1>1, <1>2, VictimFacts
  <2>3. /\ Sound(p', el) /\ InTable(p') = InTable(p) \ {l}
        /\ IsFiniteSet(LinesIn(InTable(p'), el))
        /\ p'.size = TableSize(p', el) + ins.size
    BY <2>2, <1>1, TableSizeRemove
  <2>4. PartitionTypes' /\ InsertBegun' /\ NoneEmpty'
    BY <2>3, <1>0, <1>1, <1>2 DEF PartitionInv, PartitionTypes, InsertBegun, NoneEmpty
  <2>5. SizeExact'
    BY <2>3, <1>1 DEF SizeExact
  <2> QED
    BY <2>3, <2>4, <2>5, <1>1, <1>2 DEF PartitionInv, CapacityKept, AbortOnlyEmpty
<1>3. CASE ~(p.size > ins.size) /\ pc' = "abort" /\ UNCHANGED p
  <2>1. ins.size > max_size \/ fails' > 0
    BY <1>0, <1>1, <1>3, PartitionFacts
  <2>2. InTable(p) = {}
    <3>1. TableSize(p, el) = 0
      BY <1>3, PartitionFacts DEF PartitionInv, SizeExact
    <3> QED
      BY <3>1, NoBytesNoElements
  <2>3. PartitionTypes' /\ InsertBegun' /\ NoneEmpty'
    BY <1>0, <1>1, <1>3 DEF PartitionInv, PartitionTypes, InsertBegun, NoneEmpty
  <2>4. AbortOnlyEmpty'
    BY <2>1, <2>2, <1>1, <1>3 DEF AbortOnlyEmpty
  <2> QED
    BY <2>3, <2>4, <1>1, <1>3 DEF PartitionInv, CapacityKept, SizeExact
<1> QED
  BY <1>2, <1>3 DEF Evict

\* The end of hash_insert: the bytes set aside become those of the element.
LEMMA LinkKeepsInv ==
  ASSUME PartitionInv, InsertLink
  PROVE  PartitionInv'
<1>1. PICK e \in Elems \ InTable(p) : el' = [el EXCEPT ![e] = NewElem] /\ p' = Link(p, e, ins.key)
  BY DEF InsertLink
<1>2. /\ pc = "evict" /\ p.size <= max_size /\ pc' = "idle" /\ ins' = NoInsert
      /\ fails' = 0 /\ ins.size > 0 /\ Sound(p, el) /\ \A f \in InTable(p) : el[f].key # ins.key
  BY DEF InsertLink, PartitionInv, InsertBegun
<1>3. NewElem \in ElemTypes /\ NewElem.key = ins.key /\ NewElem.size = ins.size
  <2>1. ins.key \in Nat /\ ins.size \in Lines /\ ins.value \in Nat
    BY DEF PartitionInv, PartitionTypes
  <2>2. memalign(SIZEOF_ELEM + ins.value, CACHELINE) \in Nat
    BY DEF memalign, CACHELINE
  <2> QED
    BY <2>1, <2>2 DEF NewElem, ElemTypes
<1>4. /\ el' \in [Elems -> ElemTypes] /\ el'[e].key = ins.key /\ el'[e].size = ins.size
      /\ \A f \in InTable(p) : el'[f] = el[f]
  <2>1. el \in [Elems -> ElemTypes] /\ InTable(p) \subseteq Elems
    BY PartitionFacts DEF PartitionInv, PartitionTypes
  <2> QED
    BY <2>1, <1>1, <1>3
<1>5. \A f \in Elems : el'[f].key \in Nat
  BY <1>4 DEF ElemTypes
<1>6. Sound(p, el')
  BY <1>2, <1>4, <1>5, SoundFrame
<1>7. Sound(p', el') /\ InTable(p') = InTable(p) \cup {e} /\ p'.size = p.size
  <2>1. \A f \in InTable(p) : el'[f].key # el'[e].key
    BY <1>2, <1>4
  <2>2. p' = Link(p, e, el'[e].key) /\ el'[e].key \in Nat
    BY <1>1, <1>4, <1>5
  <2> QED
    BY <2>1, <2>2, <1>6, LinkFacts
<1>8. LinesIn(InTable(p), el') = LinesIn(InTable(p), el) /\ IsFiniteSet(LinesIn(InTable(p), el))
  BY <1>4, LinesFrame DEF PartitionInv
<1>9. ins.size \in Lines
  BY DEF PartitionInv, PartitionTypes
<1>10. /\ IsFiniteSet(LinesIn(InTable(p'), el'))
       /\ TableSize(p', el') = TableSize(p, el) + ins.size
  BY <1>4, <1>7, <1>8, <1>9, LinesAdd DEF TableSize
<1>11. ins' \in [key : Nat, size : Lines, value : Nat] /\ ins'.size = 0
  BY <1>2 DEF NoInsert, Lines, CACHELINE
<1>12. PartitionTypes' /\ InsertBegun'
  BY <1>2, <1>4, <1>11 DEF PartitionTypes, InsertBegun
<1>14. NoneEmpty'
  BY <1>2, <1>4, <1>7 DEF PartitionInv, NoneEmpty
<1>13. SizeExact'
  BY <1>7, <1>10, <1>11, PartitionFacts DEF PartitionInv, SizeExact
<1> QED
  BY <1>2, <1>7, <1>10, <1>12, <1>13, <1>14 DEF PartitionInv, CapacityKept, AbortOnlyEmpty

\* destroy_hash_partition: every element goes and the size comes to 0.
LEMMA DestroyKeepsInv ==
  ASSUME PartitionInv, destroy_hash_partition
  PROVE  PartitionInv'
<1>1. /\ pc = "idle" /\ pc' = "destroyed" /\ UNCHANGED <<el, ins, fails>> /\ ins.size = 0
      /\ p' = [EmptyPartition EXCEPT !.size = p.size - TableSize(p, el)]
  BY DEF destroy_hash_partition, PartitionInv, InsertBegun
<1>2. p.size - TableSize(p, el) = 0
  BY <1>1, PartitionFacts DEF PartitionInv, SizeExact
<1>3. Sound(EmptyPartition, el) /\ InTable(EmptyPartition) = {}
  BY PartitionFacts, EmptyFacts
<1>4. Sound(p', el) /\ InTable(p') = {}
  BY <1>1, <1>2, <1>3, SoundSize
<1>5. p'.size = 0
  BY <1>1, <1>2 DEF EmptyPartition
<1>6. IsFiniteSet(LinesIn(InTable(p'), el')) /\ TableSize(p', el') = 0
  BY <1>1, <1>4, LinesEmpty DEF TableSize
<1>7. PartitionTypes' /\ InsertBegun' /\ NoneEmpty'
  BY <1>1, <1>4 DEF PartitionInv, PartitionTypes, InsertBegun, NoneEmpty
<1>8. SizeExact'
  BY <1>1, <1>5, <1>6 DEF SizeExact
<1> QED
  BY <1>1, <1>4, <1>6, <1>7, <1>8 DEF PartitionInv, CapacityKept, AbortOnlyEmpty

\* The invariant holds of a new partition and every step keeps it.
THEOREM PartitionInvariant == Spec => []PartitionInv
<1>1. Init => PartitionInv
  <2> SUFFICES ASSUME Init PROVE PartitionInv
    OBVIOUS
  <2>1. el \in [Elems -> ElemTypes] /\ \A e \in Elems : el[e].key \in Nat
    BY DEF Init, NoElem, ElemTypes, Lines, CACHELINE
  <2>2. ins \in [key : Nat, size : Lines, value : Nat] /\ ins.size = 0 /\ pc = "idle" /\ fails = 0
    BY DEF Init, NoInsert, Lines, CACHELINE
  <2>3. Sound(p, el) /\ InTable(p) = {} /\ p.size = 0
    BY <2>1, EmptyFacts DEF Init
  <2>4. IsFiniteSet(LinesIn(InTable(p), el)) /\ TableSize(p, el) = 0
    BY <2>3, LinesEmpty DEF TableSize
  <2>5. SizeExact
    BY <2>2, <2>3, <2>4 DEF SizeExact
  <2> QED
    BY <2>1, <2>2, <2>3, <2>4, <2>5, PartitionAssumption
    DEF PartitionInv, PartitionTypes, InsertBegun, NoneEmpty, CapacityKept, AbortOnlyEmpty
<1>2. PartitionInv /\ [Next]_vars => PartitionInv'
  <2> SUFFICES ASSUME PartitionInv, [Next]_vars PROVE PartitionInv'
    OBVIOUS
  <2>1. CASE UNCHANGED vars
    BY <2>1 DEF vars, PartitionInv, PartitionTypes, InsertBegun, NoneEmpty, SizeExact,
                CapacityKept, AbortOnlyEmpty
  <2>2. CASE \E k \in Keys : hash_lookup(k)
    BY <2>2, LookupKeepsInv
  <2>3. CASE \E k \in Keys : \E size \in Sizes : hash_insert(k, size)
    BY <2>3, InsertKeepsInv
  <2> QED
    BY <2>1, <2>2, <2>3, EvictKeepsInv, LinkKeepsInv, DestroyKeepsInv DEF Next, Stopped
<1> QED
  BY <1>1, <1>2, PTL DEF Spec

\* The chains and the LRU list hold elements, and p->size, a size_t, is never
\* taken below 0.
THEOREM PartitionIsTyped == Spec => []TypeOK
<1>1. PartitionInv => TypeOK
  <2> SUFFICES ASSUME PartitionInv PROVE TypeOK
    OBVIOUS
  <2>1. p \in Partitions /\ p.size \in Nat
    BY PartitionFacts
  <2> QED
    BY <2>1 DEF PartitionInv, PartitionTypes, TypeOK, Partitions, Buckets
<1> QED
  BY <1>1, PartitionInvariant, PTL

\* The chains of the table and the LRU list hold the same elements, each once,
\* in the chain of its key, and no key twice.
THEOREM LinkageIsConsistent == Spec => []TableConsistent
<1>1. PartitionInv => TableConsistent
  BY DEF PartitionInv, Sound, TableConsistent
<1> QED
  BY <1>1, PartitionInvariant, PTL

\* p->size is the bytes of the elements in the table and of the one being
\* inserted, so the assertion of destroy_hash_partition holds.
THEOREM SizeIsExact == Spec => []SizeExact
<1>1. PartitionInv => SizeExact
  BY DEF PartitionInv
<1> QED
  BY <1>1, PartitionInvariant, PTL

\* Between calls a partition is never above its capacity.
THEOREM CapacityIsKept == Spec => []CapacityKept
<1>1. PartitionInv => CapacityKept
  BY DEF PartitionInv
<1> QED
  BY <1>1, PartitionInvariant, PTL

\* assert(p->size > elem_size) of the eviction loop fails only when it has
\* evicted every element, for a value that is larger than the whole partition
\* or because memalign has failed.
THEOREM AssertFailsOnlyWhenEmpty == Spec => []AbortOnlyEmpty
<1>1. PartitionInv => AbortOnlyEmpty
  BY DEF PartitionInv
<1> QED
  BY <1>1, PartitionInvariant, PTL

-----------------------------------------------------------------------------
(* A partition with EVICT_LRU is an LRU cache *)

\* The entries of a list of elements, and the bytes of a set of them one by one.
Entry == [key : Nat, size : Nat]
EntriesOf(q, ft) == [i \in 1..Len(q) |-> [key |-> ft[q[i]].key, size |-> ft[q[i]].size]]
BytesIn(S, ft) == UNION {{e} \X (1..ft[e].size) : e \in S}

\* The operators of LruCache are those of the library.
LEMMA CacheOperators ==
  /\ \A s, i : LRU!RemoveAt(s, i) = RemoveAt(s, i)
  /\ \A s : LRU!Total(s) = Cardinality(UNION {{i} \X (1..s[i].size) : i \in DOMAIN s})
<1>1. ASSUME NEW s, NEW i PROVE LRU!RemoveAt(s, i) = RemoveAt(s, i)
  BY DEF LRU!RemoveAt, RemoveAt
<1>2. ASSUME NEW s PROVE LRU!Cardinality(s) = Cardinality(s)
  BY DEF LRU!Cardinality, Cardinality
<1>3. ASSUME NEW s PROVE LRU!Total(s) = Cardinality(UNION {{i} \X (1..s[i].size) : i \in DOMAIN s})
  BY <1>2 DEF LRU!Total
<1> QED
  BY <1>1, <1>3

\* The entries of a list are a sequence.
LEMMA EntriesType ==
  ASSUME NEW ft, \A e \in Elems : ft[e].key \in Nat /\ ft[e].size \in Nat, NEW q \in Seq(Elems)
  PROVE  /\ EntriesOf(q, ft) \in Seq(Entry) /\ Len(EntriesOf(q, ft)) = Len(q) /\ Len(q) \in Nat
         /\ \A i \in 1..Len(q) : EntriesOf(q, ft)[i] = [key |-> ft[q[i]].key, size |-> ft[q[i]].size]
<1>1. \A i \in 1..Len(q) : q[i] \in Elems
  OBVIOUS
<1>2. \A i \in 1..Len(q) : [key |-> ft[q[i]].key, size |-> ft[q[i]].size] \in Entry
  BY <1>1 DEF Entry
<1> QED
  BY <1>2 DEF EntriesOf

\* An element at the head of the list puts its entry before the others.
LEMMA EntriesHead ==
  ASSUME NEW ft, \A e \in Elems : ft[e].key \in Nat /\ ft[e].size \in Nat,
         NEW q \in Seq(Elems), NEW e \in Elems
  PROVE  EntriesOf(<<e>> \o q, ft) = <<[key |-> ft[e].key, size |-> ft[e].size]>> \o EntriesOf(q, ft)
<1>1. PICK h, x, s, u, t : /\ h = <<e>> \o q /\ x = [key |-> ft[e].key, size |-> ft[e].size]
                           /\ s = EntriesOf(q, ft) /\ u = EntriesOf(h, ft) /\ t = <<x>> \o s
  OBVIOUS
<1>2. /\ h \in Seq(Elems) /\ Len(h) = Len(q) + 1
      /\ \A j \in 1..Len(h) : h[j] = IF j = 1 THEN e ELSE q[j - 1]
  BY <1>1
<1>3. /\ s \in Seq(Entry) /\ Len(s) = Len(q) /\ Len(q) \in Nat
      /\ \A j \in 1..Len(q) : s[j] = [key |-> ft[q[j]].key, size |-> ft[q[j]].size]
  BY <1>1, EntriesType
<1>4. /\ u \in Seq(Entry) /\ Len(u) = Len(h)
      /\ \A j \in 1..Len(h) : u[j] = [key |-> ft[h[j]].key, size |-> ft[h[j]].size]
  <2>1. h \in Seq(Elems)
    BY <1>2
  <2>2. /\ EntriesOf(h, ft) \in Seq(Entry) /\ Len(EntriesOf(h, ft)) = Len(h)
        /\ \A j \in 1..Len(h) : EntriesOf(h, ft)[j] = [key |-> ft[h[j]].key, size |-> ft[h[j]].size]
    BY <2>1, EntriesType
  <2> QED
    BY <1>1, <2>2
<1>5. x \in Entry
  BY <1>1 DEF Entry
<1>6. /\ t \in Seq(Entry) /\ Len(t) = Len(q) + 1
      /\ \A j \in 1..Len(t) : t[j] = IF j = 1 THEN x ELSE s[j - 1]
  BY <1>1, <1>3, <1>5
<1>7. ASSUME NEW j \in 1..Len(u) PROVE u[j] = t[j]
  <2>1. j \in 1..Len(h) /\ j \in 1..Len(t) /\ (j # 1 => j - 1 \in 1..Len(q))
    BY <1>2, <1>3, <1>4, <1>6
  <2>2. CASE j = 1
    BY <1>1, <1>2, <1>4, <1>6, <2>1, <2>2
  <2>3. CASE j # 1
    <3>1. h[j] = q[j - 1] /\ t[j] = s[j - 1]
      BY <1>2, <1>6, <2>1, <2>3
    <3>2. s[j - 1] = [key |-> ft[q[j - 1]].key, size |-> ft[q[j - 1]].size]
      BY <1>3, <2>1, <2>3
    <3> QED
      BY <1>4, <2>1, <3>1, <3>2
  <2> QED
    BY <2>2, <2>3
<1>8. Len(u) = Len(t)
  BY <1>2, <1>4, <1>6
<1>9. u = t
  BY <1>4, <1>6, <1>7, <1>8, SeqEqual
<1> QED
  BY <1>1, <1>9

\* Without an element of the list its entry goes.
LEMMA EntriesRemove ==
  ASSUME NEW ft, \A e \in Elems : ft[e].key \in Nat /\ ft[e].size \in Nat,
         NEW q \in Seq(Elems), IsInjective(q), NEW i \in 1..Len(q)
  PROVE  EntriesOf(RemoveFirst(q, q[i]), ft) = RemoveAt(EntriesOf(q, ft), i)
<1>1. PICK r, s, t, u : /\ r = RemoveFirst(q, q[i]) /\ s = EntriesOf(q, ft)
                        /\ t = RemoveAt(s, i) /\ u = EntriesOf(r, ft)
  OBVIOUS
<1>2. r = RemoveAt(q, i)
  BY <1>1, RemoveFirstAt
<1>3. /\ r \in Seq(Elems) /\ Len(r) = Len(q) - 1
      /\ \A j \in 1..Len(r) : r[j] = IF j < i THEN q[j] ELSE q[j + 1]
  BY <1>2, RemoveAtFacts
<1>4. /\ s \in Seq(Entry) /\ Len(s) = Len(q) /\ Len(q) \in Nat
      /\ \A j \in 1..Len(q) : s[j] = [key |-> ft[q[j]].key, size |-> ft[q[j]].size]
  <2>1. q \in Seq(Elems) /\ s = EntriesOf(q, ft)
    BY <1>1
  <2> QED
    BY <2>1, EntriesType
<1>5. /\ u \in Seq(Entry) /\ Len(u) = Len(r)
      /\ \A j \in 1..Len(r) : u[j] = [key |-> ft[r[j]].key, size |-> ft[r[j]].size]
  <2>1. r \in Seq(Elems)
    BY <1>3
  <2>2. /\ EntriesOf(r, ft) \in Seq(Entry) /\ Len(EntriesOf(r, ft)) = Len(r)
        /\ \A j \in 1..Len(r) : EntriesOf(r, ft)[j] = [key |-> ft[r[j]].key, size |-> ft[r[j]].size]
    BY <2>1, EntriesType
  <2> QED
    BY <1>1, <2>2
<1>6. /\ t \in Seq(Entry) /\ Len(t) = Len(q) - 1
      /\ \A j \in 1..Len(t) : t[j] = IF j < i THEN s[j] ELSE s[j + 1]
  <2>1. s \in Seq(Entry) /\ i \in 1..Len(s) /\ t = RemoveAt(s, i)
    BY <1>1, <1>4
  <2>2. /\ t \in Seq(Entry) /\ Len(t) = Len(s) - 1
        /\ \A j \in 1..Len(t) : t[j] = IF j < i THEN s[j] ELSE s[j + 1]
    BY <2>1, RemoveAtFacts
  <2> QED
    BY <1>4, <2>2
<1>7. ASSUME NEW j \in 1..Len(u) PROVE u[j] = t[j]
  <2>1. j \in 1..Len(r) /\ j \in 1..Len(t) /\ j \in 1..Len(q) /\ j + 1 \in 1..Len(q)
    BY <1>3, <1>4, <1>5, <1>6
  <2>2. r[j] = IF j < i THEN q[j] ELSE q[j + 1]
    BY <2>1, <1>3
  <2>3. t[j] = IF j < i THEN s[j] ELSE s[j + 1]
    BY <2>1, <1>6
  <2>4. /\ s[j] = [key |-> ft[q[j]].key, size |-> ft[q[j]].size]
        /\ s[j + 1] = [key |-> ft[q[j + 1]].key, size |-> ft[q[j + 1]].size]
    BY <2>1, <1>4
  <2>5. u[j] = [key |-> ft[r[j]].key, size |-> ft[r[j]].size]
    BY <2>1, <1>5
  <2> QED
    BY <2>2, <2>3, <2>4, <2>5
<1>8. Len(u) = Len(t)
  BY <1>3, <1>5, <1>6
<1>9. u = t
  BY <1>5, <1>6, <1>7, <1>8, SeqEqual
<1> QED
  BY <1>1, <1>9

\* What LruCache calls the entries without a key: those without its element.
LEMMA EntriesWithout ==
  ASSUME NEW ft, \A e \in Elems : ft[e].key \in Nat /\ ft[e].size \in Nat,
         NEW q \in Seq(Elems), IsInjective(q), NEW k,
         \A e, f \in ToSet(q) : ft[e].key = ft[f].key => e = f
  PROVE  /\ (\A e \in ToSet(q) : ft[e].key # k) => LRU!Without(EntriesOf(q, ft), k) = EntriesOf(q, ft)
         /\ \A i \in 1..Len(q) : ft[q[i]].key = k =>
              LRU!Without(EntriesOf(q, ft), k) = EntriesOf(RemoveFirst(q, q[i]), ft)
<1>1. PICK s : s = EntriesOf(q, ft)
  OBVIOUS
<1>2. /\ DOMAIN s = 1..Len(q) /\ \A j \in 1..Len(q) : s[j].key = ft[q[j]].key
      /\ ToSet(q) = {q[j] : j \in 1..Len(q)}
  <2>1. s \in Seq(Entry) /\ Len(s) = Len(q)
    BY <1>1, EntriesType
  <2>2. \A j \in 1..Len(q) : s[j] = [key |-> ft[q[j]].key, size |-> ft[q[j]].size]
    BY <1>1, EntriesType
  <2>3. DOMAIN s = 1..Len(q)
    BY <2>1
  <2>4. ToSet(q) = {q[j] : j \in 1..Len(q)}
    BY ToSetOfSeq
  <2> QED
    BY <2>2, <2>3, <2>4
<1>3. ASSUME \A e \in ToSet(q) : ft[e].key # k PROVE LRU!Without(s, k) = s
  <2>1. ~ \E i \in DOMAIN s : s[i].key = k
    BY <1>2, <1>3
  <2> QED
    BY <2>1 DEF LRU!Without
<1>4. ASSUME NEW i \in 1..Len(q), ft[q[i]].key = k
      PROVE  LRU!Without(s, k) = EntriesOf(RemoveFirst(q, q[i]), ft)
  <2>1. i \in DOMAIN s /\ s[i].key = k
    BY <1>2, <1>4
  <2>2. ASSUME NEW j \in DOMAIN s, s[j].key = k PROVE j = i
    <3>1. j \in 1..Len(q) /\ ft[q[j]].key = ft[q[i]].key
      BY <1>2, <1>4, <2>2
    <3>2. q[j] = q[i]
      BY <1>2, <3>1
    <3> QED
      BY <3>1, <3>2 DEF IsInjective
  <2>3. (CHOOSE j \in DOMAIN s : s[j].key = k) = i
    BY <2>1, <2>2
  <2>4. LRU!Without(s, k) = LRU!RemoveAt(s, i)
    BY <2>1, <2>3 DEF LRU!Without
  <2>5. RemoveAt(s, i) = EntriesOf(RemoveFirst(q, q[i]), ft)
    BY <1>1, EntriesRemove
  <2> QED
    BY <2>4, <2>5, CacheOperators
<1> QED
  BY <1>1, <1>3, <1>4

\* An element that is added to a set brings the bytes of its own...
LEMMA BytesAdd ==
  ASSUME NEW S, NEW ft, NEW e, e \notin S, ft[e].size \in Nat, IsFiniteSet(BytesIn(S, ft))
  PROVE  /\ IsFiniteSet(BytesIn(S \cup {e}, ft))
         /\ Cardinality(BytesIn(S \cup {e}, ft)) = Cardinality(BytesIn(S, ft)) + ft[e].size
<1> DEFINE A == BytesIn(S, ft)
           B == {e} \X (1..ft[e].size)
<1>1. IsFiniteSet(B) /\ Cardinality(B) = ft[e].size
  <2>1. PICK n \in Nat : n = ft[e].size
    OBVIOUS
  <2>2. IsFiniteSet({e}) /\ Cardinality({e}) = 1
    BY FS_Singleton
  <2>3. IsFiniteSet(1..n) /\ Cardinality(1..n) = n
    BY FS_Interval
  <2>4. /\ IsFiniteSet({e} \X (1..n))
        /\ Cardinality({e} \X (1..n)) = Cardinality({e}) * Cardinality(1..n)
    BY <2>2, <2>3, FS_Product, Zenon
  <2>5. Cardinality({e}) * Cardinality(1..n) = n
    BY <2>2, <2>3
  <2> QED
    BY <2>1, <2>4, <2>5, Zenon
<1>2. BytesIn(S \cup {e}, ft) = A \cup B /\ A \cap B = {}
  BY DEF BytesIn
<1> HIDE DEF A, B
<1>3. IsFiniteSet(A) /\ Cardinality(A) \in Nat
  BY FS_CardinalityType DEF A
<1>4. /\ IsFiniteSet(A \cup B)
      /\ Cardinality(A \cup B) = Cardinality(A) + Cardinality(B) - Cardinality(A \cap B)
  BY <1>1, <1>3, FS_Union
<1>5. Cardinality(A \cap B) = 0
  BY <1>2, FS_EmptySet, Zenon
<1>6. Cardinality(A \cup B) = Cardinality(A) + ft[e].size
  BY <1>1, <1>3, <1>4, <1>5
<1> QED
  BY <1>2, <1>4, <1>6, Zenon DEF A

\* ... and takes them along.
LEMMA BytesRemove ==
  ASSUME NEW S, NEW ft, NEW e \in S, ft[e].size \in Nat, IsFiniteSet(BytesIn(S, ft))
  PROVE  /\ IsFiniteSet(BytesIn(S \ {e}, ft))
         /\ Cardinality(BytesIn(S, ft)) = Cardinality(BytesIn(S \ {e}, ft)) + ft[e].size
<1>1. BytesIn(S \ {e}, ft) \subseteq BytesIn(S, ft)
  BY DEF BytesIn
<1>2. IsFiniteSet(BytesIn(S \ {e}, ft))
  BY <1>1, FS_Subset
<1>3. (S \ {e}) \cup {e} = S
  OBVIOUS
<1>4. Cardinality(BytesIn((S \ {e}) \cup {e}, ft)) = Cardinality(BytesIn(S \ {e}, ft)) + ft[e].size
  BY <1>2, BytesAdd
<1> QED
  BY <1>2, <1>3, <1>4

\* The sizes of the entries of a list sum to the bytes of its elements.
LEMMA TotalOfEntries ==
  ASSUME NEW ft, \A e \in Elems : ft[e].key \in Nat /\ ft[e].size \in Nat,
         NEW q \in Seq(Elems), IsInjective(q), IsFiniteSet(BytesIn(ToSet(q), ft))
  PROVE  LRU!Total(EntriesOf(q, ft)) = Cardinality(BytesIn(ToSet(q), ft))
<1>1. PICK s : s = EntriesOf(q, ft)
  OBVIOUS
<1> DEFINE U == UNION {{i} \X (1..s[i].size) : i \in DOMAIN s}
           B == BytesIn(ToSet(q), ft)
           f == [x \in U |-> <<q[x[1]], x[2]>>]
<1>2. /\ DOMAIN s = 1..Len(q) /\ \A i \in 1..Len(q) : s[i].size = ft[q[i]].size
  <2>1. s \in Seq(Entry) /\ Len(s) = Len(q)
    BY <1>1, EntriesType
  <2>2. \A j \in 1..Len(q) : s[j] = [key |-> ft[q[j]].key, size |-> ft[q[j]].size]
    BY <1>1, EntriesType
  <2>3. DOMAIN s = 1..Len(q)
    BY <2>1
  <2> QED
    BY <2>2, <2>3
<1>3. ToSet(q) = {q[j] : j \in 1..Len(q)}
  BY ToSetOfSeq
<1>4. \A x : x \in U <=> \E i \in 1..Len(q) : \E b \in 1..ft[q[i]].size : x = <<i, b>>
  BY <1>2
<1>5. \A y : y \in B <=> \E i \in 1..Len(q) : \E b \in 1..ft[q[i]].size : y = <<q[i], b>>
  BY <1>3 DEF BytesIn
<1> HIDE DEF U, B
<1>6. f \in [U -> B]
  <2> SUFFICES ASSUME NEW x \in U PROVE f[x] \in B
    OBVIOUS
  <2>1. PICK i \in 1..Len(q) : \E b \in 1..ft[q[i]].size : x = <<i, b>>
    BY <1>4
  <2>2. PICK b \in 1..ft[q[i]].size : x = <<i, b>>
    BY <2>1
  <2>3. f[x] = <<q[i], b>>
    BY <2>2
  <2> QED
    BY <2>3, <1>5
<1>7. \A x, y \in U : f[x] = f[y] => x = y
  <2> SUFFICES ASSUME NEW x \in U, NEW y \in U, f[x] = f[y] PROVE x = y
    OBVIOUS
  <2>1. PICK i, b : i \in 1..Len(q) /\ x = <<i, b>>
    BY <1>4
  <2>2. PICK j, c : j \in 1..Len(q) /\ y = <<j, c>>
    BY <1>4
  <2>3. q[i] = q[j] /\ b = c
    BY <2>1, <2>2
  <2>4. i = j
    BY <2>1, <2>2, <2>3 DEF IsInjective
  <2> QED
    BY <2>1, <2>2, <2>3, <2>4
<1>8. \A y \in B : \E x \in U : f[x] = y
  <2> SUFFICES ASSUME NEW y \in B PROVE \E x \in U : f[x] = y
    OBVIOUS
  <2>1. PICK i \in 1..Len(q) : \E b \in 1..ft[q[i]].size : y = <<q[i], b>>
    BY <1>5
  <2>2. PICK b \in 1..ft[q[i]].size : y = <<q[i], b>>
    BY <2>1
  <2>3. <<i, b>> \in U
    BY <1>4
  <2>4. f[<<i, b>>] = y
    BY <2>2, <2>3
  <2> QED
    BY <2>3, <2>4
<1> HIDE DEF f
<1>9. ExistsBijection(U, B)
  <2>1. f \in Injection(U, B)
    BY <1>6, <1>7 DEF Injection, IsInjective
  <2>2. f \in Surjection(U, B)
    BY <1>6, <1>8 DEF Surjection
  <2> QED
    BY <2>1, <2>2 DEF ExistsBijection, Bijection
<1>10. ExistsBijection(B, U)
  BY <1>9, Fun_ExistsBijSymmetric
<1>11. Cardinality(U) = Cardinality(B)
  BY <1>10, FS_Bijection DEF B
<1>12. LRU!Total(s) = Cardinality(U)
  BY CacheOperators DEF U
<1> QED
  BY <1>1, <1>11, <1>12 DEF B

\* The bytes in the table are those of its elements one by one...
BytesExact ==
  /\ IsFiniteSet(BytesIn(InTable(p), el))
  /\ Cardinality(BytesIn(InTable(p), el)) = TableSize(p, el)

\* ... and hash_insert has evicted the entries from the end of the list on:
\* first as long as too many were left, then one each time memalign failed.
Rest == LRU!Without(before, ins.key)
EvictedSoFar ==
  /\ pc = "evict" =>
    /\ ins.key \in Keys /\ ins.size \in {elem_size(size) : size \in Sizes}
    /\ Rest \in Seq(Entry) /\ Len(p.lru) + fails <= Len(Rest)
    /\ EntriesOf(p.lru, el) = SubSeq(Rest, 1, Len(p.lru))
    /\ \A m \in Len(p.lru) + fails + 1..Len(Rest) :
         ~(LRU!Total(SubSeq(Rest, 1, m)) + ins.size <= max_size)
    /\ fails > 0 =>
         /\ p.size <= max_size
         /\ LRU!Total(SubSeq(Rest, 1, Len(p.lru) + fails)) + ins.size <= max_size
  /\ pc = "idle" => fails = 0

CacheInv == BytesExact /\ EvictedSoFar

\* The LRU list of a partition that is linked correctly.
LEMMA ListFacts ==
  ASSUME PartitionInv, evictalgo = "EVICT_LRU"
  PROVE  /\ p.lru \in Seq(Elems) /\ Len(p.lru) \in Nat /\ IsInjective(p.lru) /\ ToSet(p.lru) = InTable(p)
         /\ \A e \in Elems : el[e].key \in Nat /\ el[e].size \in Nat
         /\ \A e, f \in ToSet(p.lru) : el[e].key = el[f].key => e = f
<1>1. p \in Partitions /\ WellLinked(p, el)
  BY DEF PartitionInv, Sound
<1>2. p.lru \in Seq(Elems) /\ IsInjective(p.lru) /\ ToSet(p.lru) = InTable(p)
  BY <1>1 DEF WellLinked, Partitions
<1>3. \A e, f \in ToSet(p.lru) : el[e].key = el[f].key => e = f
  BY <1>1, <1>2 DEF WellLinked
<1>4. \A e \in Elems : el[e].key \in Nat /\ el[e].size \in Nat
  BY DEF PartitionInv, PartitionTypes, ElemTypes, Lines
<1>5. Len(p.lru) \in Nat
  BY <1>2
<1> QED
  BY <1>2, <1>3, <1>4, <1>5

\* The entries of the partition sum to what it uses.
LEMMA ListTotal ==
  ASSUME PartitionInv, BytesExact, evictalgo = "EVICT_LRU"
  PROVE  LRU!Total(EntriesOf(p.lru, el)) + ins.size = p.size
<1>1. LRU!Total(EntriesOf(p.lru, el)) = Cardinality(BytesIn(InTable(p), el))
  BY ListFacts, TotalOfEntries DEF BytesExact
<1> QED
  BY <1>1 DEF BytesExact, PartitionInv, SizeExact

\* An element at the head of a list, and the list without it.
LEMMA RemoveHead ==
  ASSUME NEW S, NEW s \in Seq(S), IsInjective(s), NEW e \in S, e \notin ToSet(s)
  PROVE  RemoveFirst(<<e>> \o s, e) = s
<1>1. PICK h, r : h = <<e>> \o s /\ r = RemoveFirst(h, e)
  OBVIOUS
<1>2. h \in Seq(S) /\ IsInjective(h)
  BY <1>1, InsertHeadFacts
<1>3. Len(h) = Len(s) + 1 /\ h[1] = e /\ \A j \in 1..Len(s) : h[j + 1] = s[j]
  BY <1>1
<1>4. r = RemoveAt(h, 1)
  <2>1. 1 \in 1..Len(h)
    BY <1>3
  <2> QED
    BY <1>1, <1>2, <1>3, <2>1, RemoveFirstAt
<1>5. /\ r \in Seq(S) /\ Len(r) = Len(h) - 1
      /\ \A j \in 1..Len(r) : r[j] = IF j < 1 THEN h[j] ELSE h[j + 1]
  <2>1. 1 \in 1..Len(h)
    BY <1>3
  <2> QED
    BY <1>2, <1>4, <2>1, RemoveAtFacts
<1>6. Len(r) = Len(s) /\ \A j \in 1..Len(r) : r[j] = s[j]
  BY <1>3, <1>5
<1>7. r = s
  BY <1>5, <1>6, SeqEqual
<1> QED
  BY <1>1, <1>7

\* BytesExact depends on what is in the table only, and goes with SizeExact.
LEMMA BytesSame ==
  ASSUME BytesExact, InTable(p') = InTable(p), UNCHANGED el
  PROVE  BytesExact'
BY DEF BytesExact, TableSize

\* What hash_remove takes off the size are the bytes of the element.
LEMMA BytesGo ==
  ASSUME PartitionInv, PartitionInv', BytesExact, UNCHANGED el,
         NEW e \in InTable(p), InTable(p') = InTable(p) \ {e}
  PROVE  BytesExact'
<1>1. e \in Elems /\ el[e].size \in Lines /\ el[e].size \in Nat
  BY PartitionFacts DEF ElemTypes, Lines
<1>2. /\ IsFiniteSet(BytesIn(InTable(p'), el))
      /\ Cardinality(BytesIn(InTable(p), el)) = Cardinality(BytesIn(InTable(p'), el)) + el[e].size
  <2>1. IsFiniteSet(BytesIn(InTable(p), el))
    BY DEF BytesExact
  <2>2. /\ IsFiniteSet(BytesIn(InTable(p) \ {e}, el))
        /\ Cardinality(BytesIn(InTable(p), el)) = Cardinality(BytesIn(InTable(p) \ {e}, el)) + el[e].size
    BY <1>1, <2>1, BytesRemove
  <2> QED
    BY <2>2
<1>3. TableSize(p, el) = TableSize(p', el) + el[e].size
  BY <1>1, LinesRemove DEF PartitionInv, TableSize
<1>4. Cardinality(BytesIn(InTable(p'), el)) \in Nat /\ TableSize(p', el) \in Nat
  <2>1. IsFiniteSet(LinesIn(InTable(p'), el))
    BY DEF PartitionInv
  <2> QED
    BY <1>2, <2>1, TableSizeType, FS_CardinalityType
<1>5. Cardinality(BytesIn(InTable(p'), el)) = TableSize(p', el)
  <2>1. Cardinality(BytesIn(InTable(p), el)) = TableSize(p, el)
    BY DEF BytesExact
  <2> QED
    BY <1>1, <1>2, <1>3, <1>4, <2>1
<1> QED
  BY <1>2, <1>5 DEF BytesExact

\* What linking an element brings into the table are its bytes.
LEMMA BytesCome ==
  ASSUME PartitionInv, BytesExact, NEW e \in Elems \ InTable(p), InTable(p') = InTable(p) \cup {e},
         \A f \in InTable(p) : el'[f] = el[f], el'[e].size \in Lines
  PROVE  BytesExact'
<1>1. el'[e].size \in Nat
  BY DEF Lines
<1>2. /\ BytesIn(InTable(p), el') = BytesIn(InTable(p), el)
      /\ LinesIn(InTable(p), el') = LinesIn(InTable(p), el)
  BY DEF BytesIn, LinesIn
<1>3. /\ IsFiniteSet(BytesIn(InTable(p'), el'))
      /\ Cardinality(BytesIn(InTable(p'), el')) = Cardinality(BytesIn(InTable(p), el)) + el'[e].size
  <2>1. IsFiniteSet(BytesIn(InTable(p), el'))
    BY <1>2 DEF BytesExact
  <2>2. /\ IsFiniteSet(BytesIn(InTable(p) \cup {e}, el'))
        /\ Cardinality(BytesIn(InTable(p) \cup {e}, el')) = Cardinality(BytesIn(InTable(p), el')) + el'[e].size
    BY <1>1, <2>1, BytesAdd
  <2> QED
    BY <1>2, <2>2
<1>4. TableSize(p', el') = TableSize(p, el) + el'[e].size
  BY <1>2, LinesAdd DEF PartitionInv, TableSize
<1> QED
  BY <1>3, <1>4 DEF BytesExact

\* hash_insert has removed the entry of its key; nothing is evicted yet.
LEMMA InsertKeepsCache ==
  ASSUME PartitionInv, PartitionInv', CacheInv, evictalgo = "EVICT_LRU",
         NEW k \in Keys, NEW size \in Sizes, hash_insert(k, size)
  PROVE  CacheInv'
<1>1. PICK e, q, r : /\ e = Find(p, el, k) /\ q = Touch(p, e)
                     /\ r = IF e # NULL THEN hash_remove(q, el, e) ELSE q
  OBVIOUS
<1>2. /\ p' = [r EXCEPT !.size = r.size + elem_size(size)] /\ UNCHANGED el /\ pc' = "evict"
      /\ ins'.key = k /\ ins'.size = elem_size(size) /\ before' = EntriesOf(p.lru, el)
      /\ fails' = 0
  BY <1>1 DEF hash_insert, Entries, EntriesOf, CacheInv, EvictedSoFar
<1>3. /\ p.lru \in Seq(Elems) /\ IsInjective(p.lru) /\ ToSet(p.lru) = InTable(p)
      /\ \A f \in Elems : el[f].key \in Nat /\ el[f].size \in Nat
      /\ \A f, g \in ToSet(p.lru) : el[f].key = el[g].key => f = g
  BY ListFacts
<1>4. k \in Nat /\ Sound(p, el) /\ NULL \notin InTable(p) /\ p \in Partitions
  BY ValuesAssumption, PartitionAssumption, PartitionFacts DEF PartitionInv
<1>5. \/ e = NULL /\ \A f \in InTable(p) : el[f].key # k
      \/ e # NULL /\ e \in InTable(p) /\ el[e].key = k
  BY <1>1, <1>4, FindFacts
<1>6. Sound(q, el) /\ InTable(q) = InTable(p) /\ q \in Partitions
  <2>1. e \in InTable(p) \cup {NULL}
    BY <1>5
  <2> QED
    BY <1>1, <1>4, <2>1, TouchFacts DEF Sound
<1>7. /\ r \in Partitions /\ r.lru = IF e = NULL THEN p.lru ELSE RemoveFirst(p.lru, e)
      /\ InTable(r) = IF e = NULL THEN InTable(p) ELSE InTable(p) \ {e}
  <2>1. CASE e = NULL
    BY <1>1, <1>6, <2>1 DEF Touch
  <2>2. CASE e # NULL
    <3>1. r = hash_remove(q, el, e) /\ e \in InTable(p) /\ e \in Elems /\ el[e].size \in Int
      BY <1>1, <1>5, <2>2, PartitionFacts
    <3>2. q.lru = <<e>> \o RemoveFirst(p.lru, e)
      BY <1>1, <1>4, <2>2 DEF Touch, lru, Partitions
    <3>3. RemoveFirst(q.lru, e) = RemoveFirst(p.lru, e)
      <4>1. /\ RemoveFirst(p.lru, e) \in Seq(Elems) /\ IsInjective(RemoveFirst(p.lru, e))
            /\ e \notin ToSet(RemoveFirst(p.lru, e))
        BY <1>3, <3>1, RemoveFirstFacts
      <4> QED
        BY <3>1, <3>2, <4>1, RemoveHead
    <3>4. r.lru = RemoveFirst(q.lru, e)
      BY <1>6, <3>1 DEF hash_remove, Partitions
    <3>5. InTable(r) = InTable(q) \ {e} /\ r \in Partitions
      BY <1>6, <3>1, RemoveFacts DEF Sound
    <3> QED
      BY <1>6, <2>2, <3>3, <3>4, <3>5
  <2> QED
    BY <2>1, <2>2
<1>8. p'.lru = r.lru /\ InTable(p') = InTable(r)
  BY <1>2, <1>7 DEF Partitions, InTable
<1>9. BytesExact'
  <2>1. CASE e = NULL
    BY <1>2, <1>7, <1>8, <2>1, BytesSame DEF CacheInv
  <2>2. CASE e # NULL
    BY <1>2, <1>5, <1>7, <1>8, <2>2, BytesGo DEF CacheInv
  <2> QED
    BY <2>1, <2>2
<1>10. Rest' = EntriesOf(p'.lru, el)
  <2>0. Rest' = LRU!Without(EntriesOf(p.lru, el), k)
    BY <1>2 DEF Rest
  <2>1. CASE e = NULL
    <3>1. LRU!Without(EntriesOf(p.lru, el), k) = EntriesOf(p.lru, el)
      BY <1>3, <1>4, <1>5, <2>1, EntriesWithout
    <3> QED
      BY <1>7, <1>8, <2>0, <2>1, <3>1
  <2>2. CASE e # NULL
    <3>1. PICK i \in 1..Len(p.lru) : p.lru[i] = e
      BY <1>3, <1>5, <2>2, ToSetOfSeq
    <3>2. LRU!Without(EntriesOf(p.lru, el), k) = EntriesOf(RemoveFirst(p.lru, e), el)
      <4>1. \A j \in 1..Len(p.lru) : el[p.lru[j]].key = k =>
              LRU!Without(EntriesOf(p.lru, el), k) = EntriesOf(RemoveFirst(p.lru, p.lru[j]), el)
        BY <1>3, EntriesWithout
      <4>2. el[p.lru[i]].key = k
        BY <1>5, <2>2, <3>1
      <4> QED
        BY <3>1, <4>1, <4>2
    <3> QED
      BY <1>7, <1>8, <2>0, <2>2, <3>2
  <2> QED
    BY <2>1, <2>2
<1>11. EvictedSoFar'
  <2>1. PICK s, n : s = EntriesOf(p'.lru, el) /\ n = Len(p'.lru)
    OBVIOUS
  <2>2. s \in Seq(Entry) /\ Len(s) = n /\ n \in Nat
    <3>1. p'.lru \in Seq(Elems)
      BY <1>7, <1>8 DEF Partitions
    <3> QED
      BY <1>3, <2>1, <3>1, EntriesType
  <2>3. SubSeq(s, 1, n) = s
    BY <2>2
  <2>4. n <= n /\ n + 1..n = {}
    BY <2>2
  <2>5. Rest' = s
    BY <1>10, <2>1
  <2>6. /\ Rest' \in Seq(Entry) /\ Len(p'.lru) + fails' <= Len(Rest')
        /\ EntriesOf(p'.lru, el') = SubSeq(Rest', 1, Len(p'.lru))
    BY <1>2, <2>1, <2>2, <2>3, <2>4, <2>5
  <2>7. \A m \in Len(p'.lru) + fails' + 1..Len(Rest') :
          ~(LRU!Total(SubSeq(Rest', 1, m)) + ins'.size <= max_size)
    <3>1. Len(p'.lru) + fails' + 1 = n + 1 /\ Len(Rest') = n
      BY <1>2, <2>1, <2>2, <2>5
    <3> QED
      BY <2>4, <3>1
  <2>8. ins'.key \in Keys /\ ins'.size \in {elem_size(sz) : sz \in Sizes}
    BY <1>2
  <2> QED
    BY <1>2, <2>6, <2>7, <2>8 DEF EvictedSoFar
<1> QED
  BY <1>9, <1>11 DEF CacheInv

\* A turn of the eviction loop drops the last entry: with it too many bytes
\* were in use, or memalign has failed once more.
LEMMA EvictKeepsCache ==
  ASSUME PartitionInv, PartitionInv', CacheInv, evictalgo = "EVICT_LRU", Evict
  PROVE  CacheInv'
<1>1. /\ UNCHANGED <<el, ins, before>> /\ pc = "evict" /\ NoElement
  BY DEF Evict
<1>2. CASE ~(p.size > ins.size) /\ pc' = "abort" /\ UNCHANGED p
  BY <1>1, <1>2, BytesSame DEF CacheInv, EvictedSoFar
<1>3. CASE p.size > ins.size /\ (\E l \in Victims(p) : p' = hash_remove(p, el, l)) /\ UNCHANGED pc
  <2>1. /\ p.lru \in Seq(Elems) /\ Len(p.lru) \in Nat /\ IsInjective(p.lru) /\ ToSet(p.lru) = InTable(p)
        /\ \A f \in Elems : el[f].key \in Nat /\ el[f].size \in Nat
    BY ListFacts
  <2>2. InTable(p) # {}
    <3>1. SUFFICES ASSUME InTable(p) = {} PROVE FALSE
      OBVIOUS
    <3>2. TableSize(p, el) = 0
      BY <3>1, LinesEmpty DEF TableSize
    <3> QED
      BY <3>2, <1>3, PartitionFacts DEF PartitionInv, SizeExact
  <2>3. PICK n, l : n = Len(p.lru) /\ l = p.lru[n]
    OBVIOUS
  <2>4. n \in Nat \ {0} /\ n \in 1..n /\ l \in InTable(p) /\ l \in Elems
    <3>1. ToSet(p.lru) = {p.lru[j] : j \in 1..Len(p.lru)}
      BY <2>1, ToSetOfSeq
    <3>2. n # 0
      BY <2>1, <2>2, <2>3, <3>1
    <3> QED
      BY <2>1, <2>3, <3>1, <3>2
  <2>5. p' = hash_remove(p, el, l)
    <3>1. Victims(p) = {l}
      BY <2>3 DEF Victims, Last
    <3> QED
      BY <1>3, <3>1
  <2>6. Sound(p, el) /\ p \in Partitions /\ el[l].size \in Int
    BY <2>1, <2>4 DEF PartitionInv, Sound
  <2>7. InTable(p') = InTable(p) \ {l} /\ p'.lru = RemoveFirst(p.lru, l)
    <3>1. p'.lru = RemoveFirst(p.lru, l)
      BY <2>5, <2>6 DEF hash_remove, Partitions
    <3> QED
      BY <2>4, <2>5, <2>6, <3>1, RemoveFacts
  <2>8. BytesExact'
    BY <1>1, <2>4, <2>7, BytesGo DEF CacheInv
  <2>9. EvictedSoFar'
    <3>1. PICK R, s, t, c, d : /\ R = Rest /\ s = EntriesOf(p.lru, el) /\ t = EntriesOf(p'.lru, el)
                               /\ c = fails /\ d = fails'
      OBVIOUS
    <3>0. c \in Nat /\ d \in Nat /\ p.size \in Nat /\ p'.size \in Nat /\ max_size \in Nat
      <4>1. c \in Nat /\ p.size \in Nat /\ max_size \in Nat
        BY <3>1, PartitionFacts, PartitionAssumption
      <4>2. d \in Nat
        BY <3>1 DEF PartitionInv, PartitionTypes
      <4>3. p'.size \in Nat
        BY <2>4, <2>5, <2>6, TableSizeRemove
      <4> QED
        BY <4>1, <4>2, <4>3
    <3>2. /\ ins.key \in Keys /\ ins.size \in {elem_size(size) : size \in Sizes}
          /\ R \in Seq(Entry) /\ n + c <= Len(R) /\ s = SubSeq(R, 1, n)
          /\ \A m \in n + c + 1..Len(R) : ~(LRU!Total(SubSeq(R, 1, m)) + ins.size <= max_size)
          /\ c > 0 => p.size <= max_size /\ LRU!Total(SubSeq(R, 1, n + c)) + ins.size <= max_size
      BY <1>1, <2>3, <3>1 DEF CacheInv, EvictedSoFar
    <3>11. Len(R) \in Nat /\ n <= Len(R)
      BY <2>4, <3>0, <3>2
    <3>3. s \in Seq(Entry) /\ Len(s) = n
      BY <2>1, <2>3, <3>1, EntriesType
    <3>4. t = RemoveAt(s, n)
      BY <2>1, <2>3, <2>4, <2>7, <3>1, EntriesRemove
    <3>5. /\ t \in Seq(Entry) /\ Len(t) = n - 1
          /\ \A j \in 1..Len(t) : t[j] = IF j < n THEN s[j] ELSE s[j + 1]
      BY <2>4, <3>3, <3>4, RemoveAtFacts
    <3>6. Len(p'.lru) = n - 1 /\ n - 1 \in Nat /\ n - 1 <= Len(R)
      <4>1. p'.lru \in Seq(Elems)
        BY <2>1, <2>4, <2>7, RemoveFirstFacts
      <4>2. Len(t) = Len(p'.lru)
        BY <2>1, <3>1, <4>1, EntriesType
      <4> QED
        BY <2>4, <3>11, <3>5, <4>2
    <3>7. t = SubSeq(R, 1, n - 1)
      <4>1. PICK u : u = SubSeq(R, 1, n - 1)
        OBVIOUS
      <4>2. u \in Seq(Entry) /\ Len(u) = n - 1 /\ \A j \in 1..n - 1 : u[j] = R[j]
        BY <3>2, <3>6, <3>11, <4>1
      <4>3. \A j \in 1..n : s[j] = R[j]
        BY <2>4, <3>2, <3>11
      <4>4. \A j \in 1..Len(t) : t[j] = u[j]
        BY <2>4, <3>5, <4>2, <4>3
      <4> QED
        BY <3>5, <4>1, <4>2, <4>4, SeqEqual
    <3>8. LRU!Total(SubSeq(R, 1, n)) + ins.size = p.size
      BY <3>1, <3>2, ListTotal DEF CacheInv
    <3>12. p'.size <= p.size
      <4>1. p'.size = p.size - el[l].size /\ el[l].size \in Nat
        BY <2>1, <2>4, <2>5, <2>6 DEF hash_remove, Partitions
      <4> QED
        BY <3>0, <4>1
    <3>9. /\ n - 1 + d <= Len(R)
          /\ \A m \in n - 1 + d + 1..Len(R) : ~(LRU!Total(SubSeq(R, 1, m)) + ins.size <= max_size)
          /\ d > 0 => p'.size <= max_size /\ LRU!Total(SubSeq(R, 1, n - 1 + d)) + ins.size <= max_size
      <4>1. CASE p.size > max_size /\ UNCHANGED fails
        <5>1. c = 0 /\ d = 0
          BY <3>0, <3>1, <3>2, <4>1
        <5>2. \A m \in n - 1 + d + 1..Len(R) : m = n \/ m \in n + c + 1..Len(R)
          BY <2>4, <3>11, <5>1
        <5>3. ~(LRU!Total(SubSeq(R, 1, n)) + ins.size <= max_size)
          BY <3>0, <3>8, <4>1
        <5> QED
          BY <2>4, <3>2, <3>11, <5>1, <5>2, <5>3
      <4>2. CASE p.size <= max_size /\ fails' = fails + 1
        <5>1. d = c + 1 /\ n - 1 + d = n + c
          BY <2>4, <3>0, <3>1, <4>2
        <5>2. p'.size <= max_size
          BY <3>0, <3>12, <4>2
        <5>3. LRU!Total(SubSeq(R, 1, n + c)) + ins.size <= max_size
          <6>1. CASE c > 0
            BY <3>2, <6>1
          <6>2. CASE c = 0
            <7>1. n + c = n
              BY <2>4, <6>2
            <7> QED
              BY <3>8, <4>2, <7>1
          <6> QED
            BY <3>0, <6>1, <6>2
        <5>4. n - 1 + d <= Len(R)
          BY <3>2, <5>1
        <5>5. \A m \in n - 1 + d + 1..Len(R) : ~(LRU!Total(SubSeq(R, 1, m)) + ins.size <= max_size)
          BY <3>2, <5>1
        <5> QED
          BY <5>1, <5>2, <5>3, <5>4, <5>5
      <4> QED
        BY <1>1, <4>1, <4>2 DEF NoElement
    <3>10. Rest' = R /\ pc' = "evict"
      BY <1>1, <1>3, <3>1 DEF Rest
    <3> QED
      BY <1>1, <3>1, <3>2, <3>6, <3>7, <3>9, <3>10 DEF EvictedSoFar
  <2> QED
    BY <2>8, <2>9 DEF CacheInv
<1> QED
  BY <1>2, <1>3 DEF Evict

\* The new element as InsertLink finds and leaves it.
LEMMA LinkEffect ==
  ASSUME PartitionInv, InsertLink, evictalgo = "EVICT_LRU"
  PROVE  \E e \in Elems \ InTable(p) :
           /\ InTable(p') = InTable(p) \cup {e} /\ p'.lru = <<e>> \o p.lru
           /\ el'[e].key = ins.key /\ el'[e].size = ins.size
           /\ \A f \in InTable(p) : el'[f] = el[f]
<1>1. PICK e \in Elems \ InTable(p) : el' = [el EXCEPT ![e] = NewElem] /\ p' = Link(p, e, ins.key)
  BY DEF InsertLink
<1>2. /\ el \in [Elems -> ElemTypes] /\ InTable(p) \subseteq Elems /\ p \in Partitions
      /\ Sound(p, el) /\ ins.key \in Nat
  BY PartitionFacts DEF PartitionInv, PartitionTypes
<1>3. NewElem.key = ins.key /\ NewElem.size = ins.size
  BY DEF NewElem
<1>4. el'[e] = NewElem /\ \A f \in InTable(p) : el'[f] = el[f]
  BY <1>1, <1>2
<1>5. p'.lru = <<e>> \o p.lru
  BY <1>1, <1>2 DEF Link, Partitions
<1>6. InTable(p') = InTable(p) \cup {e}
  <2>1. \A f \in Elems : el'[f].key \in Nat
    BY <1>1, <1>2, <1>3 DEF ElemTypes
  <2>2. Sound(p, el')
    BY <1>2, <1>4, <2>1, SoundFrame
  <2>3. \A f \in InTable(p) : el'[f].key # el'[e].key
    BY <1>3, <1>4 DEF PartitionInv, InsertBegun, InsertLink
  <2>4. p' = Link(p, e, el'[e].key)
    BY <1>1, <1>3, <1>4
  <2> QED
    BY <2>1, <2>2, <2>3, <2>4, LinkFacts
<1> QED
  BY <1>1, <1>3, <1>4, <1>5, <1>6

\* The link that ends hash_insert keeps CacheInv.
LEMMA LinkKeepsCache ==
  ASSUME PartitionInv, CacheInv, evictalgo = "EVICT_LRU", InsertLink
  PROVE  CacheInv'
<1>1. PICK e \in Elems \ InTable(p) :
        /\ InTable(p') = InTable(p) \cup {e} /\ el'[e].size = ins.size
        /\ \A f \in InTable(p) : el'[f] = el[f]
  BY LinkEffect
<1>2. ins.size \in Lines
  BY DEF PartitionInv, PartitionTypes
<1>3. BytesExact'
  BY <1>1, <1>2, BytesCome DEF CacheInv
<1>4. pc' = "idle" /\ fails' = 0
  BY DEF InsertLink
<1> QED
  BY <1>3, <1>4 DEF CacheInv, EvictedSoFar

\* hash_lookup only moves an element in the LRU list, and keeps CacheInv.
LEMMA LookupKeepsCache ==
  ASSUME PartitionInv, CacheInv, NEW k \in Keys, hash_lookup(k)
  PROVE  CacheInv'
<1>1. k \in Nat /\ Sound(p, el)
  BY ValuesAssumption DEF PartitionInv
<1>2. Find(p, el, k) \in InTable(p) \cup {NULL}
  BY <1>1, FindFacts
<1>3. InTable(p') = InTable(p) /\ UNCHANGED <<el, pc, fails>> /\ pc = "idle"
  BY <1>1, <1>2, TouchFacts DEF hash_lookup
<1> QED
  BY <1>3, BytesSame DEF CacheInv, EvictedSoFar

\* destroy_hash_partition leaves a table of no bytes.
LEMMA DestroyKeepsCache ==
  ASSUME PartitionInv, CacheInv, destroy_hash_partition
  PROVE  CacheInv'
<1>1. pc' = "destroyed" /\ UNCHANGED el /\ p' = [EmptyPartition EXCEPT !.size = p.size - TableSize(p, el)]
  BY DEF destroy_hash_partition
<1>2. InTable(p') = {}
  <2>1. Sound(EmptyPartition, el) /\ InTable(EmptyPartition) = {}
    BY PartitionFacts, EmptyFacts
  <2>2. p.size - TableSize(p, el) \in Int
    BY PartitionFacts
  <2> QED
    BY <1>1, <2>1, <2>2, SoundSize
<1>3. BytesIn({}, el) = {} /\ CACHELINE * Cardinality(LinesIn({}, el)) = 0
  BY LinesEmpty DEF BytesIn
<1>4. BytesExact'
  BY <1>1, <1>2, <1>3, FS_EmptySet DEF BytesExact, TableSize
<1> QED
  BY <1>1, <1>4 DEF CacheInv, EvictedSoFar

\* The entries of a partition in use, and during hash_insert those from before
\* it: what the cache of LruCache is.
Cache == IF pc \in {"evict", "abort"} THEN before ELSE EntriesOf(p.lru, el)

\* A lookup that hits is the abstract one, one that misses changes nothing.
LEMMA LookupImplements ==
  ASSUME PartitionInv, evictalgo = "EVICT_LRU", NEW k \in Keys, hash_lookup(k)
  PROVE  \/ Cache' = Cache
         \/ \E i \in DOMAIN Cache : /\ Cache[i].key = k
                                    /\ Cache' = <<Cache[i]>> \o LRU!Without(Cache, k)
<1>1. PICK e, s : e = Find(p, el, k) /\ s = EntriesOf(p.lru, el)
  OBVIOUS
<1>2. pc = "idle" /\ p' = Touch(p, e) /\ UNCHANGED <<el, pc>>
  BY <1>1 DEF hash_lookup
<1>3. Cache = s /\ Cache' = EntriesOf(p'.lru, el)
  BY <1>1, <1>2 DEF Cache
<1>4. /\ p.lru \in Seq(Elems) /\ IsInjective(p.lru) /\ ToSet(p.lru) = InTable(p)
      /\ \A f \in Elems : el[f].key \in Nat /\ el[f].size \in Nat
      /\ \A f, g \in ToSet(p.lru) : el[f].key = el[g].key => f = g
  BY ListFacts
<1>5. k \in Nat /\ Sound(p, el) /\ p \in Partitions /\ NULL \notin InTable(p)
  BY ValuesAssumption, PartitionAssumption, PartitionFacts DEF PartitionInv
<1>6. CASE e = NULL
  BY <1>1, <1>2, <1>3, <1>6 DEF Touch
<1>7. CASE e # NULL
  <2>1. e \in InTable(p) /\ el[e].key = k /\ e \in Elems
    BY <1>1, <1>5, <1>7, FindFacts, PartitionFacts
  <2>2. PICK i \in 1..Len(p.lru) : p.lru[i] = e
    BY <1>4, <2>1, ToSetOfSeq
  <2>3. PICK r : r = RemoveFirst(p.lru, e)
    OBVIOUS
  <2>4. r \in Seq(Elems) /\ IsInjective(r) /\ e \notin ToSet(r)
    BY <1>4, <2>1, <2>3, RemoveFirstFacts
  <2>5. p'.lru = <<e>> \o r
    BY <1>2, <1>5, <1>7, <2>3 DEF Touch, lru, Partitions
  <2>6. LRU!Without(s, k) = EntriesOf(r, el)
    BY <1>1, <1>4, <2>1, <2>2, <2>3, EntriesWithout
  <2>7. /\ i \in DOMAIN s /\ s[i] = [key |-> el[e].key, size |-> el[e].size]
    <3>1. /\ s \in Seq(Entry) /\ Len(s) = Len(p.lru)
          /\ s[i] = [key |-> el[e].key, size |-> el[e].size]
      BY <1>1, <1>4, <2>2, EntriesType
    <3> QED
      BY <3>1
  <2>8. EntriesOf(<<e>> \o r, el) = <<[key |-> el[e].key, size |-> el[e].size]>> \o EntriesOf(r, el)
    BY <1>4, <2>1, <2>4, EntriesHead
  <2>9. s[i].key = k
    BY <2>1, <2>7
  <2> QED
    BY <1>3, <2>5, <2>6, <2>7, <2>8, <2>9
<1> QED
  BY <1>6, <1>7

\* The link that ends hash_insert is the abstract insert: what is left of the
\* other entries is the longest prefix with room for the new one, less one for
\* each time memalign failed.
LEMMA LinkImplements ==
  ASSUME PartitionInv, PartitionInv', CacheInv, evictalgo = "EVICT_LRU", InsertLink
  PROVE  \E k \in Keys : \E sz \in {elem_size(size) : size \in Sizes} :
           \E n \in fails..Len(LRU!Without(Cache, k)) :
             /\ LRU!Total(SubSeq(LRU!Without(Cache, k), 1, n)) + sz <= max_size
             /\ \A m \in n + 1..Len(LRU!Without(Cache, k)) :
                  ~(LRU!Total(SubSeq(LRU!Without(Cache, k), 1, m)) + sz <= max_size)
             /\ Cache' = <<[key |-> k, size |-> sz]>> \o SubSeq(LRU!Without(Cache, k), 1, n - fails)
<1>1. pc = "evict" /\ p.size <= max_size /\ pc' = "idle"
  BY DEF InsertLink
<1>2. PICK e \in Elems \ InTable(p) :
        /\ p'.lru = <<e>> \o p.lru /\ el'[e].key = ins.key /\ el'[e].size = ins.size
        /\ \A f \in InTable(p) : el'[f] = el[f]
  BY LinkEffect
<1>3. PICK R, n, k, sz, c : /\ R = Rest /\ n = Len(p.lru) /\ k = ins.key /\ sz = ins.size
                            /\ c = fails
  OBVIOUS
<1>4. /\ k \in Keys /\ sz \in {elem_size(size) : size \in Sizes} /\ R \in Seq(Entry)
      /\ n + c <= Len(R) /\ EntriesOf(p.lru, el) = SubSeq(R, 1, n)
      /\ \A m \in n + c + 1..Len(R) : ~(LRU!Total(SubSeq(R, 1, m)) + sz <= max_size)
      /\ c > 0 => LRU!Total(SubSeq(R, 1, n + c)) + sz <= max_size
  BY <1>1, <1>3 DEF CacheInv, EvictedSoFar
<1>5. LRU!Without(Cache, k) = R
  BY <1>1, <1>3 DEF Cache, Rest
<1>6. /\ p.lru \in Seq(Elems) /\ n \in Nat /\ ToSet(p.lru) = InTable(p)
      /\ \A f \in Elems : el[f].key \in Nat /\ el[f].size \in Nat
  BY <1>3, ListFacts
<1>10. c \in Nat /\ n + c \in Nat /\ (n + c) - c = n
  BY <1>3, <1>6, PartitionFacts
<1>7. LRU!Total(SubSeq(R, 1, n + c)) + sz <= max_size
  <2>1. CASE c > 0
    BY <1>4, <2>1
  <2>2. CASE c = 0
    <3>1. n + c = n
      BY <1>6, <2>2
    <3>2. LRU!Total(SubSeq(R, 1, n)) + sz <= max_size
      BY <1>1, <1>3, <1>4, ListTotal DEF CacheInv
    <3> QED
      BY <3>1, <3>2
  <2> QED
    BY <1>10, <2>1, <2>2
<1>8. Cache' = <<[key |-> k, size |-> sz]>> \o SubSeq(R, 1, n)
  <2>1. Cache' = EntriesOf(<<e>> \o p.lru, el')
    BY <1>1, <1>2 DEF Cache
  <2>2. \A f \in Elems : el'[f].key \in Nat /\ el'[f].size \in Nat
    BY DEF PartitionInv, PartitionTypes, ElemTypes, Lines
  <2>3. EntriesOf(<<e>> \o p.lru, el') = <<[key |-> el'[e].key, size |-> el'[e].size]>> \o EntriesOf(p.lru, el')
    BY <1>6, <2>2, EntriesHead
  <2>4. EntriesOf(p.lru, el') = EntriesOf(p.lru, el)
    <3>1. \A j \in 1..Len(p.lru) : el'[p.lru[j]] = el[p.lru[j]]
      BY <1>2, <1>6, ToSetOfSeq
    <3> QED
      BY <3>1 DEF EntriesOf
  <2> QED
    BY <1>2, <1>3, <1>4, <2>1, <2>3, <2>4
<1>9. PICK N : N = n + c
  OBVIOUS
<1>11. N \in c..Len(R) /\ N - c = n
  BY <1>4, <1>6, <1>9, <1>10
<1>12. Cache' = <<[key |-> k, size |-> sz]>> \o SubSeq(R, 1, N - c)
  BY <1>8, <1>11
<1>13. \A m \in N + 1..Len(R) : ~(LRU!Total(SubSeq(R, 1, m)) + sz <= max_size)
  BY <1>4, <1>9
<1> QED
  BY <1>3, <1>4, <1>5, <1>7, <1>9, <1>11, <1>12, <1>13

\* The cache of the instance is the one the lemmas are about.
LEMMA CacheIs ==
  /\ (IF pc \in {"evict", "abort"} THEN before ELSE Entries(p.lru)) = Cache
  /\ (IF pc \in {"evict", "abort"} THEN before ELSE Entries(p.lru))' = Cache'
BY DEF Cache, Entries, EntriesOf

\* With EVICT_LRU both parts of the invariant hold always.
THEOREM CacheInvariant == ASSUME evictalgo = "EVICT_LRU" PROVE Spec => [](PartitionInv /\ CacheInv)
<1>1. Init => CacheInv
  <2> SUFFICES ASSUME Init PROVE CacheInv
    OBVIOUS
  <2>1. \A e \in Elems : el[e].key \in Nat
    BY DEF Init, NoElem
  <2>2. InTable(p) = {} /\ pc = "idle" /\ fails = 0
    BY <2>1, EmptyFacts DEF Init
  <2>3. BytesIn({}, el) = {} /\ CACHELINE * Cardinality(LinesIn({}, el)) = 0
    BY LinesEmpty DEF BytesIn
  <2>4. BytesExact
    BY <2>2, <2>3, FS_EmptySet DEF BytesExact, TableSize
  <2> QED
    BY <2>2, <2>4 DEF CacheInv, EvictedSoFar
<1>2. PartitionInv /\ PartitionInv' /\ CacheInv /\ [Next]_vars => CacheInv'
  <2> SUFFICES ASSUME PartitionInv, PartitionInv', CacheInv, [Next]_vars PROVE CacheInv'
    OBVIOUS
  <2>1. CASE UNCHANGED vars
    BY <2>1 DEF vars, CacheInv, BytesExact, EvictedSoFar, Rest
  <2>2. CASE \E k \in Keys : hash_lookup(k)
    BY <2>2, LookupKeepsCache
  <2>3. CASE \E k \in Keys : \E size \in Sizes : hash_insert(k, size)
    BY <2>3, InsertKeepsCache
  <2> QED
    BY <2>1, <2>2, <2>3, EvictKeepsCache, LinkKeepsCache, DestroyKeepsCache DEF Next, Stopped
<1> QED
  BY <1>1, <1>2, PartitionInvariant, PTL DEF Spec

\* A partition with EVICT_LRU implements LruCache: a lookup that hits is a
\* Lookup, the link at the end of hash_insert is the Insert, whose victims the
\* eviction loop has taken one by one, a memalign that returns NULL is a Fail,
\* destroy_hash_partition is the Destroy, and every other step leaves the cache
\* as it is.
THEOREM PartitionIsLruCache == ASSUME evictalgo = "EVICT_LRU" PROVE Spec => ImplementsLruCache
<1>1. Init => LRU!Init
  <2> SUFFICES ASSUME Init PROVE LRU!Init
    OBVIOUS
  <2>1. p.lru = <<>> /\ pc = "idle" /\ fails = 0
    BY DEF Init, EmptyPartition
  <2>2. Cache = <<>>
    BY <2>1 DEF Cache, EntriesOf
  <2> QED
    BY <2>1, <2>2, CacheIs DEF LRU!Init
<1>2. /\ PartitionInv /\ CacheInv /\ PartitionInv' /\ CacheInv' /\ [Next]_vars
      => [LRU!Next]_<<IF pc \in {"evict", "abort"} THEN before ELSE Entries(p.lru), fails>>
  <2> SUFFICES ASSUME PartitionInv, CacheInv, PartitionInv', [Next]_vars
               PROVE  LRU!Next \/ (Cache' = Cache /\ fails' = fails)
    BY CacheIs
  <2>1. CASE UNCHANGED vars
    BY <2>1 DEF vars, Cache
  <2>2. ASSUME NEW k \in Keys, hash_lookup(k) PROVE LRU!Next \/ (Cache' = Cache /\ fails' = fails)
    <3>3. fails' = fails
      BY <2>2 DEF hash_lookup
    <3>1. \/ Cache' = Cache
          \/ \E i \in DOMAIN Cache : Cache[i].key = k /\ Cache' = <<Cache[i]>> \o LRU!Without(Cache, k)
      BY <2>2, LookupImplements
    <3>2. Cache' # Cache => LRU!Lookup(k)
      BY <3>1, <3>3, CacheIs DEF LRU!Lookup
    <3> QED
      BY <3>2, <3>3 DEF LRU!Next
  <2>3. ASSUME NEW k \in Keys, NEW size \in Sizes, hash_insert(k, size) PROVE Cache' = Cache /\ fails' = fails
    BY <2>3 DEF hash_insert, Cache, Entries, EntriesOf
  <2>4. CASE Evict
    <3>1. Cache' = Cache
      BY <2>4 DEF Evict, Cache
    <3>2. fails' = fails \/ fails' = fails + 1
      BY <2>4 DEF Evict, NoElement
    <3>3. fails' = fails + 1 => LRU!Fail
      BY <3>1, CacheIs DEF LRU!Fail
    <3> QED
      BY <3>1, <3>2, <3>3 DEF LRU!Next
  <2>5. CASE InsertLink
    <3>1. PICK k \in Keys, sz \in {elem_size(size) : size \in Sizes} :
           \E n \in fails..Len(LRU!Without(Cache, k)) :
             /\ LRU!Total(SubSeq(LRU!Without(Cache, k), 1, n)) + sz <= max_size
             /\ \A m \in n + 1..Len(LRU!Without(Cache, k)) :
                  ~(LRU!Total(SubSeq(LRU!Without(Cache, k), 1, m)) + sz <= max_size)
             /\ Cache' = <<[key |-> k, size |-> sz]>> \o SubSeq(LRU!Without(Cache, k), 1, n - fails)
      BY <2>5, LinkImplements
    <3>3. fails' = 0
      BY <2>5 DEF InsertLink
    <3>2. LRU!Insert(k, sz)
      BY <3>1, <3>3, CacheIs DEF LRU!Insert
    <3> QED
      BY <3>2 DEF LRU!Next
  <2>6. CASE destroy_hash_partition
    <3>1. p'.lru = <<>> /\ pc' = "destroyed" /\ fails' = fails
      BY <2>6 DEF destroy_hash_partition, EmptyPartition
    <3>2. Cache' = <<>>
      BY <3>1 DEF Cache, EntriesOf
    <3> QED
      BY <3>1, <3>2, CacheIs DEF LRU!Next, LRU!Destroy
  <2> QED
    BY <2>1, <2>2, <2>3, <2>4, <2>5, <2>6 DEF Next, Stopped
<1> QED
  BY <1>1, <1>2, CacheInvariant, PTL DEF Spec, ImplementsLruCache, LRU!Spec
=============================================================================
