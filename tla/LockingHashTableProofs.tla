----------------------- MODULE LockingHashTableProofs -----------------------
(***************************************************************************)
(* Proofs about LockingHashTable, for every number of threads, elements,   *)
(* keys and buckets and both eviction policies.                            *)
(***************************************************************************)
EXTENDS LockingHashTable, AndersonLockProofs, PartitionOpsProofs

-----------------------------------------------------------------------------
(* The inductive invariant *)

Words == [key : Nat, size : Nat, ref : Int, mask : BOOLEAN]
Labels == {"none", "go", "ref", "evict", "done", "value", "filled"}
Jobs == [op : {"none", "lookup", "insert"}, key : Nat, at : Labels, e : Elems \cup {NULL}]

TableTypes ==
  /\ Sound(p, el) /\ el \in [Elems -> Words]
  /\ live \subseteq Elems /\ data \in [Elems -> Keys \cup {NULL}]
  /\ job \in [Threads -> Jobs]

\* How far a thread's query is, and whether it is at the lock.
JobsFit ==
  \A t \in Threads :
    LET j == job[t]
    IN /\ j.at \in {"none", "value", "filled"} <=> pc[t] = "out"
       /\ j.at \in {"ref", "evict", "done"} => pc[t] = "in"
       /\ j.at = "none" <=> j.op = "none"
       /\ j.at # "none" => j.key \in Keys
       /\ j.at = "ref" => j.op = "lookup"
       /\ j.at \in {"evict", "filled"} => j.op = "insert"
       /\ j.at \in {"none", "go", "evict"} => j.e = NULL
       /\ j.at \in {"ref", "value", "filled"} \/ (j.at = "done" /\ j.op = "insert") => j.e # NULL

\* Allocated elements have a key and a size, and the value of the key once the
\* bit is clear.
ElementsIntact ==
  \A e \in live : /\ el[e].key \in Keys /\ el[e].size = size
                  /\ ~el[e].mask => data[e] = el[e].key

\* What a thread has, and is about to take a reference to, is what it asked for.
ValuesKept ==
  \A t \in Threads :
    LET j == job[t]
    IN /\ j.e # NULL => j.e \in live /\ el[j.e].key = j.key
       /\ j.e # NULL /\ j.op = "lookup" => ~el[j.e].mask
       /\ j.at = "ref" => j.e \in InTable(p)
       /\ j.at = "filled" => data[j.e] = j.key

\* Only the thread that inserted an element marks it ready.
OneWriter ==
  \A t, u \in Threads :
    job[t].op = "insert" /\ job[u].op = "insert" /\ job[t].e = job[u].e /\ job[t].e # NULL => t = u

\* The table has no element with the key that is being inserted.
KeyAbsent ==
  \A t \in Threads : At(t, "evict") => \A e \in InTable(p) : el[e].key # job[t].key

\* The bytes in use are those of the elements in the table, and during an
\* insert those of the new element.
SizeCounted ==
  p.size = size * (Cardinality(InTable(p)) + (IF \E t \in Threads : At(t, "evict") THEN 1 ELSE 0))

TableInv ==
  /\ TableTypes /\ JobsFit /\ ElementsIntact /\ ValuesKept /\ OneWriter /\ KeyAbsent
  /\ SizeCounted /\ CountsExact

\* An empty partition has room for one element.
RoomForOne == max_size >= size

-----------------------------------------------------------------------------
(* The lock *)

\* A step of the table is a step of its lock or leaves it alone.
LEMMA StepOfLock == [TableNext]_tablevars => [Next]_vars
<1> SUFFICES ASSUME [TableNext]_tablevars PROVE [Next]_vars
  OBVIOUS
<1>1. ASSUME NEW t \in Threads, client_design3(t) PROVE [Next]_vars
  BY <1>1
  DEF client_design3, Work, get_random_query, anderson_acquire, Lookup, AddRef, Insert, Evict,
      InsertLink, ReleaseLock, atomic_release_value, Fill, atomic_mark_ready, Next, Step
<1>2. CASE UNCHANGED tablevars
  BY <1>2 DEF tablevars
<1> QED
  BY <1>1, <1>2 DEF TableNext

\* The locking table uses the lock as alock.c expects: the calls of
\* anderson_acquire and anderson_release alternate in every thread.
THEOREM TableUsesLock == TableSpec => Spec
<1>1. TableInit => Init
  BY DEF TableInit
<1> QED
  BY <1>1, StepOfLock, PTL DEF TableSpec, Spec

-----------------------------------------------------------------------------
(* Lemmas *)

LEMMA SizeValue == size = 128
BY DEF size, elem_size, SIZEOF_ELEM, CACHELINE

\* What a step of the query of one thread changes.
LEMMA ToFacts ==
  ASSUME TableTypes, NEW t \in Threads, NEW l \in Labels, NEW e \in Elems \cup {NULL}, To(t, l, e)
  PROVE  /\ job' \in [Threads -> Jobs]
         /\ job'[t].op = job[t].op /\ job'[t].key = job[t].key
         /\ job'[t].at = l /\ job'[t].e = e
         /\ \A u \in Threads : u # t => job'[u] = job[u]
<1>1. job \in [Threads -> Jobs] /\ job[t] \in Jobs
  BY DEF TableTypes
<1>2. job' = [job EXCEPT ![t] = [job[t] EXCEPT !.at = l, !.e = e]]
  BY <1>1 DEF To, Jobs
<1>3. [job[t] EXCEPT !.at = l, !.e = e] \in Jobs
  BY <1>1 DEF Jobs
<1> QED
  BY <1>1, <1>2, <1>3 DEF Jobs

\* The sets of threads that have a value are finite.
LEMMA HavingFinite ==
  ASSUME NEW e, NEW op
  PROVE  /\ IsFiniteSet(Having(e, op)) /\ Cardinality(Having(e, op)) \in Nat
         /\ Cardinality(Having(e, op)) = 0 <=> Having(e, op) = {}
<1>1. Having(e, op) \subseteq Threads
  BY DEF Having
<1>2. IsFiniteSet(Having(e, op))
  BY <1>1, MemoryAssumption, FS_Subset
<1> QED
  BY <1>2, FS_CardinalityType, FS_EmptySet

\* Exact counts, for one element.
Counted(e) ==
  /\ el[e].ref = Cardinality(Having(e, "lookup")) + (IF e \in InTable(p) THEN 1 ELSE 0)
  /\ el[e].mask <=> Having(e, "insert") # {}
  /\ e \in live <=> e \in InTable(p) \/ Having(e, "lookup") # {} \/ Having(e, "insert") # {}

LEMMA CountsSplit ==
  /\ CountsExact <=> \A e \in Elems : Counted(e)
  /\ CountsExact' <=> \A e \in Elems : Counted(e)'
BY DEF CountsExact, Counted

\* An element whose word, links and holders do not change stays counted.
LEMMA CountedFrame ==
  ASSUME NEW e, Counted(e), el'[e] = el[e], e \in live' <=> e \in live,
         e \in InTable(p)' <=> e \in InTable(p),
         Having(e, "lookup")' = Having(e, "lookup"), Having(e, "insert")' = Having(e, "insert")
  PROVE  Counted(e)'
BY DEF Counted

\* Writing the word of an element: it is freed when the word becomes 0, which
\* nobody can tell from the word alone.
LEMMA StoreFacts ==
  ASSUME TableTypes, NEW e \in live, NEW w \in Words, Store(e, w)
  PROVE  /\ el' \in [Elems -> Words] /\ data' \in [Elems -> Keys \cup {NULL}]
         /\ live' \subseteq live
         /\ \A f \in Elems : f # e => el'[f] = el[f] /\ data'[f] = data[f] /\ (f \in live' <=> f \in live)
         /\ e \in live' <=> w.ref # 0 \/ w.mask
         /\ e \in live' => el'[e] = w /\ data'[e] = data[e]
         /\ el'[e].ref = w.ref /\ el'[e].mask = w.mask
<1>1. NoElem \in Words /\ NoElem.ref = 0 /\ NoElem.mask = FALSE
  BY DEF NoElem, Words
<1>2. e \in Elems /\ el \in [Elems -> Words] /\ data \in [Elems -> Keys \cup {NULL}]
  BY DEF TableTypes
<1>3. w.mask \in BOOLEAN
  BY DEF Words
<1>4. CASE w.ref = 0 /\ ~w.mask
  BY <1>1, <1>2, <1>3, <1>4 DEF Store
<1>5. CASE ~(w.ref = 0 /\ ~w.mask)
  BY <1>2, <1>3, <1>5 DEF Store
<1> QED
  BY <1>4, <1>5

\* Only the holder of the lock is between Lookup or Insert and ReleaseLock.
LEMMA OthersOutside ==
  ASSUME MutualExclusion, JobsFit, NEW t \in Threads, pc[t] = "in"
  PROVE  \A u \in Threads : u # t => job[u].at \notin {"ref", "evict", "done"}
BY DEF MutualExclusion, JobsFit

\* Elements in the table are allocated.
LEMMA LinkedLive ==
  ASSUME TableTypes, CountsExact
  PROVE  InTable(p) \subseteq live /\ InTable(p) \subseteq Elems /\ IsFiniteSet(InTable(p))
                                  /\ Cardinality(InTable(p)) \in Nat
<1>1. InTable(p) \subseteq Elems
  BY TableFacts DEF TableTypes, Sound
<1>2. InTable(p) \subseteq live
  BY <1>1, CountsSplit DEF Counted
<1>3. IsFiniteSet(InTable(p))
  BY <1>1, MemoryAssumption, FS_Subset
<1> QED
  BY <1>1, <1>2, <1>3, FS_CardinalityType

\* A step that leaves the elements, the table and the holders alone keeps the
\* counts.
LEMMA CountsFrame ==
  ASSUME CountsExact, UNCHANGED <<el, live>>, InTable(p)' = InTable(p),
         \A e \in Elems : /\ Having(e, "lookup")' = Having(e, "lookup")
                         /\ Having(e, "insert")' = Having(e, "insert")
  PROVE  CountsExact'
<1>1. ASSUME NEW e \in Elems PROVE Counted(e)'
  BY CountsSplit, CountedFrame
<1> QED
  BY <1>1, CountsSplit

-----------------------------------------------------------------------------
(* Every step keeps the invariant *)

LEMMA InitTableInv == TableInit => TableInv
<1> SUFFICES ASSUME TableInit PROVE TableInv
  OBVIOUS
<1>1. el \in [Elems -> Words] /\ \A e \in Elems : el[e].key \in Nat /\ el[e].ref = 0 /\ el[e].mask = FALSE
  BY DEF TableInit, NoElem, Words
<1>2. Sound(p, el) /\ InTable(p) = {} /\ p.size = 0
  BY <1>1, EmptyFacts DEF TableInit
<1>3. /\ NoJob \in Jobs /\ NoJob.at = "none" /\ NoJob.op = "none" /\ NoJob.e = NULL
      /\ \A t \in Threads : job[t] = NoJob
  BY DEF TableInit, NoJob, Jobs, Labels
<1>4. TableTypes
  BY <1>1, <1>2, <1>3 DEF TableInit, TableTypes
<1>5. JobsFit
  BY <1>3 DEF TableInit, Init, JobsFit
<1>6. ElementsIntact /\ ValuesKept /\ OneWriter /\ KeyAbsent
  BY <1>2, <1>3 DEF TableInit, ElementsIntact, ValuesKept, OneWriter, KeyAbsent, At
<1>7. SizeCounted
  <2>1. ~ \E t \in Threads : At(t, "evict")
    BY <1>3 DEF At
  <2>2. Cardinality(InTable(p)) = 0
    BY <1>2, FS_EmptySet
  <2> QED
    BY <2>1, <2>2, <1>2, SizeValue DEF SizeCounted
<1>8. CountsExact
  <2>1. \A e, op : Having(e, op) = {}
    BY <1>3 DEF Having
  <2>2. Cardinality({}) = 0
    BY FS_EmptySet
  <2>3. \A e \in Elems : Counted(e)
    BY <2>1, <2>2, <1>1, <1>2 DEF Counted, TableInit
  <2> QED
    BY <2>3, CountsSplit
<1> QED
  BY <1>4, <1>5, <1>6, <1>7, <1>8 DEF TableInv

\* A query begins.
LEMMA BeginTableInv ==
  ASSUME TypeOK, TableInv, NEW t \in Threads, NEW op \in {"lookup", "insert"}, NEW k \in Keys,
         get_random_query(t, op, k)
  PROVE  TableInv'
<1>1. TableTypes /\ JobsFit /\ CountsExact /\ job[t].at = "none"
  BY DEF TableInv, get_random_query, At
<1>2. pc[t] = "out" /\ pc'[t] # "out" /\ pc'[t] # "in" /\ \A u \in Threads : u # t => pc'[u] = pc[u]
  BY DEF get_random_query, Draw, Goto, TypeOK
<1> DEFINE j == [op |-> op, key |-> k, at |-> "go", e |-> NULL]
<1>3. j \in Jobs
  BY KeysAssumption DEF Jobs, Labels
<1>4. /\ UNCHANGED <<p, el, live, data>>
      /\ job' = [job EXCEPT ![t] = j]
  BY DEF get_random_query, shared
<1>5. /\ job' \in [Threads -> Jobs]
      /\ job'[t].op = op /\ job'[t].key = k /\ job'[t].at = "go" /\ job'[t].e = NULL
      /\ \A u \in Threads : u # t => job'[u] = job[u]
  BY <1>1, <1>3, <1>4 DEF TableTypes
<1>6. TableTypes'
  BY <1>1, <1>4, <1>5 DEF TableTypes
<1>7. JobsFit'
  BY <1>1, <1>2, <1>5 DEF JobsFit
<1>8. ElementsIntact' /\ ValuesKept' /\ OneWriter'
  BY <1>4, <1>5 DEF TableInv, ElementsIntact, ValuesKept, OneWriter
<1>9. KeyAbsent' /\ SizeCounted'
  BY <1>1, <1>4, <1>5 DEF TableInv, KeyAbsent, SizeCounted, At
<1>10. CountsExact'
  <2>1. \A e \in Elems : Having(e, "lookup")' = Having(e, "lookup") /\ Having(e, "insert")' = Having(e, "insert")
    BY <1>1, <1>5 DEF Having
  <2> QED
    BY <2>1, <1>1, <1>4, CountsFrame
<1> QED
  BY <1>6, <1>7, <1>8, <1>9, <1>10 DEF TableInv

\* The steps of anderson_acquire.
LEMMA AcquireTableInv ==
  ASSUME TypeOK, TableInv, NEW t \in Threads, anderson_acquire(t) PROVE TableInv'
<1>1. UNCHANGED <<p, el, live, data, job>>
  BY DEF anderson_acquire, shared
<1>2. /\ pc[t] \notin {"out", "in"} /\ pc'[t] # "out" /\ \A u \in Threads : u # t => pc'[u] = pc[u]
  BY DEF anderson_acquire, Reset, Spin, Clear, Goto, TypeOK
<1>3. JobsFit'
  BY <1>1, <1>2 DEF TableInv, JobsFit
<1>4. TableTypes' /\ ElementsIntact' /\ ValuesKept' /\ OneWriter' /\ KeyAbsent' /\ SizeCounted'
  BY <1>1 DEF TableInv, TableTypes, ElementsIntact, ValuesKept, OneWriter, KeyAbsent, SizeCounted, At
<1>5. CountsExact'
  BY <1>1 DEF TableInv, CountsExact, Having
<1> QED
  BY <1>3, <1>4, <1>5 DEF TableInv

\* hash_lookup changes the LRU list only.
LEMMA LookupTableInv ==
  ASSUME TypeOK, MutualExclusion, TableInv, NEW t \in Threads, Lookup(t) PROVE TableInv'
<1> DEFINE e == Find(p, el, job[t].key)
           found == e # NULL /\ is_value_ready(e)
<1>1. TableTypes /\ JobsFit /\ CountsExact /\ ElementsIntact /\ ValuesKept
  BY DEF TableInv
<1>2. /\ pc[t] = "in" /\ job[t].op = "lookup" /\ job[t].at = "go" /\ job[t].e = NULL
      /\ job[t].key \in Nat /\ job[t].key \in Keys
  BY <1>1, KeysAssumption DEF Lookup, Inside, At, JobsFit
<1>3. e = NULL \/ (e \in InTable(p) /\ el[e].key = job[t].key)
  BY <1>1, <1>2, FindFacts DEF TableTypes
<1>4. InTable(p) \subseteq live /\ InTable(p) \subseteq Elems
  BY <1>1, LinkedLive
<1>5. /\ p' = Touch(p, e) /\ UNCHANGED <<pc, el, live, data>>
      /\ To(t, IF found THEN "ref" ELSE "done", IF found THEN e ELSE NULL)
  BY DEF Lookup, vars
<1>6. Sound(p, el)' /\ InTable(p)' = InTable(p) /\ p'.size = p.size
  BY <1>1, <1>3, <1>5, TouchFacts DEF TableTypes
<1> HIDE DEF e
<1>7. /\ job' \in [Threads -> Jobs]
      /\ job'[t].op = job[t].op /\ job'[t].key = job[t].key
      /\ job'[t].at = (IF found THEN "ref" ELSE "done") /\ job'[t].e = (IF found THEN e ELSE NULL)
      /\ \A u \in Threads : u # t => job'[u] = job[u]
  <2>1. (IF found THEN "ref" ELSE "done") \in Labels /\ (IF found THEN e ELSE NULL) \in Elems \cup {NULL}
    BY <1>3, <1>4 DEF Labels
  <2> QED
    BY <2>1, <1>1, <1>5, ToFacts
<1>8. TableTypes'
  BY <1>1, <1>5, <1>6, <1>7 DEF TableTypes
<1>9. JobsFit'
  BY <1>1, <1>2, <1>5, <1>7 DEF JobsFit
<1>10. ElementsIntact' /\ OneWriter'
  BY <1>1, <1>2, <1>5, <1>7 DEF TableInv, ElementsIntact, OneWriter
<1>11. ValuesKept'
  <2>1. ASSUME NEW u \in Threads, u # t
        PROVE  /\ job'[u].e # NULL => job'[u].e \in live' /\ el'[job'[u].e].key = job'[u].key
               /\ job'[u].e # NULL /\ job'[u].op = "lookup" => ~el'[job'[u].e].mask
               /\ job'[u].at = "ref" => job'[u].e \in InTable(p)'
               /\ job'[u].at = "filled" => data'[job'[u].e] = job'[u].key
    BY <2>1, <1>1, <1>5, <1>6, <1>7 DEF ValuesKept
  <2>2. /\ job'[t].e # NULL => job'[t].e \in live' /\ el'[job'[t].e].key = job'[t].key
        /\ job'[t].e # NULL /\ job'[t].op = "lookup" => ~el'[job'[t].e].mask
        /\ job'[t].at = "ref" => job'[t].e \in InTable(p)'
        /\ job'[t].at # "filled"
    BY <1>3, <1>4, <1>5, <1>6, <1>7 DEF is_value_ready
  <2> QED
    BY <2>1, <2>2 DEF ValuesKept
<1>12. KeyAbsent' /\ SizeCounted'
  BY <1>2, <1>5, <1>6, <1>7 DEF TableInv, KeyAbsent, SizeCounted, At
<1>13. CountsExact'
  <2>1. \A f \in Elems : Having(f, "lookup")' = Having(f, "lookup") /\ Having(f, "insert")' = Having(f, "insert")
    BY <1>2, <1>7, PartitionAssumption DEF Having
  <2> QED
    BY <2>1, <1>1, <1>5, <1>6, CountsFrame
<1> QED
  BY <1>8, <1>9, <1>10, <1>11, <1>12, <1>13 DEF TableInv

\* The reference of a reader, taken under the lock.
LEMMA AddRefTableInv ==
  ASSUME TypeOK, MutualExclusion, TableInv, NEW t \in Threads, AddRef(t) PROVE TableInv'
<1>1. TableTypes /\ JobsFit /\ CountsExact /\ ElementsIntact /\ ValuesKept
  BY DEF TableInv
<1>e. PICK e \in Elems : job[t].e = e /\ e # NULL
  BY <1>1 DEF AddRef, Inside, At, JobsFit, TableTypes, Jobs
<1>2. /\ pc[t] = "in" /\ job[t].op = "lookup" /\ job[t].at = "ref" /\ job[t].key \in Keys
      /\ job[t].e = e /\ e # NULL
  BY <1>1, <1>e DEF AddRef, Inside, At, JobsFit
<1>3. e \in live /\ e \in InTable(p) /\ el[e].key = job[t].key /\ ~el[e].mask
  BY <1>1, <1>2 DEF ValuesKept
<1>4. /\ el' = [el EXCEPT ![e].ref = @ + 1] /\ UNCHANGED <<pc, p, live, data>> /\ To(t, "done", e)
  BY <1>e DEF AddRef, vars
<1>5. /\ el' \in [Elems -> Words] /\ el'[e].ref = el[e].ref + 1
      /\ \A f \in Elems : /\ el'[f].key = el[f].key /\ el'[f].size = el[f].size /\ el'[f].mask = el[f].mask
                          /\ f # e => el'[f] = el[f]
  BY <1>1, <1>2, <1>4 DEF TableTypes, Words
<1>6. /\ job' \in [Threads -> Jobs]
      /\ job'[t].op = "lookup" /\ job'[t].key = job[t].key /\ job'[t].at = "done" /\ job'[t].e = e
      /\ \A u \in Threads : u # t => job'[u] = job[u]
  BY <1>1, <1>2, <1>4, ToFacts DEF Labels
<1>7. InTable(p) \subseteq Elems /\ InTable(p)' = InTable(p)
  BY <1>1, <1>4, LinkedLive DEF InTable
<1>8. TableTypes'
  <2>1. \A f \in Elems : el'[f].key \in Nat
    BY <1>5 DEF Words
  <2>2. Sound(p, el') /\ p' = p
    <3>1. Sound(p, el)
      BY <1>1 DEF TableTypes
    <3>2. \A f \in InTable(p) : el'[f].key = el[f].key
      BY <1>5, <1>7
    <3> QED
      BY <3>1, <3>2, <2>1, <1>4, SoundFrame
  <2> QED
    BY <2>2, <1>1, <1>4, <1>5, <1>6 DEF TableTypes
<1>9. JobsFit'
  BY <1>1, <1>2, <1>4, <1>6 DEF JobsFit
<1>10. ElementsIntact' /\ OneWriter'
  BY <1>1, <1>2, <1>4, <1>5, <1>6 DEF TableInv, ElementsIntact, OneWriter, TableTypes
<1>11. ValuesKept'
  <2>1. ASSUME NEW u \in Threads, u # t
        PROVE  /\ job'[u].e # NULL => job'[u].e \in live' /\ el'[job'[u].e].key = job'[u].key
               /\ job'[u].e # NULL /\ job'[u].op = "lookup" => ~el'[job'[u].e].mask
               /\ job'[u].at = "ref" => job'[u].e \in InTable(p)'
               /\ job'[u].at = "filled" => data'[job'[u].e] = job'[u].key
    BY <2>1, <1>1, <1>4, <1>5, <1>6, <1>7 DEF ValuesKept, TableTypes
  <2>2. /\ job'[t].e \in live' /\ el'[job'[t].e].key = job'[t].key /\ ~el'[job'[t].e].mask
        /\ job'[t].at # "ref" /\ job'[t].at # "filled"
    BY <1>2, <1>3, <1>4, <1>5, <1>6
  <2> QED
    BY <2>1, <2>2 DEF ValuesKept
<1>12. KeyAbsent' /\ SizeCounted'
  BY <1>2, <1>4, <1>5, <1>6, <1>7 DEF TableInv, KeyAbsent, SizeCounted, At
<1>13. CountsExact'
  <2>1. /\ Having(e, "lookup")' = Having(e, "lookup") \cup {t} /\ t \notin Having(e, "lookup")
        /\ Having(e, "insert")' = Having(e, "insert")
        /\ \A f \in Elems : f # e => /\ Having(f, "lookup")' = Having(f, "lookup")
                                     /\ Having(f, "insert")' = Having(f, "insert")
    BY <1>2, <1>6 DEF Having
  <2>2. Cardinality(Having(e, "lookup")') = Cardinality(Having(e, "lookup")) + 1
    BY <2>1, HavingFinite, FS_AddElement
  <2>3. Counted(e)'
    <3>1. Counted(e) /\ Cardinality(Having(e, "lookup")) \in Nat
      BY <1>1, <1>2, CountsSplit, HavingFinite
    <3>2. e \in live' /\ e \in InTable(p)' /\ el'[e].mask = el[e].mask
      BY <1>2, <1>3, <1>4, <1>5, <1>7
    <3> QED
      BY <3>1, <3>2, <2>1, <2>2, <1>3, <1>5 DEF Counted
  <2>4. ASSUME NEW f \in Elems, f # e PROVE Counted(f)'
    BY <2>1, <2>4, <1>1, <1>4, <1>5, <1>7, CountsSplit, CountedFrame
  <2> QED
    BY <2>3, <2>4, CountsSplit
<1> QED
  BY <1>8, <1>9, <1>10, <1>11, <1>12, <1>13 DEF TableInv

\* An element leaves the table: the threads that have it keep it, and if there
\* are none it is freed.
LEMMA UnlinkKeeps ==
  ASSUME MutualExclusion, TableInv, NEW t \in Threads, pc[t] = "in", job[t].e = NULL,
         NEW e \in InTable(p), atomic_release_value_(e), InTable(p)' = InTable(p) \ {e},
         job'[t].e = NULL, \A u \in Threads : u # t => job'[u] = job[u]
  PROVE  /\ el' \in [Elems -> Words] /\ data' \in [Elems -> Keys \cup {NULL}] /\ live' \subseteq live
         /\ CountsExact' /\ ElementsIntact'
         /\ \A f \in live' : el'[f].key = el[f].key /\ el'[f].mask = el[f].mask /\ data'[f] = data[f]
         /\ \A f \in InTable(p)' : el'[f].key = el[f].key
         /\ \A u \in Threads : u # t /\ job[u].e # NULL => job[u].e \in live'
<1>1. TableTypes /\ JobsFit /\ CountsExact /\ ElementsIntact
  BY DEF TableInv
<1> DEFINE w == [el[e] EXCEPT !.ref = @ - 1]
<1>2. e \in live /\ e \in Elems /\ InTable(p) \subseteq Elems
  BY <1>1, LinkedLive
<1>3. /\ w \in Words /\ w.ref = el[e].ref - 1
      /\ w.key = el[e].key /\ w.size = el[e].size /\ w.mask = el[e].mask
  BY <1>1, <1>2 DEF TableTypes, Words
<1>4. Store(e, w)
  BY DEF atomic_release_value_
<1> HIDE DEF w
<1>5. /\ el' \in [Elems -> Words] /\ data' \in [Elems -> Keys \cup {NULL}]
      /\ live' \subseteq live
      /\ \A f \in Elems : f # e => el'[f] = el[f] /\ data'[f] = data[f] /\ (f \in live' <=> f \in live)
      /\ e \in live' <=> w.ref # 0 \/ w.mask
      /\ e \in live' => el'[e] = w /\ data'[e] = data[e]
      /\ el'[e].ref = w.ref /\ el'[e].mask = w.mask
  BY <1>1, <1>2, <1>3, <1>4, StoreFacts
<1>6. \A f \in Elems : Having(f, "lookup")' = Having(f, "lookup") /\ Having(f, "insert")' = Having(f, "insert")
  BY PartitionAssumption DEF Having
<1>7. CountsExact'
  <2>1. Counted(e)'
    <3>1. Counted(e) /\ Cardinality(Having(e, "lookup")) \in Nat
          /\ (Cardinality(Having(e, "lookup")) = 0 <=> Having(e, "lookup") = {})
      BY <1>1, <1>2, CountsSplit, HavingFinite
    <3>2. w.ref = Cardinality(Having(e, "lookup")) /\ w.mask = el[e].mask
      BY <3>1, <1>3 DEF Counted
    <3>3. e \notin InTable(p)'
      OBVIOUS
    <3> QED
      BY <3>1, <3>2, <3>3, <1>2, <1>5, <1>6 DEF Counted
  <2>2. ASSUME NEW f \in Elems, f # e PROVE Counted(f)'
    BY <2>2, <1>1, <1>5, <1>6, CountsSplit, CountedFrame
  <2> QED
    BY <2>1, <2>2, CountsSplit
<1>8. \A f \in live' : /\ el'[f].key = el[f].key /\ el'[f].size = el[f].size
                       /\ el'[f].mask = el[f].mask /\ data'[f] = data[f]
  BY <1>1, <1>3, <1>5 DEF TableTypes
<1>9. ElementsIntact'
  BY <1>1, <1>5, <1>8 DEF ElementsIntact
<1>10. \A f \in InTable(p)' : el'[f].key = el[f].key
  BY <1>2, <1>5
<1>11. ASSUME NEW u \in Threads, u # t, job[u].e # NULL PROVE job[u].e \in live'
  <2>1. /\ job[u].at \in {"value", "filled"} /\ job[u].op \in {"lookup", "insert"}
        /\ job[u].e \in Elems
    BY <1>1, <1>11, OthersOutside DEF JobsFit, TableTypes, Jobs, Labels
  <2>2. u \in Having(job[u].e, job[u].op)
    BY <2>1 DEF Having
  <2>3. Having(job[u].e, "lookup")' # {} \/ Having(job[u].e, "insert")' # {}
    BY <2>1, <2>2, <1>6
  <2>4. Counted(job[u].e)'
    BY <2>1, <1>7, CountsSplit
  <2> QED
    BY <2>1, <2>3, <2>4 DEF Counted
<1> QED
  BY <1>5, <1>7, <1>8, <1>9, <1>10, <1>11

\* The start of hash_insert: an element with the key leaves the table, and the
\* bytes of the new one are counted.
LEMMA InsertTableInv ==
  ASSUME TypeOK, MutualExclusion, TableInv, NEW t \in Threads, Insert(t) PROVE TableInv'
<1>1. TableTypes /\ JobsFit /\ CountsExact /\ ElementsIntact /\ ValuesKept /\ OneWriter
  BY DEF TableInv
<1>2. /\ pc[t] = "in" /\ job[t].op = "insert" /\ job[t].at = "go" /\ job[t].e = NULL
      /\ job[t].key \in Nat /\ job[t].key \in Keys
  BY <1>1, KeysAssumption DEF Insert, Inside, At, JobsFit
<1>3. InTable(p) \subseteq live /\ InTable(p) \subseteq Elems /\ IsFiniteSet(InTable(p))
                                /\ Cardinality(InTable(p)) \in Nat
  BY <1>1, LinkedLive
<1>4. PICK e : e = Find(p, el, job[t].key)
  OBVIOUS
<1>5. \/ e = NULL /\ \A f \in InTable(p) : el[f].key # job[t].key
      \/ e \in InTable(p) /\ el[e].key = job[t].key
  BY <1>1, <1>2, <1>4, FindFacts DEF TableTypes
<1>6. PICK q : q = IF e # NULL THEN hash_remove(Touch(p, e), el, e) ELSE p
  OBVIOUS
<1>7. /\ p' = [q EXCEPT !.size = @ + size] /\ UNCHANGED pc /\ To(t, "evict", NULL)
      /\ IF e # NULL THEN atomic_release_value_(e) ELSE UNCHANGED <<el, live, data>>
  BY <1>4, <1>6 DEF Insert, vars
<1>8. /\ Sound(q, el) /\ InTable(q) = InTable(p) \ {e}
      /\ q.size = size * Cardinality(InTable(q)) /\ Cardinality(InTable(q)) \in Nat
  <2>1. p.size = size * Cardinality(InTable(p))
    <3>1. ~ \E u \in Threads : At(u, "evict")
      BY <1>1, <1>2, OthersOutside DEF At
    <3> QED
      BY <3>1, <1>3, SizeValue DEF TableInv, SizeCounted
  <2>2. CASE e = NULL
    <3>1. q = p /\ e \notin InTable(p)
      BY <2>2, <1>3, <1>6, PartitionAssumption
    <3> QED
      BY <3>1, <2>1, <1>1, <1>3 DEF TableTypes
  <2>3. CASE e # NULL
    <3>1. e \in InTable(p) /\ e \in live /\ el[e].size = size
      BY <2>3, <1>1, <1>3, <1>5 DEF ElementsIntact
    <3>2. Sound(Touch(p, e), el) /\ InTable(Touch(p, e)) = InTable(p) /\ Touch(p, e).size = p.size
      BY <3>1, <1>1, TouchFacts DEF TableTypes
    <3>3. size \in Int
      BY SizeValue
    <3>4. Sound(q, el) /\ InTable(q) = InTable(p) \ {e} /\ q.size = p.size - size
      BY <3>1, <3>2, <3>3, <2>3, <1>6, RemoveFacts
    <3>5. Cardinality(InTable(q)) = Cardinality(InTable(p)) - 1 /\ IsFiniteSet(InTable(q))
      BY <3>1, <3>4, <1>3, FS_RemoveElement
    <3>6. Cardinality(InTable(q)) \in Nat
      BY <3>5, FS_CardinalityType
    <3> QED
      BY <3>4, <3>5, <3>6, <2>1, <1>3, SizeValue
  <2> QED
    BY <2>2, <2>3
<1>9. /\ Sound(p', el) /\ InTable(p)' = InTable(p) \ {e}
      /\ p'.size = size * (Cardinality(InTable(p)') + 1)
  <2>1. q \in Partitions /\ q.size + size \in Int
    BY <1>8, SizeValue DEF Sound, Partitions
  <2>2. p' = [q EXCEPT !.size = q.size + size] /\ p'.size = q.size + size
    BY <2>1, <1>7 DEF Partitions
  <2>3. Sound(p', el) /\ InTable(p') = InTable(q)
    BY <2>1, <2>2, <1>8, SoundSize
  <2>4. InTable(p)' = InTable(q)
    BY <2>3
  <2>5. p'.size = size * (Cardinality(InTable(q)) + 1)
    BY <2>2, <1>8, SizeValue
  <2> QED
    BY <2>3, <2>4, <2>5, <1>8
<1>10. /\ job' \in [Threads -> Jobs]
       /\ job'[t].op = "insert" /\ job'[t].key = job[t].key /\ job'[t].at = "evict" /\ job'[t].e = NULL
       /\ \A u \in Threads : u # t => job'[u] = job[u]
  BY <1>1, <1>2, <1>7, ToFacts DEF Labels
<1>11. /\ el' \in [Elems -> Words] /\ data' \in [Elems -> Keys \cup {NULL}] /\ live' \subseteq live
       /\ CountsExact' /\ ElementsIntact'
       /\ \A f \in live' : el'[f].key = el[f].key /\ el'[f].mask = el[f].mask /\ data'[f] = data[f]
       /\ \A f \in InTable(p)' : el'[f].key = el[f].key
       /\ \A u \in Threads : u # t /\ job[u].e # NULL => job[u].e \in live'
  <2>1. CASE e = NULL
    <3>1. UNCHANGED <<el, live, data>> /\ InTable(p)' = InTable(p)
      BY <2>1, <1>3, <1>7, <1>9, PartitionAssumption
    <3>2. CountsExact'
      <4>1. \A f \in Elems : Having(f, "lookup")' = Having(f, "lookup") /\ Having(f, "insert")' = Having(f, "insert")
        BY <1>2, <1>10, PartitionAssumption DEF Having
      <4> QED
        BY <4>1, <3>1, <1>1, CountsFrame
    <3>3. ElementsIntact' /\ \A u \in Threads : u # t /\ job[u].e # NULL => job[u].e \in live'
      BY <3>1, <1>1 DEF ElementsIntact, ValuesKept
    <3> QED
      BY <3>1, <3>2, <3>3, <1>1 DEF TableTypes
  <2>2. CASE e # NULL
    <3>1. e \in InTable(p) /\ atomic_release_value_(e)
      BY <2>2, <1>5, <1>7
    <3> QED
      BY <3>1, <1>2, <1>9, <1>10, UnlinkKeeps
  <2> QED
    BY <2>1, <2>2
<1>12. TableTypes'
  <2>1. \A f \in Elems : el'[f].key \in Nat
    BY <1>11 DEF Words
  <2>2. Sound(p', el')
    BY <2>1, <1>9, <1>11, SoundFrame
  <2> QED
    BY <2>2, <1>1, <1>10, <1>11 DEF TableTypes
<1>13. JobsFit'
  BY <1>1, <1>2, <1>7, <1>10 DEF JobsFit
<1>14. ValuesKept'
  <2>1. ASSUME NEW u \in Threads, u # t
        PROVE  /\ job'[u].e # NULL => job'[u].e \in live' /\ el'[job'[u].e].key = job'[u].key
               /\ job'[u].e # NULL /\ job'[u].op = "lookup" => ~el'[job'[u].e].mask
               /\ job'[u].at = "filled" => data'[job'[u].e] = job'[u].key
               /\ job'[u].at # "ref"
    <3>1. job'[u] = job[u] /\ job[u].at # "ref" /\ (job[u].at = "filled" => job[u].e # NULL)
      BY <2>1, <1>1, <1>2, <1>10, OthersOutside DEF JobsFit
    <3> QED
      BY <3>1, <2>1, <1>1, <1>11 DEF ValuesKept
  <2> QED
    BY <2>1, <1>10 DEF ValuesKept
<1>15. OneWriter'
  BY <1>1, <1>10 DEF OneWriter
<1>16. KeyAbsent'
  <2>1. \A u \in Threads : u # t => job'[u].at # "evict"
    BY <1>1, <1>2, <1>10, OthersOutside
  <2>2. ASSUME NEW f \in InTable(p)' PROVE el'[f].key # job[t].key
    <3>1. f \in InTable(p) /\ f # e /\ el'[f].key = el[f].key
      BY <2>2, <1>9, <1>11
    <3>2. \A g, h \in InTable(p) : el[g].key = el[h].key => g = h
      BY <1>1 DEF TableTypes, Sound, WellLinked
    <3> QED
      BY <3>1, <3>2, <1>5
  <2> QED
    BY <2>1, <2>2, <1>10 DEF KeyAbsent, At
<1>17. SizeCounted'
  BY <1>9, <1>10 DEF SizeCounted, At
<1> QED
  BY <1>11, <1>12, <1>13, <1>14, <1>15, <1>16, <1>17 DEF TableInv

\* A turn of the eviction loop.
LEMMA EvictTableInv ==
  ASSUME TypeOK, MutualExclusion, TableInv, NEW t \in Threads, Evict(t) PROVE TableInv'
<1>1. TableTypes /\ JobsFit /\ CountsExact /\ ElementsIntact /\ ValuesKept /\ OneWriter /\ KeyAbsent
  BY DEF TableInv
<1>2. pc[t] = "in" /\ job[t].op = "insert" /\ job[t].at = "evict" /\ job[t].e = NULL
  BY <1>1 DEF Evict, Inside, At, JobsFit
<1>3. InTable(p) \subseteq live /\ InTable(p) \subseteq Elems /\ IsFiniteSet(InTable(p))
                                /\ Cardinality(InTable(p)) \in Nat
  BY <1>1, LinkedLive
<1>4. p.size = size * (Cardinality(InTable(p)) + 1) /\ p.size > size
  BY <1>2 DEF TableInv, SizeCounted, Evict, At
<1>5. InTable(p) # {}
  BY <1>3, <1>4, SizeValue, FS_EmptySet
<1>6. PICK e \in InTable(p) : p' = hash_remove(p, el, e) /\ atomic_release_value_(e)
  BY <1>1, <1>5, VictimFacts DEF Evict, TableTypes
<1>7. UNCHANGED <<pc, job>>
  BY DEF Evict, vars
<1>8. e \in live /\ el[e].size = size /\ size \in Int
  BY <1>1, <1>3, SizeValue DEF ElementsIntact
<1>9. Sound(p', el) /\ InTable(p)' = InTable(p) \ {e} /\ p'.size = p.size - size
  BY <1>1, <1>6, <1>8, RemoveFacts DEF TableTypes
<1>10. p'.size = size * (Cardinality(InTable(p)') + 1)
  <2>1. Cardinality(InTable(p)') = Cardinality(InTable(p)) - 1
    BY <1>3, <1>9, FS_RemoveElement
  <2> QED
    BY <2>1, <1>3, <1>4, <1>9, SizeValue
<1>11. /\ el' \in [Elems -> Words] /\ data' \in [Elems -> Keys \cup {NULL}] /\ live' \subseteq live
       /\ CountsExact' /\ ElementsIntact'
       /\ \A f \in live' : el'[f].key = el[f].key /\ el'[f].mask = el[f].mask /\ data'[f] = data[f]
       /\ \A f \in InTable(p)' : el'[f].key = el[f].key
       /\ \A u \in Threads : u # t /\ job[u].e # NULL => job[u].e \in live'
  BY <1>2, <1>6, <1>7, <1>9, UnlinkKeeps
<1>12. TableTypes'
  <2>1. \A f \in Elems : el'[f].key \in Nat
    BY <1>11 DEF Words
  <2>2. Sound(p', el')
    BY <2>1, <1>9, <1>11, SoundFrame
  <2> QED
    BY <2>2, <1>1, <1>7, <1>11 DEF TableTypes
<1>13. JobsFit' /\ OneWriter'
  BY <1>1, <1>7 DEF JobsFit, OneWriter
<1>14. ValuesKept'
  <2>1. ASSUME NEW u \in Threads, u # t
        PROVE  /\ job'[u].e # NULL => job'[u].e \in live' /\ el'[job'[u].e].key = job'[u].key
               /\ job'[u].e # NULL /\ job'[u].op = "lookup" => ~el'[job'[u].e].mask
               /\ job'[u].at = "filled" => data'[job'[u].e] = job'[u].key
               /\ job'[u].at # "ref"
    <3>1. job'[u] = job[u] /\ job[u].at # "ref" /\ (job[u].at = "filled" => job[u].e # NULL)
      BY <2>1, <1>1, <1>2, <1>7, OthersOutside DEF JobsFit
    <3> QED
      BY <3>1, <2>1, <1>1, <1>11 DEF ValuesKept
  <2> QED
    BY <2>1, <1>2, <1>7 DEF ValuesKept
<1>15. KeyAbsent' /\ SizeCounted'
  BY <1>1, <1>2, <1>7, <1>9, <1>10, <1>11 DEF KeyAbsent, SizeCounted, At
<1> QED
  BY <1>11, <1>12, <1>13, <1>14, <1>15 DEF TableInv

\* The end of hash_insert: a new element, which nobody else can have.
LEMMA LinkTableInv ==
  ASSUME TypeOK, MutualExclusion, TableInv, NEW t \in Threads, InsertLink(t) PROVE TableInv'
<1>1. TableTypes /\ JobsFit /\ CountsExact /\ ElementsIntact /\ ValuesKept /\ OneWriter /\ KeyAbsent
  BY DEF TableInv
<1>2. /\ pc[t] = "in" /\ job[t].op = "insert" /\ job[t].at = "evict" /\ job[t].e = NULL
      /\ job[t].key \in Keys /\ job[t].key \in Nat
  BY <1>1, KeysAssumption DEF InsertLink, Inside, At, JobsFit
<1>3. InTable(p) \subseteq live /\ InTable(p) \subseteq Elems /\ IsFiniteSet(InTable(p))
                                /\ Cardinality(InTable(p)) \in Nat
  BY <1>1, LinkedLive
<1>4. PICK e \in Elems \ live :
        /\ live' = live \cup {e}
        /\ el' = [el EXCEPT ![e] = [key |-> job[t].key, size |-> size, ref |-> 1, mask |-> TRUE]]
        /\ p' = Link(p, e, job[t].key)
        /\ To(t, "done", e)
  BY DEF InsertLink
<1>5. UNCHANGED <<pc, data>>
  BY DEF InsertLink, vars
<1>6. /\ el' \in [Elems -> Words]
      /\ el'[e].key = job[t].key /\ el'[e].size = size /\ el'[e].ref = 1 /\ el'[e].mask = TRUE
      /\ \A f \in Elems : f # e => el'[f] = el[f]
  <2>1. [key |-> job[t].key, size |-> size, ref |-> 1, mask |-> TRUE] \in Words
    BY <1>2, SizeValue DEF Words
  <2> QED
    BY <2>1, <1>1, <1>4 DEF TableTypes
<1>7. /\ job' \in [Threads -> Jobs]
      /\ job'[t].op = "insert" /\ job'[t].key = job[t].key /\ job'[t].at = "done" /\ job'[t].e = e
      /\ \A u \in Threads : u # t => job'[u] = job[u]
  BY <1>1, <1>2, <1>4, ToFacts DEF Labels
<1>8. e # NULL /\ e \notin InTable(p) /\ \A u \in Threads : job[u].e # e
  BY <1>1, <1>3, <1>4, PartitionAssumption DEF ValuesKept
<1>9. \A f \in Elems : el'[f].key \in Nat
  BY <1>6 DEF Words
<1>10. Sound(p', el') /\ InTable(p)' = InTable(p) \cup {e} /\ p'.size = p.size
  <2>1. Sound(p, el')
    BY <1>1, <1>3, <1>6, <1>8, <1>9, SoundFrame DEF TableTypes
  <2>2. \A f \in InTable(p) : el'[f].key # el'[e].key
    BY <1>1, <1>2, <1>3, <1>6, <1>8 DEF KeyAbsent, At
  <2>3. p' = Link(p, e, el'[e].key) /\ e \in Elems \ InTable(p) /\ el'[e].key \in Nat
    BY <1>2, <1>4, <1>6, <1>8
  <2> QED
    BY <2>1, <2>2, <2>3, LinkFacts
<1>11. TableTypes'
  BY <1>1, <1>4, <1>5, <1>6, <1>7, <1>10 DEF TableTypes
<1>12. JobsFit'
  BY <1>1, <1>2, <1>5, <1>7, <1>8 DEF JobsFit
<1>13. ElementsIntact'
  BY <1>1, <1>2, <1>4, <1>5, <1>6 DEF ElementsIntact, TableTypes
<1>14. ValuesKept'
  <2>1. ASSUME NEW u \in Threads, u # t
        PROVE  /\ job'[u].e # NULL => job'[u].e \in live' /\ el'[job'[u].e].key = job'[u].key
               /\ job'[u].e # NULL /\ job'[u].op = "lookup" => ~el'[job'[u].e].mask
               /\ job'[u].at = "filled" => data'[job'[u].e] = job'[u].key
               /\ job'[u].at # "ref"
    <3>1. job'[u] = job[u] /\ job[u].at # "ref" /\ job[u].e # e
      BY <2>1, <1>1, <1>2, <1>7, <1>8, OthersOutside
    <3>2. job[u].e # NULL => job[u].e \in live /\ job[u].e \in Elems /\ el'[job[u].e] = el[job[u].e]
      BY <3>1, <1>1, <1>6 DEF ValuesKept, TableTypes
    <3> QED
      BY <3>1, <3>2, <1>1, <1>4, <1>5 DEF ValuesKept
  <2>2. e \in live' /\ el'[e].key = job[t].key
    BY <1>4, <1>6
  <2> QED
    BY <2>1, <2>2, <1>7 DEF ValuesKept
<1>15. OneWriter'
  BY <1>1, <1>7, <1>8 DEF OneWriter
<1>16. ~ \E u \in Threads : job'[u].at = "evict"
  BY <1>1, <1>2, <1>7, OthersOutside
<1>17. KeyAbsent' /\ SizeCounted'
  <2>1. Cardinality(InTable(p)') = Cardinality(InTable(p)) + 1
    BY <1>3, <1>8, <1>10, FS_AddElement
  <2>2. p.size = size * (Cardinality(InTable(p)) + 1)
    BY <1>2 DEF TableInv, SizeCounted, At
  <2>3. p'.size = size * (Cardinality(InTable(p)') + 0)
    BY <2>1, <2>2, <1>3, <1>10, SizeValue
  <2> QED
    BY <2>3, <1>16 DEF KeyAbsent, SizeCounted, At
<1>18. CountsExact'
  <2>1. /\ Having(e, "lookup") = {} /\ Having(e, "insert") = {}
        /\ Having(e, "lookup")' = {} /\ Having(e, "insert")' = {t}
    BY <1>7, <1>8 DEF Having
  <2>2. \A f \in Elems : f # e => /\ Having(f, "lookup")' = Having(f, "lookup")
                                  /\ Having(f, "insert")' = Having(f, "insert")
    BY <1>2, <1>7, PartitionAssumption DEF Having
  <2>3. Counted(e)'
    <3>1. Cardinality(Having(e, "lookup")') = 0
      BY <2>1, FS_EmptySet
    <3> QED
      BY <3>1, <2>1, <1>4, <1>6, <1>10 DEF Counted
  <2>4. ASSUME NEW f \in Elems, f # e PROVE Counted(f)'
    BY <2>2, <2>4, <1>1, <1>4, <1>6, <1>10, CountsSplit, CountedFrame
  <2> QED
    BY <2>3, <2>4, CountsSplit
<1> QED
  BY <1>11, <1>12, <1>13, <1>14, <1>15, <1>17, <1>18 DEF TableInv

\* The thread leaves the lock, with its value or without.
LEMMA ReleaseTableInv ==
  ASSUME TypeOK, MutualExclusion, TableInv, NEW t \in Threads, ReleaseLock(t) PROVE TableInv'
<1>1. TableTypes /\ JobsFit /\ CountsExact /\ ElementsIntact /\ ValuesKept /\ OneWriter /\ KeyAbsent
  BY DEF TableInv
<1>2. pc[t] = "in" /\ pc'[t] = "out" /\ \A u \in Threads : u # t => pc'[u] = pc[u]
  BY DEF ReleaseLock, anderson_release, Goto, TypeOK
<1>3. job[t].at = "done" /\ job[t].op \in {"lookup", "insert"} /\ job[t].key \in Keys /\ job[t] \in Jobs
  BY <1>1 DEF ReleaseLock, At, JobsFit, TableTypes, Jobs
<1>4. /\ UNCHANGED <<p, el, live, data>> /\ InTable(p)' = InTable(p)
      /\ job' = [job EXCEPT ![t] = IF job[t].e = NULL THEN NoJob ELSE [job[t] EXCEPT !.at = "value"]]
  BY <1>1 DEF ReleaseLock, shared, TableTypes, InTable
<1>5. NoJob \in Jobs /\ NoJob.at = "none" /\ NoJob.op = "none" /\ NoJob.e = NULL
  BY DEF NoJob, Jobs, Labels
<1>6. /\ [job[t] EXCEPT !.at = "value"] \in Jobs
      /\ [job[t] EXCEPT !.at = "value"].at = "value" /\ [job[t] EXCEPT !.at = "value"].e = job[t].e
      /\ [job[t] EXCEPT !.at = "value"].op = job[t].op /\ [job[t] EXCEPT !.at = "value"].key = job[t].key
  BY <1>3 DEF Jobs, Labels
<1>7. /\ job' \in [Threads -> Jobs] /\ job'[t].e = job[t].e
      /\ \/ job[t].e = NULL /\ job'[t].at = "none" /\ job'[t].op = "none"
         \/ job[t].e # NULL /\ job'[t].at = "value" /\ job'[t].op = job[t].op /\ job'[t].key = job[t].key
      /\ \A u \in Threads : u # t => job'[u] = job[u]
  BY <1>1, <1>4, <1>5, <1>6 DEF TableTypes
<1>8. TableTypes'
  BY <1>1, <1>4, <1>7 DEF TableTypes
<1>9. JobsFit'
  BY <1>1, <1>2, <1>3, <1>7 DEF JobsFit
<1>10. ElementsIntact' /\ OneWriter'
  BY <1>1, <1>4, <1>7 DEF ElementsIntact, OneWriter
<1>11. ValuesKept'
  BY <1>1, <1>4, <1>7 DEF ValuesKept
<1>12. KeyAbsent' /\ SizeCounted'
  BY <1>3, <1>4, <1>7 DEF TableInv, KeyAbsent, SizeCounted, At
<1>13. CountsExact'
  <2>1. \A f \in Elems : Having(f, "lookup")' = Having(f, "lookup") /\ Having(f, "insert")' = Having(f, "insert")
    BY <1>3, <1>7, PartitionAssumption DEF Having
  <2> QED
    BY <2>1, <1>1, <1>4, CountsFrame
<1> QED
  BY <1>8, <1>9, <1>10, <1>11, <1>12, <1>13 DEF TableInv

\* The thread writes the value it inserts.
LEMMA FillTableInv ==
  ASSUME TypeOK, TableInv, NEW t \in Threads, Fill(t) PROVE TableInv'
<1>1. TableTypes /\ JobsFit /\ CountsExact /\ ElementsIntact /\ ValuesKept /\ OneWriter /\ KeyAbsent
  BY DEF TableInv
<1>2. PICK e \in Elems : job[t].e = e /\ e # NULL
  BY <1>1 DEF Fill, At, JobsFit, TableTypes, Jobs
<1>3. /\ job[t].at = "value" /\ job[t].op = "insert" /\ job[t].key \in Keys /\ pc[t] = "out"
      /\ e \in live /\ el[e].key = job[t].key
  BY <1>1, <1>2 DEF Fill, At, JobsFit, ValuesKept
<1>4. /\ UNCHANGED <<pc, p, el, live>> /\ InTable(p)' = InTable(p)
      /\ data' = [data EXCEPT ![e] = job[t].key] /\ To(t, "filled", e)
  BY <1>2 DEF Fill, vars, InTable
<1>5. /\ job' \in [Threads -> Jobs]
      /\ job'[t].op = "insert" /\ job'[t].key = job[t].key /\ job'[t].at = "filled" /\ job'[t].e = e
      /\ \A u \in Threads : u # t => job'[u] = job[u]
  BY <1>1, <1>2, <1>3, <1>4, ToFacts DEF Labels
<1>6. /\ data' \in [Elems -> Keys \cup {NULL}] /\ data'[e] = job[t].key
      /\ \A f \in Elems : f # e => data'[f] = data[f]
  BY <1>1, <1>3, <1>4 DEF TableTypes
<1>7. TableTypes'
  BY <1>1, <1>4, <1>5, <1>6 DEF TableTypes
<1>8. JobsFit'
  BY <1>1, <1>2, <1>3, <1>4, <1>5 DEF JobsFit
<1>9. ElementsIntact' /\ OneWriter'
  BY <1>1, <1>2, <1>3, <1>4, <1>5, <1>6 DEF ElementsIntact, OneWriter, TableTypes
<1>10. ValuesKept'
  <2>1. ASSUME NEW u \in Threads, u # t
        PROVE  /\ job'[u].e # NULL => job'[u].e \in live' /\ el'[job'[u].e].key = job'[u].key
               /\ job'[u].e # NULL /\ job'[u].op = "lookup" => ~el'[job'[u].e].mask
               /\ job'[u].at = "ref" => job'[u].e \in InTable(p)'
               /\ job'[u].at = "filled" => data'[job'[u].e] = job'[u].key
    <3>1. job[u].at = "filled" => job[u].e # NULL /\ job[u].op = "insert" /\ job[u].e \in Elems
      BY <1>1 DEF JobsFit, TableTypes, Jobs
    <3>2. job[u].at = "filled" => job[u].e # e
      BY <3>1, <2>1, <1>1, <1>2, <1>3 DEF OneWriter
    <3> QED
      BY <3>1, <3>2, <2>1, <1>1, <1>4, <1>5, <1>6 DEF ValuesKept
  <2> QED
    BY <2>1, <1>3, <1>4, <1>5, <1>6 DEF ValuesKept
<1>11. KeyAbsent' /\ SizeCounted'
  BY <1>3, <1>4, <1>5 DEF TableInv, KeyAbsent, SizeCounted, At
<1>12. CountsExact'
  <2>1. \A f \in Elems : Having(f, "lookup")' = Having(f, "lookup") /\ Having(f, "insert")' = Having(f, "insert")
    BY <1>2, <1>3, <1>5 DEF Having
  <2> QED
    BY <2>1, <1>1, <1>4, CountsFrame
<1> QED
  BY <1>7, <1>8, <1>9, <1>10, <1>11, <1>12 DEF TableInv

\* A thread lets go of its value with no lock held.
LEMMA LetGoKeeps ==
  ASSUME TypeOK, TableInv, NEW t \in Threads, NEW e \in Elems, NEW w \in Words,
         job[t].e = e, job[t].at \in {"value", "filled"}, Store(e, w),
         w.key = el[e].key, w.size = el[e].size,
         ~w.mask => data[e] = el[e].key, ~el[e].mask => ~w.mask,
         job' = [job EXCEPT ![t] = NoJob], UNCHANGED <<vars, p>>,
         w.ref = Cardinality(Having(e, "lookup") \ {t}) + (IF e \in InTable(p) THEN 1 ELSE 0),
         w.mask <=> Having(e, "insert") \ {t} # {}
  PROVE  TableInv'
<1>1. TableTypes /\ JobsFit /\ CountsExact /\ ElementsIntact /\ ValuesKept /\ OneWriter /\ KeyAbsent
  BY DEF TableInv
<1>2. e # NULL /\ e \in live /\ pc[t] = "out"
  BY <1>1, PartitionAssumption DEF JobsFit, ValuesKept
<1>3. /\ el' \in [Elems -> Words] /\ data' \in [Elems -> Keys \cup {NULL}]
      /\ live' \subseteq live
      /\ \A f \in Elems : f # e => el'[f] = el[f] /\ data'[f] = data[f] /\ (f \in live' <=> f \in live)
      /\ e \in live' <=> w.ref # 0 \/ w.mask
      /\ e \in live' => el'[e] = w /\ data'[e] = data[e]
      /\ el'[e].ref = w.ref /\ el'[e].mask = w.mask
  BY <1>1, <1>2, StoreFacts
<1>4. NoJob \in Jobs /\ NoJob.at = "none" /\ NoJob.op = "none" /\ NoJob.e = NULL
  BY DEF NoJob, Jobs, Labels
<1>5. /\ job' \in [Threads -> Jobs] /\ job'[t].at = "none" /\ job'[t].op = "none" /\ job'[t].e = NULL
      /\ \A u \in Threads : u # t => job'[u] = job[u]
  BY <1>1, <1>4 DEF TableTypes
<1>6. UNCHANGED <<pc, p>> /\ InTable(p)' = InTable(p) /\ InTable(p) \subseteq Elems
  BY <1>1, LinkedLive DEF vars, InTable
<1>7. /\ Having(e, "lookup")' = Having(e, "lookup") \ {t} /\ Having(e, "insert")' = Having(e, "insert") \ {t}
      /\ \A f \in Elems : f # e => /\ Having(f, "lookup")' = Having(f, "lookup")
                                   /\ Having(f, "insert")' = Having(f, "insert")
  BY <1>5 DEF Having
<1>8. CountsExact'
  <2>1. Counted(e)'
    <3>1. IsFiniteSet(Having(e, "lookup") \ {t})
      BY HavingFinite, FS_Subset
    <3>2. /\ Cardinality(Having(e, "lookup") \ {t}) \in Nat
          /\ Cardinality(Having(e, "lookup") \ {t}) = 0 <=> Having(e, "lookup") \ {t} = {}
      BY <3>1, FS_CardinalityType, FS_EmptySet
    <3>3. w.ref # 0 <=> Having(e, "lookup") \ {t} # {} \/ e \in InTable(p)
      BY <3>2
    <3> QED
      BY <3>3, <1>3, <1>6, <1>7 DEF Counted
  <2>2. ASSUME NEW f \in Elems, f # e PROVE Counted(f)'
    BY <2>2, <1>1, <1>3, <1>6, <1>7, CountsSplit, CountedFrame
  <2> QED
    BY <2>1, <2>2, CountsSplit
<1>9. TableTypes'
  <2>1. \A f \in Elems : el'[f].key \in Nat
    BY <1>3 DEF Words
  <2>2. \A f \in InTable(p) : f \in live'
    BY <1>6, <1>8, CountsSplit DEF Counted
  <2>3. \A f \in InTable(p) : el'[f].key = el[f].key
    BY <2>2, <1>3, <1>6
  <2>4. Sound(p, el')
    BY <2>1, <2>3, <1>1, SoundFrame DEF TableTypes
  <2> QED
    BY <2>4, <1>1, <1>3, <1>5, <1>6 DEF TableTypes
<1>10. JobsFit'
  BY <1>1, <1>2, <1>5, <1>6 DEF JobsFit
<1>11. ElementsIntact'
  BY <1>1, <1>3 DEF ElementsIntact, TableTypes
<1>12. OneWriter'
  BY <1>1, <1>5 DEF OneWriter
<1>13. ValuesKept'
  <2>1. ASSUME NEW u \in Threads, u # t, job[u].e # NULL
        PROVE  job[u].e \in live' /\ el'[job[u].e].key = el[job[u].e].key /\ data'[job[u].e] = data[job[u].e]
    <3>1. job[u].e \in live /\ job[u].e \in Elems
      BY <2>1, <1>1 DEF ValuesKept, TableTypes
    <3>2. job[u].e \in live'
      <4>1. CASE job[u].at = "ref"
        BY <4>1, <1>1, <1>6, <1>8, <3>1, CountsSplit DEF ValuesKept, Counted
      <4>2. CASE job[u].at # "ref"
        <5>1. job[u].at \in {"done", "value", "filled"} /\ job[u].op \in {"lookup", "insert"}
          BY <4>2, <2>1, <1>1 DEF JobsFit, TableTypes, Jobs, Labels
        <5>2. PICK f \in Elems : f = job[u].e
          BY <3>1
        <5>3. Having(f, "lookup")' # {} \/ Having(f, "insert")' # {}
          BY <5>1, <5>2, <2>1, <1>5 DEF Having
        <5> QED
          BY <5>2, <5>3, <1>8, CountsSplit DEF Counted
      <4> QED
        BY <4>1, <4>2
    <3> QED
      BY <3>1, <3>2, <1>3
  <2>2. ASSUME NEW u \in Threads, u # t
        PROVE  /\ job'[u].e # NULL => job'[u].e \in live' /\ el'[job'[u].e].key = job'[u].key
               /\ job'[u].e # NULL /\ job'[u].op = "lookup" => ~el'[job'[u].e].mask
               /\ job'[u].at = "ref" => job'[u].e \in InTable(p)'
               /\ job'[u].at = "filled" => data'[job'[u].e] = job'[u].key
    <3>1. job[u].at = "filled" => job[u].e # NULL
      BY <1>1 DEF JobsFit
    <3>2. job[u].e \in Elems \cup {NULL}
      BY <1>1 DEF TableTypes, Jobs
    <3> QED
      BY <2>1, <2>2, <3>1, <3>2, <1>1, <1>3, <1>5, <1>6 DEF ValuesKept
  <2> QED
    BY <2>2, <1>5 DEF ValuesKept
<1>14. KeyAbsent' /\ SizeCounted'
  <2>1. \A f \in InTable(p) : el'[f].key = el[f].key
    <3>1. \A f \in InTable(p) : f \in live'
      BY <1>6, <1>8, CountsSplit DEF Counted
    <3> QED
      BY <3>1, <1>3, <1>6
  <2> QED
    BY <2>1, <1>5, <1>6 DEF TableInv, KeyAbsent, SizeCounted, At
<1> QED
  BY <1>8, <1>9, <1>10, <1>11, <1>12, <1>13, <1>14 DEF TableInv

\* A reader drops its reference.
LEMMA ReleaseValueTableInv ==
  ASSUME TypeOK, TableInv, NEW t \in Threads, atomic_release_value(t) PROVE TableInv'
<1>1. TableTypes /\ JobsFit /\ CountsExact /\ ElementsIntact /\ ValuesKept
  BY DEF TableInv
<1>2. PICK e \in Elems : job[t].e = e /\ e # NULL
  BY <1>1 DEF atomic_release_value, At, JobsFit, TableTypes, Jobs
<1>3. /\ job[t].at = "value" /\ job[t].op = "lookup" /\ e \in live /\ ~el[e].mask /\ data[e] = el[e].key
  BY <1>1, <1>2 DEF atomic_release_value, At, ValuesKept, ElementsIntact
<1> DEFINE w == [el[e] EXCEPT !.ref = @ - 1]
<1>4. /\ w \in Words /\ w.ref = el[e].ref - 1
      /\ w.key = el[e].key /\ w.size = el[e].size /\ w.mask = el[e].mask
  BY <1>1 DEF TableTypes, Words
<1>5. Store(e, w) /\ job' = [job EXCEPT ![t] = NoJob] /\ UNCHANGED <<vars, p>>
  BY <1>2 DEF atomic_release_value, atomic_release_value_
<1> HIDE DEF w
<1>6. t \in Having(e, "lookup") /\ t \notin Having(e, "insert")
  BY <1>2, <1>3 DEF Having
<1>7. /\ Cardinality(Having(e, "lookup") \ {t}) = Cardinality(Having(e, "lookup")) - 1
      /\ Cardinality(Having(e, "lookup")) \in Nat
  BY <1>6, HavingFinite, FS_RemoveElement
<1>8. Counted(e)
  BY <1>1, CountsSplit
<1>9. w.ref = Cardinality(Having(e, "lookup") \ {t}) + (IF e \in InTable(p) THEN 1 ELSE 0)
  BY <1>4, <1>7, <1>8 DEF Counted
<1>10. w.mask <=> Having(e, "insert") \ {t} # {}
  BY <1>4, <1>6, <1>8 DEF Counted
<1> QED
  BY <1>2, <1>3, <1>4, <1>5, <1>9, <1>10, LetGoKeeps

\* The inserting thread clears the bit, which stands for its reference.
LEMMA MarkReadyTableInv ==
  ASSUME TypeOK, TableInv, NEW t \in Threads, atomic_mark_ready(t) PROVE TableInv'
<1>1. TableTypes /\ JobsFit /\ CountsExact /\ ElementsIntact /\ ValuesKept /\ OneWriter
  BY DEF TableInv
<1>2. PICK e \in Elems : job[t].e = e /\ e # NULL
  BY <1>1 DEF atomic_mark_ready, At, JobsFit, TableTypes, Jobs
<1>3. /\ job[t].at = "filled" /\ job[t].op = "insert" /\ e \in live /\ data[e] = el[e].key
  BY <1>1, <1>2 DEF atomic_mark_ready, At, ValuesKept, JobsFit
<1> DEFINE w == [el[e] EXCEPT !.mask = FALSE]
<1>4. /\ w \in Words /\ w.ref = el[e].ref
      /\ w.key = el[e].key /\ w.size = el[e].size /\ w.mask = FALSE
  BY <1>1 DEF TableTypes, Words
<1>5. Store(e, w) /\ job' = [job EXCEPT ![t] = NoJob] /\ UNCHANGED <<vars, p>>
  BY <1>2 DEF atomic_mark_ready
<1> HIDE DEF w
<1>6. t \notin Having(e, "lookup") /\ Having(e, "lookup") \ {t} = Having(e, "lookup")
  BY <1>3 DEF Having
<1>7. Having(e, "insert") \ {t} = {}
  BY <1>1, <1>2, <1>3 DEF Having, OneWriter
<1>8. Counted(e)
  BY <1>1, CountsSplit
<1>9. w.ref = Cardinality(Having(e, "lookup") \ {t}) + (IF e \in InTable(p) THEN 1 ELSE 0)
  BY <1>4, <1>6, <1>8 DEF Counted
<1> QED
  BY <1>2, <1>3, <1>4, <1>5, <1>7, <1>9, LetGoKeeps

-----------------------------------------------------------------------------
(* Theorems *)

LEMMA NextTableInv == TypeOK /\ MutualExclusion /\ TableInv /\ [TableNext]_tablevars => TableInv'
<1> SUFFICES ASSUME TypeOK, MutualExclusion, TableInv, [TableNext]_tablevars PROVE TableInv'
  OBVIOUS
<1>1. ASSUME NEW t \in Threads, client_design3(t) PROVE TableInv'
  <2>1. CASE Work(t)
    BY <2>1, AcquireTableInv, LookupTableInv, AddRefTableInv, InsertTableInv, EvictTableInv, LinkTableInv,
       ReleaseTableInv, ReleaseValueTableInv, FillTableInv, MarkReadyTableInv DEF Work
  <2>2. CASE \E op \in {"lookup", "insert"}, k \in Keys : get_random_query(t, op, k)
    BY <2>2, BeginTableInv
  <2> QED
    BY <1>1, <2>1, <2>2 DEF client_design3
<1>2. CASE UNCHANGED tablevars
  <2>1. UNCHANGED <<pc, p, el, live, data, job>>
    BY <1>2 DEF tablevars, vars, shared
  <2>2. TableTypes' /\ JobsFit' /\ ElementsIntact' /\ ValuesKept' /\ OneWriter' /\ KeyAbsent' /\ SizeCounted'
    BY <2>1 DEF TableInv, TableTypes, JobsFit, ElementsIntact, ValuesKept, OneWriter, KeyAbsent, SizeCounted, At
  <2>3. CountsExact'
    BY <2>1 DEF TableInv, CountsExact, Having
  <2> QED
    BY <2>2, <2>3 DEF TableInv
<1> QED
  BY <1>1, <1>2 DEF TableNext

\* The invariant of the table rests on the lock excluding, which rests on the
\* number of slots.
THEOREM TableInvariant ==
  ASSUME EnoughSlots PROVE TableSpec => []TableInv
<1>1. TableInit => TableInv
  BY InitTableInv
<1>2. TypeOK /\ MutualExclusion /\ TableInv /\ [TableNext]_tablevars => TableInv'
  BY NextTableInv
<1> QED
  BY <1>1, <1>2, TableUsesLock, LockTypes, LockExcludes, PTL DEF TableSpec

\* Reference counts are exact although they are dropped without the lock: no
\* element is freed early, twice, or never.
THEOREM CountsAreExact ==
  ASSUME EnoughSlots PROVE TableSpec => []CountsExact
<1>1. TableInv => CountsExact
  BY DEF TableInv
<1> QED
  BY <1>1, TableInvariant, PTL

\* The element that locking_hash_lookup or locking_hash_insert has returned
\* keeps its memory, key and value until the thread lets go of it.
THEOREM ValuesStayIntact ==
  ASSUME EnoughSlots PROVE TableSpec => []HeldIntact
<1>1. TableInv => HeldIntact
  BY DEF TableInv, HeldIntact, ValuesKept, ElementsIntact
<1> QED
  BY <1>1, TableInvariant, PTL

\* With as many elements as threads, the element being inserted included, some
\* element is in the table when memory runs out.
LEMMA TableNotEmpty ==
  ASSUME TableInv, NEW t \in Threads, At(t, "evict"), live = Elems
  PROVE  InTable(p) # {}
<1> SUFFICES ASSUME InTable(p) = {} PROVE FALSE
  OBVIOUS
<1> DEFINE Others == Threads \ {t}
           h == [e \in Elems |-> CHOOSE u \in Others : job[u].e = e]
<1>1. \A e \in Elems : \E u \in Others : job[u].e = e
  <2> SUFFICES ASSUME NEW e \in Elems PROVE \E u \in Others : job[u].e = e
    OBVIOUS
  <2>1. Having(e, "lookup") # {} \/ Having(e, "insert") # {}
    BY CountsSplit DEF TableInv, Counted
  <2>2. PICK u \in Threads : job[u].e = e
    BY <2>1 DEF Having
  <2>3. job[t].e = NULL
    BY DEF TableInv, JobsFit, At
  <2> QED
    BY <2>2, <2>3, PartitionAssumption
<1>2. \A e \in Elems : h[e] \in Others /\ job[h[e]].e = e
  BY <1>1
<1>3. h \in [Elems -> Others]
  BY <1>2
<1> HIDE DEF h
<1>4. h \in Injection(Elems, Others)
  BY <1>2, <1>3 DEF Injection, IsInjective
<1>5. IsFiniteSet(Others) /\ Cardinality(Others) = Cardinality(Threads) - 1
  BY MemoryAssumption, FS_RemoveElement
<1>6. Cardinality(Elems) <= Cardinality(Others)
  BY <1>4, <1>5, FS_Injection
<1>7. Cardinality(Threads) \in Nat /\ Cardinality(Elems) \in Nat
  BY MemoryAssumption, FS_CardinalityType
<1> QED
  BY <1>5, <1>6, <1>7, MemoryAssumption

\* assert(p->size > elem_size) in hash_insert holds whenever one element fits
\* in an empty partition.
THEOREM AssertionHolds ==
  ASSUME EnoughSlots, RoomForOne PROVE TableSpec => []EvictAssertHolds
<1>1. TableInv => EvictAssertHolds
  <2> SUFFICES ASSUME TableInv, NEW t \in Threads, At(t, "evict"), MustEvict PROVE p.size > size
    BY DEF EvictAssertHolds
  <2>1. p.size = size * (Cardinality(InTable(p)) + 1)
    BY DEF TableInv, SizeCounted
  <2>2. IsFiniteSet(InTable(p)) /\ Cardinality(InTable(p)) \in Nat
    BY LinkedLive DEF TableInv
  <2>3. Cardinality(InTable(p)) # 0
    <3>1. CASE p.size > max_size
      BY <3>1, <2>1, SizeValue, PartitionAssumption DEF RoomForOne
    <3>2. CASE live = Elems
      BY <3>2, <2>2, TableNotEmpty, FS_EmptySet
    <3> QED
      BY <3>1, <3>2 DEF MustEvict
  <2> QED
    BY <2>1, <2>2, <2>3, SizeValue
<1> QED
  BY <1>1, TableInvariant, PTL
=============================================================================
