-------------------------- MODULE LockingHashTable --------------------------
(***************************************************************************)
(* The locking hash table: threads operate on a partition themselves,      *)
(* under its array lock (AndersonLock), but drop references and mark       *)
(* values ready with atomic instructions and no lock, while another thread *)
(* may be looking the element up, replacing or evicting it.                *)
(*                                                                         *)
(* A thread runs client_design3: a lookup or an insert, then what          *)
(* handle_query_result does with the value.  Partitions and their locks    *)
(* share nothing, so one stands for all.  All values have size 8.          *)
(***************************************************************************)
EXTENDS AndersonLock, PartitionOps

CONSTANT Keys

ASSUME KeysAssumption == Keys \subseteq Nat

\* Each thread has at most one value.
ASSUME MemoryAssumption ==
  /\ IsFiniteSet(Threads) /\ IsFiniteSet(Elems)
  /\ Cardinality(Elems) >= Cardinality(Threads)

VARIABLES
  p,      \* struct partition
  el,     \* key, size, ref_count, DATA_READY_MASK of every element
  live,   \* elements that are allocated
  data,   \* the key whose value is in the element, NULL while unwritten
  job     \* a thread's query, how far it is, and the element it has got

shared == <<p, el, live, data>>
tablevars == <<vars, shared, job>>

NoElem == [key |-> 0, size |-> 0, ref |-> 0, mask |-> FALSE]
NoJob == [op |-> "none", key |-> 0, at |-> "none", e |-> NULL]
size == elem_size(8)

TableInit ==
  /\ Init
  /\ p = EmptyPartition /\ el = [e \in Elems |-> NoElem]
  /\ live = {} /\ data = [e \in Elems |-> NULL]
  /\ job = [t \in Threads |-> NoJob]

At(t, l) == job[t].at = l
To(t, l, e) == job' = [job EXCEPT ![t].at = l, ![t].e = e]
Inside(t, op) == pc[t] = "in" /\ job[t].op = op

-----------------------------------------------------------------------------
(* Reference counts *)

is_value_ready(e) == ~el[e].mask

\* The element's word becomes w; the thread that makes it 0 frees the element.
Store(e, w) ==
  IF w.ref = 0 /\ ~w.mask
    THEN /\ live' = live \ {e}
         /\ el' = [el EXCEPT ![e] = NoElem] /\ data' = [data EXCEPT ![e] = NULL]
    ELSE el' = [el EXCEPT ![e] = w] /\ UNCHANGED <<live, data>>

atomic_release_value_(e) == Store(e, [el[e] EXCEPT !.ref = @ - 1])

-----------------------------------------------------------------------------
(* locking_hash_lookup and locking_hash_insert, in client_design3 *)

\* A query begins by drawing a slot of the lock.
get_random_query(t, op, k) ==
  /\ At(t, "none") /\ Draw(t)
  /\ job' = [job EXCEPT ![t] = [op |-> op, key |-> k, at |-> "go", e |-> NULL]]
  /\ UNCHANGED shared

anderson_acquire(t) == (Reset(t) \/ Spin(t) \/ Clear(t)) /\ UNCHANGED <<shared, job>>

\* Mutant: elements that are not ready are found too.
LookupUnready(t) ==
  LET e == Find(p, el, job[t].key)
  IN /\ Inside(t, "lookup") /\ At(t, "go")
     /\ p' = Touch(p, e)
     /\ To(t, IF e # NULL THEN "ref" ELSE "done", e)
     /\ UNCHANGED <<vars, el, live, data>>

\* hash_lookup, and the test of the bit...
Lookup(t) ==
  LET e == Find(p, el, job[t].key)
      found == e # NULL /\ is_value_ready(e)
  IN /\ Inside(t, "lookup") /\ At(t, "go")
     /\ p' = Touch(p, e)
     /\ To(t, IF found THEN "ref" ELSE "done", IF found THEN e ELSE NULL)
     /\ UNCHANGED <<vars, el, live, data>>

\* ... and then the reference, while other threads drop theirs.
AddRef(t) ==
  /\ Inside(t, "lookup") /\ At(t, "ref")
  /\ el' = [el EXCEPT ![job[t].e].ref = @ + 1]
  /\ To(t, "done", job[t].e)
  /\ UNCHANGED <<vars, p, live, data>>

\* Mutant: the bytes of the new element are counted when it is linked.
InsertUncounted(t) ==
  LET e == Find(p, el, job[t].key)
  IN /\ Inside(t, "insert") /\ At(t, "go")
     /\ p' = IF e # NULL THEN hash_remove(Touch(p, e), el, e) ELSE p
     /\ IF e # NULL THEN atomic_release_value_(e) ELSE UNCHANGED <<el, live, data>>
     /\ To(t, "evict", NULL)
     /\ UNCHANGED vars

\* hash_insert up to its loop.
Insert(t) ==
  LET e == Find(p, el, job[t].key)
      q == IF e # NULL THEN hash_remove(Touch(p, e), el, e) ELSE p
  IN /\ Inside(t, "insert") /\ At(t, "go")
     /\ p' = [q EXCEPT !.size = @ + size]
     /\ IF e # NULL THEN atomic_release_value_(e) ELSE UNCHANGED <<el, live, data>>
     /\ To(t, "evict", NULL)
     /\ UNCHANGED vars

\* The partition is full, or memalign finds no memory because threads still
\* have what was evicted.
MustEvict == p.size > max_size \/ live = Elems

\* A turn of the loop that evicts, past its assertion.
Evict(t) ==
  /\ Inside(t, "insert") /\ At(t, "evict")
  /\ MustEvict /\ p.size > size
  /\ \E l \in Victims(p) : p' = hash_remove(p, el, l) /\ atomic_release_value_(l)
  /\ UNCHANGED <<vars, job>>

\* The end of hash_insert, and ref_count = DATA_READY_MASK | 1.
InsertLink(t) ==
  /\ Inside(t, "insert") /\ At(t, "evict") /\ ~MustEvict
  /\ \E e \in Elems \ live :
       /\ live' = live \cup {e}
       /\ el' = [el EXCEPT ![e] = [key |-> job[t].key, size |-> size, ref |-> 1, mask |-> TRUE]]
       /\ p' = Link(p, e, job[t].key)
       /\ To(t, "done", e)
  /\ UNCHANGED <<vars, data>>

ReleaseLock(t) ==
  /\ At(t, "done") /\ anderson_release(t)
  /\ job' = [job EXCEPT ![t] = IF @.e = NULL THEN NoJob ELSE [@ EXCEPT !.at = "value"]]
  /\ UNCHANGED shared

-----------------------------------------------------------------------------
(* handle_query_result: no lock is held *)

\* The value has been read.
atomic_release_value(t) ==
  /\ At(t, "value") /\ job[t].op = "lookup"
  /\ atomic_release_value_(job[t].e)
  /\ job' = [job EXCEPT ![t] = NoJob]
  /\ UNCHANGED <<vars, p>>

Fill(t) ==
  /\ At(t, "value") /\ job[t].op = "insert"
  /\ data' = [data EXCEPT ![job[t].e] = job[t].key]
  /\ To(t, "filled", job[t].e)
  /\ UNCHANGED <<vars, p, el, live>>

\* Mutant: an element nobody else refers to is not freed.
atomic_mark_ready_keep(t) ==
  /\ At(t, "filled")
  /\ el' = [el EXCEPT ![job[t].e].mask = FALSE]
  /\ job' = [job EXCEPT ![t] = NoJob]
  /\ UNCHANGED <<vars, p, live, data>>

\* The element is freed here if it has left the table meanwhile.
atomic_mark_ready(t) ==
  /\ At(t, "filled")
  /\ Store(job[t].e, [el[job[t].e] EXCEPT !.mask = FALSE])
  /\ job' = [job EXCEPT ![t] = NoJob]
  /\ UNCHANGED <<vars, p>>

Work(t) ==
  \/ anderson_acquire(t) \/ Lookup(t) \/ AddRef(t) \/ Insert(t) \/ Evict(t) \/ InsertLink(t)
  \/ ReleaseLock(t) \/ atomic_release_value(t) \/ Fill(t) \/ atomic_mark_ready(t)

client_design3(t) == Work(t) \/ \E op \in {"lookup", "insert"}, k \in Keys : get_random_query(t, op, k)

TableNext == \E t \in Threads : client_design3(t)
TableSpec == TableInit /\ [][TableNext]_tablevars

-----------------------------------------------------------------------------
\* Threads with a value of e from op.
Having(e, op) == {t \in Threads : job[t].op = op /\ job[t].at \in {"done", "value", "filled"} /\ job[t].e = e}

\* ref_count is the number of references, the table's and the readers', and
\* the bit is set exactly while a thread has yet to mark the value ready: the
\* bit stands for that thread's reference.  An element is allocated exactly
\* while there are any: whoever drops the last one frees it, once.
CountsExact ==
  \A e \in Elems :
    LET linked == e \in InTable(p)
    IN /\ el[e].ref = Cardinality(Having(e, "lookup")) + (IF linked THEN 1 ELSE 0)
       /\ el[e].mask <=> Having(e, "insert") # {}
       /\ e \in live <=> linked \/ Having(e, "lookup") \cup Having(e, "insert") # {}

\* The value a thread has keeps its memory and its key until the thread lets
\* go, and a value that was looked up is completely written.  This includes
\* the moment between the test of the bit and taking the reference.
HeldIntact ==
  \A t \in Threads :
    job[t].e # NULL =>
      /\ job[t].e \in live /\ el[job[t].e].key = job[t].key
      /\ job[t].op = "lookup" => data[job[t].e] = job[t].key

\* The assertion p->size > elem_size of hash_insert holds: there is always an
\* element to evict, even when memory is short because of held values.
EvictAssertHolds == (\E t \in Threads : At(t, "evict")) /\ MustEvict => p.size > size
=============================================================================
