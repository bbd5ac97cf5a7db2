------------------------- MODULE PartitionOpsProofs -------------------------
(***************************************************************************)
(* What the operations of partition.c do to the chains and the LRU list of *)
(* a partition, for every number of buckets and both eviction policies.    *)
(***************************************************************************)
EXTENDS PartitionOps, SequenceTheorems, FiniteSetTheorems, TLAPS

Buckets == 0..nhash - 1

\* Partitions that are linked correctly, for elements whose keys el gives.
Partitions == [table : [Buckets -> Seq(Elems)], lru : Seq(Elems), size : Int]
Sound(p, el) ==
  /\ p \in Partitions /\ WellLinked(p, el)
  /\ \A e \in Elems : el[e].key \in Nat

-----------------------------------------------------------------------------
(* Sequences without repetition *)

\* The elements of a sequence are those at its places.
LEMMA ToSetOfSeq ==
  ASSUME NEW S, NEW s \in Seq(S)
  PROVE  ToSet(s) = {s[j] : j \in 1..Len(s)} /\ ToSet(s) \subseteq S
BY DEF ToSet

\* A sequence without its i-th element.
LEMMA RemoveAtFacts ==
  ASSUME NEW S, NEW s \in Seq(S), NEW i \in 1..Len(s), NEW r, r = RemoveAt(s, i)
  PROVE  /\ r \in Seq(S) /\ Len(r) = Len(s) - 1
         /\ \A j \in 1..Len(r) : r[j] = IF j < i THEN s[j] ELSE s[j + 1]
<1> DEFINE u == SubSeq(s, 1, i - 1)
           v == SubSeq(s, i + 1, Len(s))
<1>1. u \in Seq(S) /\ Len(u) = i - 1 /\ \A j \in 1..i - 1 : u[j] = s[j]
  OBVIOUS
<1>2. v \in Seq(S) /\ Len(v) = Len(s) - i /\ \A j \in 1..Len(s) - i : v[j] = s[i + j]
  OBVIOUS
<1>3. r = u \o v
  BY DEF RemoveAt
<1> HIDE DEF u, v
<1>4. /\ r \in Seq(S) /\ Len(r) = Len(u) + Len(v)
      /\ \A j \in 1..Len(u) + Len(v) : r[j] = IF j <= Len(u) THEN u[j] ELSE v[j - Len(u)]
  <2>1. u \in Seq(S) /\ v \in Seq(S)
    BY <1>1, <1>2
  <2> QED
    BY <2>1, <1>3, ConcatProperties
<1>5. Len(u) = i - 1 /\ Len(v) = Len(s) - i /\ Len(s) \in Nat
  BY <1>1, <1>2
<1>6. r \in Seq(S) /\ Len(r) = Len(s) - 1
  BY <1>4, <1>5
<1>7. ASSUME NEW j \in 1..Len(r) PROVE r[j] = IF j < i THEN s[j] ELSE s[j + 1]
  <2>1. j \in 1..Len(s) - 1 /\ r[j] = IF j <= i - 1 THEN u[j] ELSE v[j - (i - 1)]
    BY <1>6, <1>4, <1>5
  <2>2. CASE j < i
    <3>1. j \in 1..i - 1
      BY <2>1, <2>2, <1>5
    <3> QED
      BY <3>1, <2>1, <2>2, <1>1
  <2>3. CASE ~(j < i)
    <3>1. j - (i - 1) \in 1..Len(s) - i /\ i + (j - (i - 1)) = j + 1
      BY <2>1, <2>3, <1>5
    <3>2. v[j - (i - 1)] = s[j + 1]
      BY <3>1, <1>2
    <3> QED
      BY <3>2, <2>1, <2>3
  <2> QED
    BY <2>2, <2>3
<1> QED
  BY <1>6, <1>7

\* Where no element occurs twice the first occurrence is the only one.
LEMMA RemoveFirstAt ==
  ASSUME NEW S, NEW s \in Seq(S), IsInjective(s), NEW i \in 1..Len(s), NEW e, s[i] = e
  PROVE  RemoveFirst(s, e) = RemoveAt(s, i)
<1>1. \A j, k \in 1..Len(s) : s[j] = s[k] => j = k
  BY DEF IsInjective
<1>2. {j \in 1..Len(s) : s[j] = e} = {i}
  BY <1>1
<1>3. Min({i}) = i
  BY DEF Min
<1> QED
  BY <1>2, <1>3 DEF RemoveFirst, SelectInSeq

\* TAILQ_REMOVE takes one element out and leaves the others.
LEMMA RemoveFirstFacts ==
  ASSUME NEW S, NEW s \in Seq(S), IsInjective(s), NEW e \in ToSet(s)
  PROVE  /\ RemoveFirst(s, e) \in Seq(S)
         /\ IsInjective(RemoveFirst(s, e))
         /\ ToSet(RemoveFirst(s, e)) = ToSet(s) \ {e}
<1> DEFINE r == RemoveFirst(s, e)
<1>1. PICK i \in 1..Len(s) : s[i] = e
  BY DEF ToSet
<1>2. \A j, k \in 1..Len(s) : s[j] = s[k] => j = k
  BY DEF IsInjective
<1>3. r = RemoveAt(s, i)
  BY <1>1, RemoveFirstAt
<1> HIDE DEF r
<1>4. /\ r \in Seq(S) /\ Len(r) = Len(s) - 1
      /\ \A j \in 1..Len(r) : r[j] = IF j < i THEN s[j] ELSE s[j + 1]
  BY <1>3, RemoveAtFacts
<1>5. IsInjective(r)
  BY <1>2, <1>4 DEF IsInjective
<1>6. ToSet(r) = {r[j] : j \in 1..Len(r)} /\ ToSet(s) = {s[j] : j \in 1..Len(s)}
  BY <1>4, ToSetOfSeq
<1>7. ASSUME NEW x \in ToSet(r) PROVE x \in ToSet(s) \ {e}
  BY <1>1, <1>2, <1>4, <1>6, <1>7
<1>8. ASSUME NEW x \in ToSet(s), x # e PROVE x \in ToSet(r)
  <2>1. PICK j \in 1..Len(s) : s[j] = x
    BY <1>6, <1>8
  <2>2. j # i
    BY <2>1, <1>1, <1>8
  <2>3. CASE j < i
    BY <2>1, <2>3, <1>4, <1>6
  <2>4. CASE j > i
    <3>1. j - 1 \in 1..Len(r) /\ r[j - 1] = s[j]
      BY <2>4, <1>4
    <3> QED
      BY <3>1, <2>1, <1>6
  <2> QED
    BY <2>2, <2>3, <2>4
<1> QED
  BY <1>4, <1>5, <1>7, <1>8 DEF r

\* TAILQ_INSERT_HEAD of an element that is not in the list.
LEMMA InsertHeadFacts ==
  ASSUME NEW S, NEW s \in Seq(S), IsInjective(s), NEW e \in S, e \notin ToSet(s)
  PROVE  /\ <<e>> \o s \in Seq(S) /\ IsInjective(<<e>> \o s)
         /\ ToSet(<<e>> \o s) = ToSet(s) \cup {e}
<1> DEFINE h == <<e>> \o s
<1>1. /\ h \in Seq(S) /\ Len(h) = Len(s) + 1
      /\ \A j \in 1..Len(h) : h[j] = IF j = 1 THEN e ELSE s[j - 1]
  OBVIOUS
<1> HIDE DEF h
<1>2. ToSet(s) = {s[j] : j \in 1..Len(s)} /\ ToSet(h) = {h[j] : j \in 1..Len(h)}
  BY <1>1, ToSetOfSeq
<1>3. /\ \A j \in 1..Len(s) : s[j] # e
      /\ \A j, k \in 1..Len(s) : s[j] = s[k] => j = k
  BY <1>2 DEF IsInjective
<1>4. IsInjective(h)
  BY <1>1, <1>3 DEF IsInjective
<1>5. ASSUME NEW j \in 1..Len(s) PROVE s[j] \in ToSet(h)
  <2>1. j + 1 \in 1..Len(h) /\ h[j + 1] = s[j]
    BY <1>1
  <2> QED
    BY <2>1, <1>2
<1>6. e \in ToSet(h)
  BY <1>1, <1>2
<1>7. ToSet(h) = ToSet(s) \cup {e}
  <2>1. ASSUME NEW j \in 1..Len(h) PROVE h[j] \in ToSet(s) \cup {e}
    <3>1. CASE j = 1
      BY <3>1, <1>1
    <3>2. CASE j # 1
      <4>1. j - 1 \in 1..Len(s) /\ h[j] = s[j - 1]
        BY <3>2, <1>1
      <4> QED
        BY <4>1, <1>2
    <3> QED
      BY <3>1, <3>2
  <2>2. ToSet(h) \subseteq ToSet(s) \cup {e}
    BY <2>1, <1>2
  <2>3. ToSet(s) \subseteq ToSet(h)
    BY <1>2, <1>5
  <2> QED
    BY <2>2, <2>3, <1>6
<1> QED
  BY <1>1, <1>4, <1>7 DEF h

\* TAILQ_INSERT_TAIL of an element that is not in the list.
LEMMA AppendFacts ==
  ASSUME NEW S, NEW s \in Seq(S), IsInjective(s), NEW e \in S, e \notin ToSet(s)
  PROVE  /\ Append(s, e) \in Seq(S) /\ IsInjective(Append(s, e))
         /\ ToSet(Append(s, e)) = ToSet(s) \cup {e}
<1> DEFINE a == Append(s, e)
<1>1. /\ a \in Seq(S) /\ Len(a) = Len(s) + 1
      /\ \A j \in 1..Len(a) : a[j] = IF j = Len(a) THEN e ELSE s[j]
  OBVIOUS
<1> HIDE DEF a
<1>2. ToSet(s) = {s[j] : j \in 1..Len(s)} /\ ToSet(a) = {a[j] : j \in 1..Len(a)}
  BY <1>1, ToSetOfSeq
<1>3. /\ \A j \in 1..Len(s) : s[j] # e
      /\ \A j, k \in 1..Len(s) : s[j] = s[k] => j = k
  BY <1>2 DEF IsInjective
<1>4. IsInjective(a)
  BY <1>1, <1>3 DEF IsInjective
<1>5. ASSUME NEW j \in 1..Len(s) PROVE s[j] \in ToSet(a)
  <2>1. j \in 1..Len(a) /\ a[j] = s[j]
    BY <1>1
  <2> QED
    BY <2>1, <1>2
<1>6. e \in ToSet(a)
  BY <1>1, <1>2
<1>7. ToSet(a) = ToSet(s) \cup {e}
  BY <1>1, <1>2, <1>5, <1>6
<1> QED
  BY <1>1, <1>4, <1>7 DEF a

-----------------------------------------------------------------------------
(* The operations *)

\* A key has a bucket, and an element is in the table if it is in a chain.
LEMMA TableFacts ==
  ASSUME NEW p \in Partitions
  PROVE  /\ \A k \in Nat : hash_get_bucket(k) \in Buckets
         /\ \A b \in Buckets : p.table[b] \in Seq(Elems) /\ ToSet(p.table[b]) \subseteq InTable(p)
         /\ \A e \in InTable(p) : \E b \in Buckets : e \in ToSet(p.table[b])
         /\ InTable(p) \subseteq Elems
<1>1. \A k \in Nat : hash_get_bucket(k) \in Buckets
  BY PartitionAssumption DEF hash_get_bucket, Buckets
<1>2. \A b \in Buckets : p.table[b] \in Seq(Elems)
  BY DEF Partitions
<1>3. DOMAIN p.table = Buckets
  BY DEF Partitions
<1>4. InTable(p) \subseteq Elems
  BY <1>2, <1>3, ToSetOfSeq DEF InTable
<1> QED
  BY <1>1, <1>2, <1>3, <1>4 DEF InTable

\* In a sound partition an element is in the chain of its key, and no other.
LEMMA ChainOfKey ==
  ASSUME NEW p, NEW el, Sound(p, el), NEW e \in InTable(p)
  PROVE  /\ hash_get_bucket(el[e].key) \in Buckets
         /\ e \in ToSet(p.table[hash_get_bucket(el[e].key)])
         /\ \A b \in Buckets : e \in ToSet(p.table[b]) => b = hash_get_bucket(el[e].key)
<1>1. p \in Partitions /\ WellLinked(p, el)
  BY DEF Sound
<1>2. \A b \in Buckets : e \in ToSet(p.table[b]) => hash_get_bucket(el[e].key) = b
  BY <1>1 DEF WellLinked, Buckets
<1> QED
  BY <1>1, <1>2, TableFacts

\* Soundness is about the keys of the elements in the table only.
LEMMA SoundFrame ==
  ASSUME NEW p, NEW el, NEW fl, Sound(p, el),
         \A e \in InTable(p) : fl[e].key = el[e].key,
         \A e \in Elems : fl[e].key \in Nat
  PROVE  Sound(p, fl)
<1>1. p \in Partitions /\ WellLinked(p, el)
  BY DEF Sound
<1>2. \A b \in 0..nhash - 1 : \A e \in ToSet(p.table[b]) : hash_get_bucket(fl[e].key) = b
  BY <1>1, TableFacts DEF WellLinked, Buckets
<1> QED
  BY <1>1, <1>2 DEF Sound, WellLinked

\* So is the number of bytes in use, which soundness says nothing about.
LEMMA SoundSize ==
  ASSUME NEW p, NEW el, Sound(p, el), NEW n \in Int
  PROVE  Sound([p EXCEPT !.size = n], el) /\ InTable([p EXCEPT !.size = n]) = InTable(p)
<1> DEFINE q == [p EXCEPT !.size = n]
<1>1. q \in Partitions /\ q.table = p.table /\ q.lru = p.lru
  BY DEF Sound, Partitions
<1>2. InTable(q) = InTable(p)
  BY <1>1 DEF InTable
<1> HIDE DEF q
<1>3. WellLinked(q, el)
  BY <1>1, <1>2 DEF Sound, WellLinked
<1> QED
  BY <1>1, <1>2, <1>3 DEF Sound, q

\* The loop of hash_lookup finds the element with the key, if there is one.
LEMMA FindFacts ==
  ASSUME NEW p, NEW el, Sound(p, el), NEW k \in Nat
  PROVE  \/ /\ Find(p, el, k) = NULL
            /\ \A e \in InTable(p) : el[e].key # k
         \/ /\ Find(p, el, k) \in InTable(p)
            /\ el[Find(p, el, k)].key = k
<1> DEFINE chain == p.table[hash_get_bucket(k)]
           I == {i \in 1..Len(chain) : el[chain[i]].key = k}
<1>1. p \in Partitions /\ WellLinked(p, el) /\ hash_get_bucket(k) \in Buckets
  BY TableFacts DEF Sound
<1>2. /\ chain \in Seq(Elems) /\ ToSet(chain) \subseteq InTable(p)
      /\ ToSet(chain) = {chain[j] : j \in 1..Len(chain)}
  BY <1>1, TableFacts, ToSetOfSeq
<1>3. Find(p, el, k) = IF I # {} /\ Min(I) # 0 THEN chain[Min(I)] ELSE NULL
  BY DEF Find, SelectInSeq
<1>4. CASE I = {}
  <2>1. ASSUME NEW e \in InTable(p), el[e].key = k PROVE FALSE
    <3>1. e \in ToSet(chain)
      BY <2>1, ChainOfKey
    <3> QED
      BY <3>1, <2>1, <1>2, <1>4
  <2> QED
    BY <2>1, <1>3, <1>4
<1>5. CASE I # {}
  <2>1. PICK i \in 1..Len(chain) : el[chain[i]].key = k
    BY <1>5
  <2>2. \A j \in I : j = i
    <3> SUFFICES ASSUME NEW j \in I PROVE j = i
      OBVIOUS
    <3>1. chain[j] \in InTable(p) /\ chain[i] \in InTable(p) /\ el[chain[j]].key = el[chain[i]].key
      BY <2>1, <1>2
    <3>2. chain[j] = chain[i]
      BY <3>1, <1>1 DEF WellLinked
    <3>3. IsInjective(chain)
      BY <1>1 DEF WellLinked, Buckets
    <3> QED
      BY <3>2, <3>3, <1>2 DEF IsInjective
  <2>3. I = {i} /\ Min({i}) = i /\ i # 0
    BY <2>1, <2>2 DEF Min
  <2>4. Find(p, el, k) = chain[i]
    BY <2>3, <1>3
  <2> QED
    BY <2>1, <2>4, <1>2
<1> QED
  BY <1>4, <1>5

\* hash_lookup moves an element of the table to the front of the LRU list.
LEMMA TouchFacts ==
  ASSUME NEW p, NEW el, Sound(p, el), NEW e \in InTable(p) \cup {NULL}
  PROVE  /\ Sound(Touch(p, e), el)
         /\ InTable(Touch(p, e)) = InTable(p)
         /\ Touch(p, e).size = p.size
<1>1. p \in Partitions /\ WellLinked(p, el)
  BY DEF Sound
<1>2. CASE evictalgo = "EVICT_LRU" /\ e # NULL
  <2> DEFINE r == RemoveFirst(p.lru, e)
             q == Touch(p, e)
  <2>1. p.lru \in Seq(Elems) /\ ToSet(p.lru) = InTable(p) /\ IsInjective(p.lru)
    BY <1>1, <1>2 DEF WellLinked, Partitions
  <2>2. e \in ToSet(p.lru) /\ e \in Elems
    BY <2>1, <1>1, <1>2, TableFacts
  <2>3. r \in Seq(Elems) /\ IsInjective(r) /\ ToSet(r) = InTable(p) \ {e}
    BY <2>1, <2>2, RemoveFirstFacts
  <2>4. /\ <<e>> \o r \in Seq(Elems) /\ IsInjective(<<e>> \o r)
        /\ ToSet(<<e>> \o r) = ToSet(r) \cup {e}
    BY <2>2, <2>3, InsertHeadFacts
  <2>5. q = [p EXCEPT !.lru = <<e>> \o r]
    BY <1>2 DEF Touch, lru
  <2> HIDE DEF r, q
  <2>6. q \in Partitions /\ q.table = p.table /\ q.size = p.size /\ q.lru = <<e>> \o r
    BY <2>4, <2>5, <1>1 DEF Partitions
  <2>7. InTable(q) = InTable(p)
    BY <2>6 DEF InTable
  <2>8. WellLinked(q, el)
    <3>1. ToSet(q.lru) = InTable(q) /\ IsInjective(q.lru)
      BY <2>1, <2>2, <2>3, <2>4, <2>6, <2>7
    <3> QED
      BY <3>1, <2>6, <2>7, <1>1 DEF WellLinked
  <2> QED
    BY <2>6, <2>7, <2>8 DEF Sound, q
<1>3. CASE ~(evictalgo = "EVICT_LRU" /\ e # NULL)
  BY <1>3 DEF Touch
<1> QED
  BY <1>2, <1>3

\* hash_remove unlinks the element and gives its bytes back.
LEMMA RemoveFacts ==
  ASSUME NEW p, NEW el, Sound(p, el), NEW e \in InTable(p), el[e].size \in Int
  PROVE  /\ Sound(hash_remove(p, el, e), el)
         /\ InTable(hash_remove(p, el, e)) = InTable(p) \ {e}
         /\ hash_remove(p, el, e).size = p.size - el[e].size
<1> DEFINE q == hash_remove(p, el, e)
           b == hash_get_bucket(el[e].key)
           chain == RemoveFirst(p.table[b], e)
           rest == IF evictalgo = "EVICT_LRU" THEN RemoveFirst(p.lru, e) ELSE p.lru
<1>1. p \in Partitions /\ WellLinked(p, el)
  BY DEF Sound
<1>2. b \in Buckets /\ e \in ToSet(p.table[b]) /\ IsInjective(p.table[b]) /\ p.table[b] \in Seq(Elems)
  BY <1>1, ChainOfKey, TableFacts DEF WellLinked, Buckets
<1>3. /\ chain \in Seq(Elems) /\ IsInjective(chain)
      /\ ToSet(chain) = ToSet(p.table[b]) \ {e}
  BY <1>2, RemoveFirstFacts
<1>4. /\ rest \in Seq(Elems)
      /\ evictalgo = "EVICT_LRU" => IsInjective(rest) /\ ToSet(rest) = InTable(p) \ {e}
  <2>1. p.lru \in Seq(Elems)
    BY <1>1 DEF Partitions
  <2>2. CASE evictalgo = "EVICT_LRU"
    <3>1. ToSet(p.lru) = InTable(p) /\ IsInjective(p.lru)
      BY <2>2, <1>1 DEF WellLinked
    <3> QED
      BY <3>1, <2>1, <2>2, RemoveFirstFacts
  <2> QED
    BY <2>1, <2>2
<1>5. q = [p EXCEPT !.table[b] = chain, !.lru = rest, !.size = p.size - el[e].size]
  BY DEF hash_remove
<1> HIDE DEF q, b, chain, rest
<1>6. /\ q \in Partitions /\ q.table = [p.table EXCEPT ![b] = chain]
      /\ q.lru = rest /\ q.size = p.size - el[e].size
  <2>0. p.size \in Int /\ p.table \in [Buckets -> Seq(Elems)]
    BY <1>1 DEF Partitions
  <2>1. p.size - el[e].size \in Int
    BY <2>0
  <2>3. [p.table EXCEPT ![b] = chain] \in [Buckets -> Seq(Elems)]
    BY <2>0, <1>3
  <2>2. DOMAIN p = {"table", "lru", "size"}
    BY <1>1 DEF Partitions
  <2> QED
    BY <2>1, <2>2, <2>3, <1>1, <1>4, <1>5 DEF Partitions
<1>7. \A c \in Buckets : q.table[c] = IF c = b THEN chain ELSE p.table[c]
  BY <1>1, <1>6 DEF Partitions
<1>8. InTable(q) = InTable(p) \ {e}
  <2>1. \A c \in Buckets : c # b => e \notin ToSet(p.table[c])
    BY ChainOfKey DEF b
  <2>2. \A c \in Buckets : ToSet(q.table[c]) = ToSet(p.table[c]) \ {e}
    BY <2>1, <1>3, <1>7
  <2>3. /\ InTable(p) = UNION {ToSet(p.table[c]) : c \in Buckets}
        /\ InTable(q) = UNION {ToSet(q.table[c]) : c \in Buckets}
    BY <1>1, <1>6 DEF InTable, Partitions
  <2> QED
    BY <2>2, <2>3
<1>9. WellLinked(q, el)
  <2>1. evictalgo = "EVICT_LRU" => ToSet(q.lru) = InTable(q) /\ IsInjective(q.lru)
    BY <1>4, <1>6, <1>8
  <2>2. ASSUME NEW c \in 0..nhash - 1
        PROVE  /\ IsInjective(q.table[c])
               /\ \A f \in ToSet(q.table[c]) : hash_get_bucket(el[f].key) = c
    BY <1>1, <1>3, <1>7 DEF WellLinked, Buckets
  <2>3. \A f, g \in InTable(q) : el[f].key = el[g].key => f = g
    BY <1>1, <1>8 DEF WellLinked
  <2> QED
    BY <2>1, <2>2, <2>3 DEF WellLinked
<1> QED
  BY <1>6, <1>8, <1>9 DEF Sound, q

\* The end of hash_insert links an element with a key that is not in the table.
LEMMA LinkFacts ==
  ASSUME NEW p, NEW el, Sound(p, el), NEW e \in Elems \ InTable(p), el[e].key \in Nat,
         \A f \in InTable(p) : el[f].key # el[e].key
  PROVE  /\ Sound(Link(p, e, el[e].key), el)
         /\ InTable(Link(p, e, el[e].key)) = InTable(p) \cup {e}
         /\ Link(p, e, el[e].key).size = p.size
<1> DEFINE q == Link(p, e, el[e].key)
           b == hash_get_bucket(el[e].key)
           chain == Append(p.table[b], e)
           rest == IF evictalgo = "EVICT_LRU" THEN <<e>> \o p.lru ELSE p.lru
<1>1. p \in Partitions /\ WellLinked(p, el)
  BY DEF Sound
<1>2. b \in Buckets /\ e \notin ToSet(p.table[b]) /\ IsInjective(p.table[b]) /\ p.table[b] \in Seq(Elems)
  BY <1>1, TableFacts DEF WellLinked, Buckets
<1>3. /\ chain \in Seq(Elems) /\ IsInjective(chain)
      /\ ToSet(chain) = ToSet(p.table[b]) \cup {e}
  <2>1. \A s \in Seq(Elems) : IsInjective(s) /\ e \notin ToSet(s) =>
          /\ Append(s, e) \in Seq(Elems) /\ IsInjective(Append(s, e))
          /\ ToSet(Append(s, e)) = ToSet(s) \cup {e}
    BY AppendFacts
  <2> QED
    BY <2>1, <1>2
<1>4. /\ rest \in Seq(Elems)
      /\ evictalgo = "EVICT_LRU" => IsInjective(rest) /\ ToSet(rest) = InTable(p) \cup {e}
  <2>1. p.lru \in Seq(Elems)
    BY <1>1 DEF Partitions
  <2>2. CASE evictalgo = "EVICT_LRU"
    <3>1. ToSet(p.lru) = InTable(p) /\ IsInjective(p.lru)
      BY <2>2, <1>1 DEF WellLinked
    <3> QED
      BY <3>1, <2>1, <2>2, InsertHeadFacts
  <2> QED
    BY <2>1, <2>2
<1>5. q = [p EXCEPT !.table[b] = chain, !.lru = rest]
  BY DEF Link
<1> HIDE DEF q, b, chain, rest
<1>6. /\ q \in Partitions /\ q.table = [p.table EXCEPT ![b] = chain]
      /\ q.lru = rest /\ q.size = p.size
  BY <1>1, <1>3, <1>4, <1>5 DEF Partitions
<1>7. \A c \in Buckets : q.table[c] = IF c = b THEN chain ELSE p.table[c]
  BY <1>1, <1>6 DEF Partitions
<1>8. InTable(q) = InTable(p) \cup {e}
  <2>1. /\ InTable(p) = UNION {ToSet(p.table[c]) : c \in Buckets}
        /\ InTable(q) = UNION {ToSet(q.table[c]) : c \in Buckets}
    BY <1>1, <1>6 DEF InTable, Partitions
  <2> QED
    BY <2>1, <1>2, <1>3, <1>7
<1>9. WellLinked(q, el)
  <2>1. evictalgo = "EVICT_LRU" => ToSet(q.lru) = InTable(q) /\ IsInjective(q.lru)
    BY <1>4, <1>6, <1>8
  <2>2. ASSUME NEW c \in 0..nhash - 1
        PROVE  /\ IsInjective(q.table[c])
               /\ \A f \in ToSet(q.table[c]) : hash_get_bucket(el[f].key) = c
    BY <1>1, <1>3, <1>7 DEF WellLinked, Buckets, b
  <2>3. \A f, g \in InTable(q) : el[f].key = el[g].key => f = g
    BY <1>1, <1>8 DEF WellLinked
  <2> QED
    BY <2>1, <2>2, <2>3 DEF WellLinked
<1> QED
  BY <1>6, <1>8, <1>9 DEF Sound, q

\* The eviction loop finds an element to evict as long as there is one.
LEMMA VictimFacts ==
  ASSUME NEW p, NEW el, Sound(p, el), InTable(p) # {}
  PROVE  Victims(p) \subseteq InTable(p) /\ Victims(p) # {}
<1>1. p \in Partitions /\ WellLinked(p, el)
  BY DEF Sound
<1>2. CASE evictalgo = "EVICT_LRU"
  <2>1. p.lru \in Seq(Elems) /\ ToSet(p.lru) = InTable(p)
    BY <1>1, <1>2 DEF WellLinked, Partitions
  <2>2. Len(p.lru) # 0 /\ Len(p.lru) \in Nat
    BY <2>1, ToSetOfSeq
  <2>3. p.lru[Len(p.lru)] \in ToSet(p.lru)
    BY <2>1, <2>2, ToSetOfSeq
  <2> QED
    BY <2>1, <2>3, <1>2 DEF Victims, Last
<1>3. CASE evictalgo # "EVICT_LRU"
  <2>1. DOMAIN p.table = Buckets
    BY <1>1 DEF Partitions
  <2>2. ASSUME NEW b \in Buckets, p.table[b] # <<>> PROVE Head(p.table[b]) \in InTable(p)
    <3>1. p.table[b] \in Seq(Elems) /\ ToSet(p.table[b]) \subseteq InTable(p)
      BY <1>1, TableFacts
    <3>2. 1 \in 1..Len(p.table[b]) /\ Head(p.table[b]) = p.table[b][1]
      BY <3>1, <2>2
    <3> QED
      BY <3>1, <3>2, ToSetOfSeq
  <2>3. PICK b \in Buckets : ToSet(p.table[b]) # {}
    BY <1>1, TableFacts
  <2>4. p.table[b] # <<>>
    <3>1. p.table[b] \in Seq(Elems)
      BY <1>1, TableFacts
    <3>2. Len(p.table[b]) # 0
      BY <3>1, <2>3, ToSetOfSeq
    <3> QED
      BY <3>1, <3>2
  <2> QED
    BY <2>1, <2>2, <2>3, <2>4, <1>3 DEF Victims
<1> QED
  BY <1>2, <1>3

\* A new partition is sound.
LEMMA EmptyFacts ==
  ASSUME NEW el, \A e \in Elems : el[e].key \in Nat
  PROVE  /\ Sound(EmptyPartition, el) /\ InTable(EmptyPartition) = {}
         /\ EmptyPartition.size = 0
<1>1. /\ EmptyPartition \in Partitions
      /\ EmptyPartition.lru = <<>> /\ EmptyPartition.size = 0
      /\ DOMAIN EmptyPartition.table = Buckets
      /\ \A b \in Buckets : EmptyPartition.table[b] = <<>>
  BY DEF EmptyPartition, Partitions, Buckets
<1>2. ToSet(<<>>) = {} /\ IsInjective(<<>>)
  BY DEF ToSet, IsInjective
<1>3. InTable(EmptyPartition) = {}
  BY <1>1, <1>2 DEF InTable
<1> QED
  BY <1>1, <1>2, <1>3 DEF Sound, WellLinked, Buckets
-----------------------------------------------------------------------------
(* Bytes of the elements in the table *)

\* elem_size() and every size made from it are whole cache lines.
Lines == {n \in Nat : n % CACHELINE = 0}

\* elem_size rounds up to whole cache lines.
LEMMA ElemSizeFacts ==
  ASSUME NEW size \in Nat
  PROVE  elem_size(size) \in Lines /\ elem_size(size) >= size + SIZEOF_ELEM
<1>1. (SIZEOF_ELEM + size + (CACHELINE - 1)) \div CACHELINE \in Nat
  BY DEF CACHELINE, SIZEOF_ELEM
<1>2. elem_size(size) \in Lines
  BY <1>1 DEF elem_size, Lines, CACHELINE
<1> QED
  BY <1>2 DEF elem_size, CACHELINE, SIZEOF_ELEM

\* An element that is added to a set brings the lines of its own.
LEMMA LinesAdd ==
  ASSUME NEW S, NEW ft, NEW e, e \notin S, ft[e].size \in Lines,
         IsFiniteSet(LinesIn(S, ft))
  PROVE  /\ IsFiniteSet(LinesIn(S \cup {e}, ft))
         /\ CACHELINE * Cardinality(LinesIn(S \cup {e}, ft))
              = CACHELINE * Cardinality(LinesIn(S, ft)) + ft[e].size
<1> DEFINE A == LinesIn(S, ft)
           E == {e} \X (1..ft[e].size \div CACHELINE)
<1>1. PICK n \in Nat : ft[e].size = n * CACHELINE
  <2>1. ft[e].size \in Nat /\ ft[e].size % 64 = 0
    BY DEF Lines, CACHELINE
  <2>2. ft[e].size \div 64 \in Nat /\ ft[e].size = (ft[e].size \div 64) * 64
    BY <2>1
  <2> QED
    BY <2>2 DEF CACHELINE
<1>2. ft[e].size \div CACHELINE = n
  BY <1>1 DEF CACHELINE
<1>3. IsFiniteSet(E) /\ Cardinality(E) = n
  <2>1. IsFiniteSet({e}) /\ Cardinality({e}) = 1
    BY FS_Singleton
  <2>2. IsFiniteSet(1..n) /\ Cardinality(1..n) = n
    BY FS_Interval
  <2>3. /\ IsFiniteSet({e} \X (1..n))
        /\ Cardinality({e} \X (1..n)) = Cardinality({e}) * Cardinality(1..n)
    BY <2>1, <2>2, FS_Product, Zenon
  <2>4. Cardinality({e}) * Cardinality(1..n) = n
    BY <2>1, <2>2
  <2>5. E = {e} \X (1..n)
    BY <1>2
  <2> HIDE DEF E
  <2> QED
    BY <2>3, <2>4, <2>5, Zenon
<1>4. LinesIn(S \cup {e}, ft) = A \cup E /\ A \cap E = {}
  BY DEF LinesIn
<1> HIDE DEF A, E
<1>5. IsFiniteSet(A) /\ Cardinality(A) \in Nat
  BY FS_CardinalityType DEF A
<1>6. /\ IsFiniteSet(A \cup E)
      /\ Cardinality(A \cup E) = Cardinality(A) + Cardinality(E) - Cardinality(A \cap E)
  BY <1>3, <1>5, FS_Union
<1>7. Cardinality(A \cap E) = 0
  BY <1>4, FS_EmptySet, Zenon
<1>8. Cardinality(A \cup E) = Cardinality(A) + n
  BY <1>3, <1>5, <1>6, <1>7
<1>9. CACHELINE * Cardinality(A \cup E) = CACHELINE * Cardinality(A) + ft[e].size
  BY <1>1, <1>5, <1>8 DEF CACHELINE
<1> QED
  BY <1>4, <1>6, <1>9, Zenon DEF A

\* An element that is removed takes the lines of its own.
LEMMA LinesRemove ==
  ASSUME NEW S, NEW ft, NEW e \in S, ft[e].size \in Lines,
         IsFiniteSet(LinesIn(S, ft))
  PROVE  /\ IsFiniteSet(LinesIn(S \ {e}, ft))
         /\ CACHELINE * Cardinality(LinesIn(S, ft))
              = CACHELINE * Cardinality(LinesIn(S \ {e}, ft)) + ft[e].size
<1>1. LinesIn(S \ {e}, ft) \subseteq LinesIn(S, ft)
  BY DEF LinesIn
<1>2. IsFiniteSet(LinesIn(S \ {e}, ft))
  BY <1>1, FS_Subset
<1>3. (S \ {e}) \cup {e} = S
  OBVIOUS
<1>4. CACHELINE * Cardinality(LinesIn((S \ {e}) \cup {e}, ft))
        = CACHELINE * Cardinality(LinesIn(S \ {e}, ft)) + ft[e].size
  BY <1>2, LinesAdd
<1> QED
  BY <1>2, <1>3, <1>4

\* The lines of a set depend on the sizes of its elements only.
LEMMA LinesFrame ==
  ASSUME NEW S, NEW ft, NEW gt, \A e \in S : gt[e].size = ft[e].size
  PROVE  LinesIn(S, gt) = LinesIn(S, ft)
BY DEF LinesIn

\* A set without elements has no lines.
LEMMA LinesEmpty ==
  ASSUME NEW ft
  PROVE  IsFiniteSet(LinesIn({}, ft)) /\ CACHELINE * Cardinality(LinesIn({}, ft)) = 0
<1>1. LinesIn({}, ft) = {}
  BY DEF LinesIn
<1> QED
  BY <1>1, FS_EmptySet DEF CACHELINE

\* The bytes in use are a natural number.
LEMMA TableSizeType ==
  ASSUME NEW p, NEW el, IsFiniteSet(LinesIn(InTable(p), el))
  PROVE  TableSize(p, el) \in Nat
<1>1. Cardinality(LinesIn(InTable(p), el)) \in Nat
  BY FS_CardinalityType
<1> QED
  BY <1>1 DEF TableSize, CACHELINE

\* hash_remove takes the bytes of the element, and only those, off the size.
LEMMA RemoveSize ==
  ASSUME NEW p, NEW el, Sound(p, el), IsFiniteSet(LinesIn(InTable(p), el)),
         NEW e \in InTable(p), el[e].size \in Lines, NEW r, r = hash_remove(p, el, e)
  PROVE  /\ Sound(r, el) /\ InTable(r) = InTable(p) \ {e} /\ r.size = p.size - el[e].size
         /\ IsFiniteSet(LinesIn(InTable(r), el))
         /\ TableSize(r, el) \in Nat /\ TableSize(p, el) = TableSize(r, el) + el[e].size
<1>1. Sound(r, el) /\ InTable(r) = InTable(p) \ {e} /\ r.size = p.size - el[e].size
  BY RemoveFacts DEF Lines
<1>2. /\ IsFiniteSet(LinesIn(InTable(p) \ {e}, el))
      /\ TableSize(p, el) = CACHELINE * Cardinality(LinesIn(InTable(p) \ {e}, el)) + el[e].size
  BY LinesRemove DEF TableSize
<1> QED
  BY <1>1, <1>2, TableSizeType DEF TableSize
=============================================================================
