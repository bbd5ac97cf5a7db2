------------------------------ MODULE LruCache ------------------------------
(***************************************************************************)
(* What a partition with LRU eviction promises: a cache of entries, most   *)
(* recently used first, whose sizes never sum to more than max_size.  An   *)
(* insert makes room by dropping the fewest least recently used entries,   *)
(* and one more for every time the memory for the entry was not there.     *)
(***************************************************************************)
EXTENDS Naturals, Sequences, FiniteSets, SequencesExt

CONSTANTS Keys, EntrySizes, max_size

VARIABLES
  cache,  \* entries [key, size], most recently used first
  fails   \* how often memory was short since the last insert

\* The sum of the sizes, and the entries but that of key k, if there is one.
Total(s) == Cardinality(UNION {{i} \X (1..s[i].size) : i \in DOMAIN s})
Without(s, k) ==
  IF \E i \in DOMAIN s : s[i].key = k
    THEN RemoveAt(s, CHOOSE i \in DOMAIN s : s[i].key = k)
    ELSE s

Init == cache = <<>> /\ fails = 0

\* A lookup that hits moves the entry to the front.
Lookup(k) ==
  \E i \in DOMAIN cache :
    /\ cache[i].key = k
    /\ cache' = <<cache[i]>> \o Without(cache, k)
    /\ UNCHANGED fails

Fail == fails' = fails + 1 /\ UNCHANGED cache

\* The longest prefix of the other entries that leaves room stays, less the
\* entries given up for want of memory.
Insert(k, sz) ==
  LET rest == Without(cache, k)
      Fits(n) == Total(SubSeq(rest, 1, n)) + sz <= max_size
  IN \E n \in fails..Len(rest) :
       /\ Fits(n) /\ \A m \in n + 1..Len(rest) : ~Fits(m)
       /\ cache' = <<[key |-> k, size |-> sz]>> \o SubSeq(rest, 1, n - fails)
       /\ fails' = 0

Destroy == cache' = <<>> /\ UNCHANGED fails

Next == \/ \E k \in Keys : Lookup(k) \/ \E sz \in EntrySizes : Insert(k, sz)
        \/ Fail \/ Destroy

Spec == Init /\ [][Next]_<<cache, fails>>
=============================================================================
