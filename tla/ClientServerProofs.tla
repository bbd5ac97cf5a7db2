------------------------- MODULE ClientServerProofs -------------------------
(***************************************************************************)
(* Proofs about ClientServer, for every number of clients and servers and  *)
(* every size of the buffers: answers are neither lost nor overwritten nor *)
(* mixed up.                                                               *)
(***************************************************************************)
EXTENDS ClientServer, FiniteSetTheorems, FunctionTheorems, TLAPS

-----------------------------------------------------------------------------
(* Rings *)

\* Two indices less than a round apart are different slots.
LEMMA RingSlots ==
  ASSUME NEW n \in Nat \ {0}, NEW i \in Nat, NEW j \in Nat
  PROVE  /\ i % n \in 0..n - 1
         /\ i < j /\ j - i < n => i % n # j % n
<1>1. i % n \in 0..n - 1
  OBVIOUS
<1>2. ASSUME i < j, j - i < n, i % n = j % n PROVE FALSE
  <2>1. (i \div n) * n + (i % n) = i
    OBVIOUS
  <2>2. (j \div n) * n + (j % n) = j
    OBVIOUS
  <2>3. i \div n \in Nat /\ j \div n \in Nat
    OBVIOUS
  <2>4. PICK a \in Nat, b \in Nat : i = a * n + (i % n) /\ j = b * n + (i % n)
    BY <2>1, <2>2, <2>3, <1>2
  <2>5. a * n < b * n /\ b * n < a * n + n
    BY <2>4, <1>1, <1>2
  <2>6. CASE b <= a
    <3>1. b * n <= a * n
      BY <2>6
    <3> QED
      BY <3>1, <2>5
  <2>7. CASE b >= a + 1
    <3>1. b * n >= (a + 1) * n
      BY <2>7
    <3>2. (a + 1) * n = a * n + n
      OBVIOUS
    <3> QED
      BY <3>1, <3>2, <2>5
  <2> QED
    BY <2>6, <2>7
<1> QED
  BY <1>1, <1>2

-----------------------------------------------------------------------------
(* Batches *)

Msgs == [op : {"lookup", "insert", "release"}, id : Nat]

\* The messages of a batch that are answered are finitely many places.
LEMMA AskedFacts ==
  ASSUME NEW b \in Seq(Msgs)
  PROVE  /\ Asked(b) \subseteq 1..Len(b) /\ IsFiniteSet(Asked(b)) /\ Cardinality(Asked(b)) \in Nat
         /\ \A i \in Asked(b) : b[i].id \in Nat
<1>1. DOMAIN b = 1..Len(b) /\ Len(b) \in Nat
  OBVIOUS
<1>2. Asked(b) \subseteq 1..Len(b)
  BY <1>1 DEF Asked
<1>3. IsFiniteSet(1..Len(b))
  BY <1>1, FS_Interval
<1>4. IsFiniteSet(Asked(b))
  BY <1>2, <1>3, FS_Subset
<1>5. ASSUME NEW i \in Asked(b) PROVE b[i].id \in Nat
  <2>1. b[i] \in Msgs
    BY <1>1, <1>2
  <2> QED
    BY <2>1 DEF Msgs
<1> QED
  BY <1>2, <1>4, <1>5, FS_CardinalityType

\* The answers of a batch have the places 1, 2, ... in the order of its messages.
LEMMA PlaceFacts ==
  ASSUME NEW b \in Seq(Msgs)
  PROVE  /\ \A i \in Asked(b) : Place(b, i) \in 1..Cardinality(Asked(b))
         /\ \A i, j \in Asked(b) : i < j => Place(b, i) < Place(b, j)
         /\ \A n \in 1..Cardinality(Asked(b)) : \E i \in Asked(b) : Place(b, i) = n
<1> DEFINE A == Asked(b)
           U(i) == {k \in A : k <= i}
<1>1. A \subseteq Nat /\ IsFiniteSet(A) /\ Cardinality(A) \in Nat
  BY AskedFacts
<1>2. ASSUME NEW i \in A
      PROVE  /\ IsFiniteSet(U(i)) /\ Cardinality(U(i)) \in 1..Cardinality(A)
  <2>1. U(i) \subseteq A /\ i \in U(i)
    BY <1>1
  <2>2. IsFiniteSet(U(i)) /\ Cardinality(U(i)) <= Cardinality(A)
    BY <2>1, <1>1, FS_Subset
  <2>3. Cardinality(U(i)) \in Nat /\ Cardinality(U(i)) # 0
    BY <2>1, <2>2, FS_CardinalityType, FS_EmptySet
  <2> QED
    BY <2>2, <2>3, <1>1
<1> HIDE DEF U
<1>3. ASSUME NEW i \in A, NEW j \in A, i < j PROVE Cardinality(U(i)) < Cardinality(U(j))
  <2>1. U(i) \subseteq U(j) /\ j \in U(j) /\ j \notin U(i)
    BY <1>1, <1>3 DEF U
  <2>2. IsFiniteSet(U(j)) /\ Cardinality(U(j)) \in Nat
    BY <1>2
  <2>3. IsFiniteSet(U(i)) /\ Cardinality(U(i)) \in Nat
    BY <1>2
  <2>4. Cardinality(U(i)) <= Cardinality(U(j)) /\ Cardinality(U(j)) # Cardinality(U(i))
    <3>1. U(i) # U(j)
      BY <2>1
    <3>2. /\ Cardinality(U(i)) <= Cardinality(U(j))
          /\ Cardinality(U(i)) = Cardinality(U(j)) => U(i) = U(j)
      BY <2>1, <2>2, FS_Subset
    <3> QED
      BY <3>1, <3>2
  <2> QED
    BY <2>2, <2>3, <2>4
<1>4. \A i \in A : Place(b, i) = Cardinality(U(i))
  BY DEF Place, U
<1>5. /\ \A i \in A : Place(b, i) \in 1..Cardinality(A)
      /\ \A i, j \in A : i < j => Place(b, i) < Place(b, j)
  BY <1>2, <1>3, <1>4
<1> DEFINE f == [i \in A |-> Place(b, i)]
           N == 1..Cardinality(A)
<1>6. f \in Injection(A, N)
  <2>1. f \in [A -> N]
    BY <1>5
  <2>2. \A i, j \in A : f[i] = f[j] => i = j
    BY <1>1, <1>5
  <2> HIDE DEF f, N
  <2> QED
    BY <2>1, <2>2, Fun_IsInj
<1>7. IsFiniteSet(N) /\ Cardinality(N) = Cardinality(A)
  BY <1>1, FS_Interval
<1>8. f \in Surjection(A, N)
  BY <1>6, <1>7, FS_Injection
<1>9. \A n \in N : \E i \in A : f[i] = n
  BY <1>8 DEF Surjection
<1> QED
  BY <1>5, <1>9

-----------------------------------------------------------------------------
(* The answers on their way from a server to a client *)

Slot(r, i) == r[i % OUTB_SIZE]
Id(bs, k, i) == bs[k][i].id

\* The slots lo, ..., hi - 1 of the output ring r and after them the batches
\* bs have the answers to the requests in A, each once and in order.
Flow(lo, hi, r, bs, A) ==
  /\ \A i \in lo..hi - 1 : Slot(r, i) \in A
  /\ \A k \in 1..Len(bs) : \A i \in Asked(bs[k]) : Id(bs, k, i) \in A
  /\ \A a \in A : \/ \E i \in lo..hi - 1 : Slot(r, i) = a
                  \/ \E k \in 1..Len(bs) : \E i \in Asked(bs[k]) : Id(bs, k, i) = a
  /\ \A i, j \in lo..hi - 1 : i < j => Slot(r, i) < Slot(r, j)
  /\ \A i \in lo..hi - 1 : \A k \in 1..Len(bs) : \A j \in Asked(bs[k]) : Slot(r, i) < Id(bs, k, j)
  /\ \A k \in 1..Len(bs) : \A i, j \in Asked(bs[k]) : i < j => Id(bs, k, i) < Id(bs, k, j)
  /\ \A k, l \in 1..Len(bs) : k < l =>
       \A i \in Asked(bs[k]), j \in Asked(bs[l]) : Id(bs, k, i) < Id(bs, l, j)

\* Batch d is batch l with message m after it, at place e.
Extended(l, d, m, e) ==
  /\ Asked(d) = Asked(l) \cup (IF m.op = "release" THEN {} ELSE {e})
  /\ \A i \in Asked(l) : d[i] = l[i] /\ i < e
  /\ d[e] = m

LEMMA AskedAppend ==
  ASSUME NEW b \in Seq(Msgs), NEW m \in Msgs
  PROVE  Append(b, m) \in Seq(Msgs) /\ Extended(b, Append(b, m), m, Len(b) + 1) /\ Len(b) + 1 \in Nat
<1> DEFINE d == Append(b, m)
<1>1. d \in Seq(Msgs) /\ DOMAIN d = 1..Len(b) + 1 /\ DOMAIN b = 1..Len(b) /\ Len(b) \in Nat
  OBVIOUS
<1>2. \A i \in 1..Len(b) : d[i] = b[i]
  OBVIOUS
<1>3. d[Len(b) + 1] = m
  OBVIOUS
<1> HIDE DEF d
<1>4. Asked(d) = Asked(b) \cup (IF m.op = "release" THEN {} ELSE {Len(b) + 1})
  BY <1>1, <1>2, <1>3 DEF Asked
<1>5. \A i \in Asked(b) : d[i] = b[i] /\ i < Len(b) + 1
  BY <1>1, <1>2 DEF Asked
<1>6. Extended(b, d, m, Len(b) + 1)
  BY <1>3, <1>4, <1>5 DEF Extended
<1> QED
  BY <1>1, <1>6 DEF d

\* A client asks for more: the batch n of t has message m at its end, which bs
\* does not have, and all else is the same.
LEMMA FlowGrow ==
  ASSUME NEW lo \in Nat, NEW hi \in Nat, NEW r, NEW bs, NEW A \in SUBSET Nat,
         NEW t, NEW m \in Msgs, NEW n \in Nat \ {0}, NEW e \in Nat,
         Len(bs) = n, Len(t) = n,
         \A k \in 1..n : Asked(bs[k]) \subseteq Nat,
         \A k \in 1..n : \A i \in Asked(bs[k]) :
           i \in Asked(t[k]) /\ Id(t, k, i) = Id(bs, k, i) /\ (k = n => i < e),
         \A k \in 1..n : \A i \in Asked(t[k]) :
           i \in Asked(bs[k]) \/ (k = n /\ i = e /\ m.op # "release" /\ Id(t, k, i) = m.id),
         m.op # "release" => e \in Asked(t[n]) /\ Id(t, n, e) = m.id,
         m.op # "release" => \A a \in A : a < m.id,
         Flow(lo, hi, r, bs, A)
  PROVE  Flow(lo, hi, r, t, IF m.op = "release" THEN A ELSE A \cup {m.id})
<1> DEFINE B == IF m.op = "release" THEN A ELSE A \cup {m.id}
<1>3. \A k \in 1..n : \A i \in Asked(bs[k]) :
         i \in Asked(t[k]) /\ Id(t, k, i) = Id(bs, k, i) /\ (k = n => i < e)
  OBVIOUS
<1>4. \A k \in 1..n : \A i \in Asked(t[k]) :
         i \in Asked(bs[k]) \/ (k = n /\ i = e /\ m.op # "release" /\ Id(t, k, i) = m.id)
  OBVIOUS
<1>5. m.op # "release" => e \in Asked(t[n]) /\ Id(t, n, e) = m.id
  OBVIOUS
<1>6. A \subseteq B /\ (m.op # "release" => m.id \in B) /\ \A a \in B : a \in A \/ (m.op # "release" /\ a = m.id)
  OBVIOUS
<1>7. \A i \in lo..hi - 1 : Slot(r, i) \in A /\ (m.op # "release" => Slot(r, i) < m.id)
  BY DEF Flow
<1>8. \A k \in 1..n : \A i \in Asked(bs[k]) :
         Id(bs, k, i) \in A /\ (m.op # "release" => Id(bs, k, i) < m.id)
  BY DEF Flow
<1> HIDE DEF B
<1>10. /\ \A i \in lo..hi - 1 : Slot(r, i) \in B
       /\ \A k \in 1..n : \A i \in Asked(t[k]) : Id(t, k, i) \in B
  BY <1>3, <1>4, <1>6, <1>7, <1>8
<1>11. \A a \in B : \/ \E i \in lo..hi - 1 : Slot(r, i) = a
                    \/ \E k \in 1..n : \E i \in Asked(t[k]) : Id(t, k, i) = a
  <2> SUFFICES ASSUME NEW a \in B
               PROVE  \/ \E i \in lo..hi - 1 : Slot(r, i) = a
                      \/ \E k \in 1..n : \E i \in Asked(t[k]) : Id(t, k, i) = a
    OBVIOUS
  <2>1. CASE a \in A
    <3>1. \/ \E i \in lo..hi - 1 : Slot(r, i) = a
          \/ \E k \in 1..n : \E i \in Asked(bs[k]) : Id(bs, k, i) = a
      BY <2>1 DEF Flow
    <3> QED
      BY <3>1, <1>3
  <2>2. CASE a \notin A
    BY <2>2, <1>5, <1>6
  <2> QED
    BY <2>1, <2>2
<1>12. \A i, j \in lo..hi - 1 : i < j => Slot(r, i) < Slot(r, j)
  BY DEF Flow
<1>13. \A i \in lo..hi - 1 : \A k \in 1..n : \A j \in Asked(t[k]) : Slot(r, i) < Id(t, k, j)
  <2>1. \A i \in lo..hi - 1 : \A k \in 1..n : \A j \in Asked(bs[k]) : Slot(r, i) < Id(bs, k, j)
    BY DEF Flow
  <2> QED
    BY <2>1, <1>3, <1>4, <1>7
<1>14. \A k \in 1..n : \A i, j \in Asked(t[k]) : i < j => Id(t, k, i) < Id(t, k, j)
  <2> SUFFICES ASSUME NEW k \in 1..n, NEW i \in Asked(t[k]), NEW j \in Asked(t[k]), i < j
               PROVE  Id(t, k, i) < Id(t, k, j)
    OBVIOUS
  <2>3. i \in Asked(bs[k])
    <3>1. CASE i = e /\ k = n
      <4>1. j \in Nat /\ j <= e
        BY <1>3, <1>4, <3>1
      <4> QED
        BY <4>1, <3>1
    <3> QED
      BY <3>1, <1>4
  <2>4. CASE j \in Asked(bs[k])
    <3>1. Id(bs, k, i) < Id(bs, k, j)
      BY <2>3, <2>4 DEF Flow
    <3> QED
      BY <3>1, <2>3, <2>4, <1>3
  <2>5. CASE j \notin Asked(bs[k])
    BY <2>3, <2>5, <1>3, <1>4, <1>8
  <2> QED
    BY <2>4, <2>5
<1>15. \A k, l \in 1..n : k < l =>
         \A i \in Asked(t[k]), j \in Asked(t[l]) : Id(t, k, i) < Id(t, l, j)
  <2> SUFFICES ASSUME NEW k \in 1..n, NEW l \in 1..n, k < l, NEW i \in Asked(t[k]), NEW j \in Asked(t[l])
               PROVE  Id(t, k, i) < Id(t, l, j)
    OBVIOUS
  <2>1. i \in Asked(bs[k])
    <3>1. k # n
      OBVIOUS
    <3> QED
      BY <3>1, <1>4
  <2>2. CASE j \in Asked(bs[l])
    <3>1. Id(bs, k, i) < Id(bs, l, j)
      BY <2>1, <2>2 DEF Flow
    <3> QED
      BY <3>1, <2>1, <2>2, <1>3
  <2>3. CASE j \notin Asked(bs[l])
    BY <2>1, <2>3, <1>3, <1>4, <1>8
  <2> QED
    BY <2>2, <2>3
<1>16. Flow(lo, hi, r, t, B)
  BY <1>10, <1>11, <1>12, <1>13, <1>14, <1>15 DEF Flow
<1> QED
  BY <1>16 DEF B

\* Batches move on by d places, and slots that are awaited stay as they are.
LEMMA FlowMoved ==
  ASSUME NEW lo \in Nat, NEW hi \in Nat, NEW r, NEW u, NEW bs, NEW t, NEW A, NEW d \in Nat,
         Len(bs) \in Nat, Len(t) \in Nat,
         \A i \in lo..hi - 1 : Slot(u, i) = Slot(r, i),
         \A k \in 1..Len(bs) : \A i \in Asked(bs[k]) :
           k - d \in 1..Len(t) /\ i \in Asked(t[k - d]) /\ Id(t, k - d, i) = Id(bs, k, i),
         \A k \in 1..Len(t) : \A i \in Asked(t[k]) :
           k + d \in 1..Len(bs) /\ i \in Asked(bs[k + d]) /\ Id(bs, k + d, i) = Id(t, k, i),
         Flow(lo, hi, r, bs, A)
  PROVE  Flow(lo, hi, u, t, A)
<1>1. /\ \A i \in lo..hi - 1 : Slot(u, i) \in A
      /\ \A k \in 1..Len(t) : \A i \in Asked(t[k]) : Id(t, k, i) \in A
  BY DEF Flow
<1>2. ASSUME NEW a \in A
      PROVE  \/ \E i \in lo..hi - 1 : Slot(u, i) = a
             \/ \E k \in 1..Len(t) : \E i \in Asked(t[k]) : Id(t, k, i) = a
  <2>1. \/ \E i \in lo..hi - 1 : Slot(r, i) = a
        \/ \E k \in 1..Len(bs) : \E i \in Asked(bs[k]) : Id(bs, k, i) = a
    BY DEF Flow
  <2>2. ASSUME NEW k \in 1..Len(bs), NEW i \in Asked(bs[k]), Id(bs, k, i) = a
        PROVE  \E l \in 1..Len(t) : \E j \in Asked(t[l]) : Id(t, l, j) = a
    BY <2>2
  <2> QED
    BY <2>1, <2>2
<1>3. /\ \A i, j \in lo..hi - 1 : i < j => Slot(u, i) < Slot(u, j)
      /\ \A i \in lo..hi - 1 : \A k \in 1..Len(t) : \A j \in Asked(t[k]) : Slot(u, i) < Id(t, k, j)
  BY DEF Flow
<1>4. \A k \in 1..Len(t) : \A i, j \in Asked(t[k]) : i < j => Id(t, k, i) < Id(t, k, j)
  BY DEF Flow
<1>5. ASSUME NEW k \in 1..Len(t), NEW l \in 1..Len(t), k < l, NEW i \in Asked(t[k]), NEW j \in Asked(t[l])
      PROVE  Id(t, k, i) < Id(t, l, j)
  <2>1. /\ k + d \in 1..Len(bs) /\ i \in Asked(bs[k + d]) /\ Id(bs, k + d, i) = Id(t, k, i)
        /\ l + d \in 1..Len(bs) /\ j \in Asked(bs[l + d]) /\ Id(bs, l + d, j) = Id(t, l, j)
        /\ k + d < l + d
    BY <1>5
  <2>2. Id(bs, k + d, i) < Id(bs, l + d, j)
    BY <2>1 DEF Flow
  <2> QED
    BY <2>1, <2>2
<1> QED
  BY <1>1, <1>2, <1>3, <1>4, <1>5 DEF Flow

\* The slots that are awaited are the same in ring u as in ring r.
Kept(lo, hi, r, u) == \A i \in lo..hi - 1 : Slot(u, i) = Slot(r, i)

\* The answers of batch b are in the ring r from slot hi on.
Stored(r, hi, b) == \A i \in Asked(b) : Slot(r, hi + Place(b, i) - 1) = b[i].id

\* Of two slots counted from index h, the later one has the later place...
LEMMA PlacedApart ==
  ASSUME NEW h \in Nat, NEW p \in Nat, NEW q \in Nat, h + p - 1 < h + q - 1
  PROVE  p < q
OBVIOUS

\* ... and with at most n places all of them fit into a ring of n slots...
LEMMA PlacesFit ==
  ASSUME NEW h \in Nat, NEW e \in Nat, NEW p \in 1..e, NEW q \in 1..e, NEW n \in Nat,
         e <= n, p < q
  PROVE  /\ h + p - 1 \in Nat /\ h + q - 1 \in Nat
         /\ h + p - 1 < h + q - 1 /\ (h + q - 1) - (h + p - 1) < n
OBVIOUS

\* ... beside the slots from lo on that are in use.
LEMMA PlacesFitBeside ==
  ASSUME NEW lo \in Nat, NEW h \in Nat, NEW e \in Nat, NEW p \in 1..e, NEW n \in Nat,
         NEW i \in lo..h - 1, (h - lo) + e <= n
  PROVE  /\ h + p - 1 \in Nat /\ i < h + p - 1 /\ (h + p - 1) - i < n
OBVIOUS

\* A server makes the answers of the oldest batch visible.
LEMMA FlowPublish ==
  ASSUME NEW lo \in Nat, NEW hi \in Nat, NEW r, NEW bs, NEW t, NEW A, NEW b \in Seq(Msgs),
         NEW n \in Nat \ {0}, NEW e \in Nat, e = Cardinality(Asked(b)),
         lo <= hi, Len(bs) = n, Len(t) = n, bs[1] = b, Asked(t[1]) = {},
         \A k \in 2..n : t[k] = bs[k],
         Stored(r, hi, b),
         Flow(lo, hi, r, bs, A)
  PROVE  Flow(lo, hi + e, r, t, A)
<1>1. /\ e \in Nat /\ Asked(b) \subseteq Nat
      /\ \A i \in Asked(b) : Place(b, i) \in 1..e
      /\ \A i, j \in Asked(b) : i < j => Place(b, i) < Place(b, j)
      /\ \A m \in 1..e : \E i \in Asked(b) : Place(b, i) = m
  BY AskedFacts, PlaceFacts
<1>2. 1 \in 1..n /\ n \in Nat /\ \A i \in Asked(b) : Id(bs, 1, i) = b[i].id
  BY DEF Id
<1>3. \A k \in 2..n : k \in 1..n /\ 1 < k /\ Asked(t[k]) = Asked(bs[k]) /\ \A i : Id(t, k, i) = Id(bs, k, i)
  BY DEF Id
<1>4. \A k \in 1..n : Asked(t[k]) # {} => k \in 2..n
  OBVIOUS
<1>5. ASSUME NEW i \in hi..hi + e - 1
      PROVE  \E j \in Asked(b) : Slot(r, i) = Id(bs, 1, j) /\ i = hi + Place(b, j) - 1
  <2>1. i - hi + 1 \in 1..e
    BY <1>1
  <2>2. PICK j \in Asked(b) : Place(b, j) = i - hi + 1
    BY <2>1, <1>1
  <2>3. i = hi + Place(b, j) - 1
    BY <2>1, <2>2
  <2> QED
    BY <2>3, <1>2 DEF Stored
<1>6. \A i \in lo..hi + e - 1 : i \in lo..hi - 1 \/ i \in hi..hi + e - 1
  BY <1>1
<1>7. \A i \in lo..hi + e - 1 : Slot(r, i) \in A
  <2>1. \A i \in lo..hi - 1 : Slot(r, i) \in A
    BY DEF Flow
  <2>2. \A j \in Asked(b) : Id(bs, 1, j) \in A
    BY <1>2 DEF Flow
  <2> QED
    BY <2>1, <2>2, <1>5, <1>6
<1>8. \A k \in 1..n : \A i \in Asked(t[k]) : Id(t, k, i) \in A
  BY <1>3, <1>4 DEF Flow
<1>9. ASSUME NEW a \in A
      PROVE  \/ \E i \in lo..hi + e - 1 : Slot(r, i) = a
             \/ \E k \in 1..n : \E i \in Asked(t[k]) : Id(t, k, i) = a
  <2>1. \/ \E i \in lo..hi - 1 : Slot(r, i) = a
        \/ \E k \in 1..n : \E i \in Asked(bs[k]) : Id(bs, k, i) = a
    BY DEF Flow
  <2>2. CASE \E i \in lo..hi - 1 : Slot(r, i) = a
    BY <2>2, <1>1
  <2>3. CASE \E k \in 1..n : \E i \in Asked(bs[k]) : Id(bs, k, i) = a
    <3>1. PICK k \in 1..n : \E i \in Asked(bs[k]) : Id(bs, k, i) = a
      BY <2>3
    <3>2. PICK i \in Asked(bs[k]) : Id(bs, k, i) = a
      BY <3>1
    <3>3. CASE k = 1
      <4>1. i \in Asked(b) /\ Slot(r, hi + Place(b, i) - 1) = a
        BY <3>2, <3>3, <1>2 DEF Stored
      <4>2. hi + Place(b, i) - 1 \in lo..hi + e - 1
        BY <4>1, <1>1
      <4> QED
        BY <4>1, <4>2
    <3>4. CASE k # 1
      <4>1. k \in 2..n
        BY <3>4, <1>2
      <4> QED
        BY <4>1, <3>2, <1>3
    <3> QED
      BY <3>3, <3>4
  <2> QED
    BY <2>1, <2>2, <2>3
<1>10. ASSUME NEW i \in lo..hi + e - 1, NEW j \in lo..hi + e - 1, i < j
       PROVE  Slot(r, i) < Slot(r, j)
  <2>1. CASE j \in lo..hi - 1
    <3>1. i \in lo..hi - 1
      BY <2>1, <1>10
    <3> QED
      BY <2>1, <3>1, <1>10 DEF Flow
  <2>2. CASE j \in hi..hi + e - 1
    <3>1. PICK v \in Asked(b) : Slot(r, j) = Id(bs, 1, v) /\ j = hi + Place(b, v) - 1
      BY <2>2, <1>5
    <3>2. CASE i \in lo..hi - 1
      BY <3>1, <3>2, <1>2 DEF Flow
    <3>3. CASE i \in hi..hi + e - 1
      <4>1. PICK w \in Asked(b) : Slot(r, i) = Id(bs, 1, w) /\ i = hi + Place(b, w) - 1
        BY <3>3, <1>5
      <4>2. Place(b, w) < Place(b, v)
        <5>1. Place(b, w) \in 1..e /\ Place(b, v) \in 1..e
          BY <1>1, Zenon
        <5>2. Place(b, w) \in Nat /\ Place(b, v) \in Nat
          BY <5>1
        <5>3. hi + Place(b, w) - 1 < hi + Place(b, v) - 1
          BY <4>1, <3>1, <1>10, Zenon
        <5> QED
          BY <5>2, <5>3, PlacedApart, Zenon
      <4>3. w < v
        <5>1. w \in Nat /\ v \in Nat /\ Place(b, w) \in 1..e /\ Place(b, v) \in 1..e
          BY <1>1, Zenon
        <5>2. v < w => Place(b, v) < Place(b, w)
          BY <1>1, Zenon
        <5> QED
          BY <5>1, <5>2, <4>2
      <4>4. Id(bs, 1, w) < Id(bs, 1, v)
        BY <4>3, <1>2 DEF Flow
      <4> QED
        BY <4>1, <4>4, <3>1
    <3> QED
      BY <3>2, <3>3, <1>6
  <2> QED
    BY <2>1, <2>2, <1>6
<1>11. ASSUME NEW i \in lo..hi + e - 1, NEW k \in 1..n, NEW j \in Asked(t[k])
       PROVE  Slot(r, i) < Id(t, k, j)
  <2>1. k \in 2..n /\ k \in 1..n /\ 1 < k /\ j \in Asked(bs[k]) /\ Id(t, k, j) = Id(bs, k, j)
    BY <1>3, <1>4, <1>11
  <2>2. CASE i \in lo..hi - 1
    BY <2>1, <2>2 DEF Flow
  <2>3. CASE i \in hi..hi + e - 1
    <3>1. PICK w \in Asked(b) : Slot(r, i) = Id(bs, 1, w)
      BY <2>3, <1>5
    <3>2. Id(bs, 1, w) < Id(bs, k, j)
      BY <2>1, <1>2 DEF Flow
    <3> QED
      BY <3>1, <3>2, <2>1
  <2> QED
    BY <2>2, <2>3, <1>6
<1>12. \A k \in 1..n : \A i, j \in Asked(t[k]) : i < j => Id(t, k, i) < Id(t, k, j)
  <2>1. \A k \in 1..n : \A i, j \in Asked(bs[k]) : i < j => Id(bs, k, i) < Id(bs, k, j)
    BY DEF Flow
  <2> QED
    BY <2>1, <1>3, <1>4
<1>13. \A k, l \in 1..n : k < l =>
          \A i \in Asked(t[k]), j \in Asked(t[l]) : Id(t, k, i) < Id(t, l, j)
  <2>1. \A k, l \in 1..n : k < l =>
          \A i \in Asked(bs[k]), j \in Asked(bs[l]) : Id(bs, k, i) < Id(bs, l, j)
    BY DEF Flow
  <2> QED
    BY <2>1, <1>3, <1>4
<1>14. PICK h : h = hi + e
  OBVIOUS
<1>15. /\ \A i \in lo..h - 1 : Slot(r, i) \in A
       /\ \A i, j \in lo..h - 1 : i < j => Slot(r, i) < Slot(r, j)
       /\ \A i \in lo..h - 1 : \A k \in 1..n : \A j \in Asked(t[k]) : Slot(r, i) < Id(t, k, j)
  <2>1. lo..h - 1 = lo..hi + e - 1
    BY <1>14
  <2>2. \A i, j \in lo..h - 1 : i < j => Slot(r, i) < Slot(r, j)
    BY <1>10, <2>1, Zenon
  <2>3. \A i \in lo..h - 1 : \A k \in 1..n : \A j \in Asked(t[k]) : Slot(r, i) < Id(t, k, j)
    BY <1>11, <2>1, Zenon
  <2> QED
    BY <1>7, <2>1, <2>2, <2>3, Zenon
<1>16. \A a \in A : \/ \E i \in lo..h - 1 : Slot(r, i) = a
                    \/ \E k \in 1..n : \E i \in Asked(t[k]) : Id(t, k, i) = a
  BY <1>9, <1>14
<1>17. Flow(lo, h, r, t, A)
  BY <1>8, <1>12, <1>13, <1>15, <1>16, Zenon DEF Flow
<1> QED
  BY <1>14, <1>17

\* A client reads the oldest slot: it has the answer to the first request.
LEMMA FlowRead ==
  ASSUME NEW lo \in Nat, NEW hi \in Nat, NEW r, NEW bs, NEW A \in SUBSET Nat, NEW f \in A,
         \A a \in A : f <= a, lo < hi, Len(bs) \in Nat,
         Flow(lo, hi, r, bs, A)
  PROVE  Slot(r, lo) = f /\ Flow(lo + 1, hi, r, bs, A \ {f})
<1>1. lo \in lo..hi - 1 /\ \A i \in lo + 1..hi - 1 : i \in lo..hi - 1 /\ lo < i
  OBVIOUS
<1>2. \A i \in lo..hi - 1 : i = lo \/ i \in lo + 1..hi - 1
  OBVIOUS
<1>3. /\ Slot(r, lo) \in A /\ Slot(r, lo) \in Nat /\ f \in Nat /\ f <= Slot(r, lo)
      /\ \A i \in lo + 1..hi - 1 : Slot(r, i) \in A /\ Slot(r, lo) < Slot(r, i) /\ Slot(r, i) \in Nat
      /\ \A k \in 1..Len(bs) : \A j \in Asked(bs[k]) :
           Id(bs, k, j) \in A /\ Slot(r, lo) < Id(bs, k, j) /\ Id(bs, k, j) \in Nat
  BY <1>1 DEF Flow
<1>4. Slot(r, lo) = f
  <2>1. \/ \E i \in lo..hi - 1 : Slot(r, i) = f
        \/ \E k \in 1..Len(bs) : \E i \in Asked(bs[k]) : Id(bs, k, i) = f
    BY DEF Flow
  <2> QED
    BY <2>1, <1>2, <1>3
<1>5. /\ \A i \in lo + 1..hi - 1 : Slot(r, i) \in A \ {f}
      /\ \A k \in 1..Len(bs) : \A i \in Asked(bs[k]) : Id(bs, k, i) \in A \ {f}
  BY <1>3, <1>4
<1>6. ASSUME NEW a \in A \ {f}
      PROVE  \/ \E i \in lo + 1..hi - 1 : Slot(r, i) = a
             \/ \E k \in 1..Len(bs) : \E i \in Asked(bs[k]) : Id(bs, k, i) = a
  <2>1. \/ \E i \in lo..hi - 1 : Slot(r, i) = a
        \/ \E k \in 1..Len(bs) : \E i \in Asked(bs[k]) : Id(bs, k, i) = a
    BY DEF Flow
  <2> QED
    BY <2>1, <1>2, <1>4, <1>6
<1>7. /\ \A i, j \in lo + 1..hi - 1 : i < j => Slot(r, i) < Slot(r, j)
      /\ \A i \in lo + 1..hi - 1 : \A k \in 1..Len(bs) : \A j \in Asked(bs[k]) : Slot(r, i) < Id(bs, k, j)
  BY <1>1 DEF Flow
<1>8. /\ \A k \in 1..Len(bs) : \A i, j \in Asked(bs[k]) : i < j => Id(bs, k, i) < Id(bs, k, j)
      /\ \A k, l \in 1..Len(bs) : k < l =>
           \A i \in Asked(bs[k]), j \in Asked(bs[l]) : Id(bs, k, i) < Id(bs, l, j)
  BY DEF Flow
<1> QED
  BY <1>4, <1>5, <1>6, <1>7, <1>8 DEF Flow

\* The image of a finite set under an operator that tells its members apart has
\* as many members.
LEMMA SameNumber ==
  ASSUME NEW S, NEW f, f \in [S -> {f[x] : x \in S}], IsFiniteSet(S),
         \A x, y \in S : f[x] = f[y] => x = y
  PROVE  IsFiniteSet({f[x] : x \in S}) /\ Cardinality({f[x] : x \in S}) = Cardinality(S)
<1> DEFINE T == {f[x] : x \in S}
<1>1. f \in Injection(S, T)
  BY Fun_IsInj
<1>2. f \in Surjection(S, T)
  BY DEF Surjection
<1> HIDE DEF T
<1>3. IsFiniteSet(T) /\ Cardinality(T) = Cardinality(S)
  <2>1. IsFiniteSet(T) /\ Cardinality(T) <= Cardinality(S)
    BY <1>2, FS_Surjection
  <2>2. Cardinality(S) <= Cardinality(T)
    BY <1>1, <2>1, FS_Injection
  <2>3. Cardinality(S) \in Nat /\ Cardinality(T) \in Nat
    BY <2>1, FS_CardinalityType
  <2> QED
    BY <2>1, <2>2, <2>3
<1> QED
  BY <1>3 DEF T

\* There are at least as many requests as slots and answers of the oldest batch.
LEMMA FlowCount ==
  ASSUME NEW lo \in Nat, NEW hi \in Nat, NEW r, NEW bs, NEW A \in SUBSET Nat, NEW b \in Seq(Msgs),
         IsFiniteSet(A), lo <= hi, Len(bs) \in Nat \ {0}, bs[1] = b,
         Flow(lo, hi, r, bs, A)
  PROVE  (hi - lo) + Cardinality(Asked(b)) <= Cardinality(A)
<1> DEFINE I == lo..hi - 1
           J == Asked(b)
           f == [i \in I |-> Slot(r, i)]
           g == [j \in J |-> Id(bs, 1, j)]
           P == {f[i] : i \in I}
           Q == {g[j] : j \in J}
<1>1. 1 \in 1..Len(bs)
  OBVIOUS
<1>2. IsFiniteSet(I) /\ Cardinality(I) = hi - lo
  <2>1. IsFiniteSet(I) /\ Cardinality(I) = IF lo > hi - 1 THEN 0 ELSE (hi - 1) - lo + 1
    <3>1. lo \in Int /\ hi - 1 \in Int
      OBVIOUS
    <3> QED
      BY <3>1, FS_Interval
  <2> QED
    BY <2>1
<1>3. IsFiniteSet(J) /\ Cardinality(J) \in Nat /\ J \subseteq Nat
  BY AskedFacts
<1>4. \A i \in I : Slot(r, i) \in A /\ Slot(r, i) \in Nat
  BY DEF Flow
<1>5. \A j \in J : Id(bs, 1, j) \in A /\ Id(bs, 1, j) \in Nat
  BY <1>1 DEF Flow
<1>6. IsFiniteSet(P) /\ Cardinality(P) = hi - lo
  <2>1. \A i, j \in I : f[i] = f[j] => i = j
    <3> SUFFICES ASSUME NEW i \in I, NEW j \in I, i # j PROVE f[i] # f[j]
      OBVIOUS
    <3>1. i < j \/ j < i
      OBVIOUS
    <3>2. Slot(r, i) < Slot(r, j) \/ Slot(r, j) < Slot(r, i)
      BY <3>1 DEF Flow
    <3> QED
      BY <3>2, <1>4
  <2>2. f \in [I -> P]
    OBVIOUS
  <2> HIDE DEF f, I
  <2>3. IsFiniteSet(I)
    BY <1>2
  <2>4. IsFiniteSet(P) /\ Cardinality(P) = Cardinality(I)
    BY <2>1, <2>2, <2>3, SameNumber, ZenonT(30)
  <2> QED
    BY <2>4, <1>2
<1>7. IsFiniteSet(Q) /\ Cardinality(Q) = Cardinality(J)
  <2>1. \A i, j \in J : g[i] = g[j] => i = j
    <3> SUFFICES ASSUME NEW i \in J, NEW j \in J, i # j PROVE g[i] # g[j]
      OBVIOUS
    <3>1. i < j \/ j < i
      BY <1>3
    <3>2. Id(bs, 1, i) < Id(bs, 1, j) \/ Id(bs, 1, j) < Id(bs, 1, i)
      BY <3>1, <1>1 DEF Flow
    <3> QED
      BY <3>2, <1>5
  <2>2. g \in [J -> Q]
    OBVIOUS
  <2> HIDE DEF g, J
  <2> QED
    BY <2>1, <2>2, <1>3, SameNumber
<1>8. P \cap Q = {}
  <2>1. \A i \in I, j \in J : Slot(r, i) < Id(bs, 1, j)
    BY <1>1 DEF Flow
  <2> QED
    BY <2>1, <1>4, <1>5
<1>9. P \cup Q \subseteq A
  BY <1>4, <1>5
<1> HIDE DEF P, Q, J
<1>10. Cardinality(P \cup Q) = Cardinality(P) + Cardinality(Q) - Cardinality(P \cap Q)
  BY <1>6, <1>7, FS_Union
<1>11. Cardinality(P \cap Q) = 0
  BY <1>8, FS_EmptySet
<1>12. Cardinality(P \cup Q) <= Cardinality(A)
  BY <1>9, FS_Subset
<1>13. Cardinality(A) \in Nat
  BY FS_CardinalityType
<1> QED
  BY <1>3, <1>6, <1>7, <1>10, <1>11, <1>12, <1>13 DEF J

\* The answers that outb_write stores are those of the batch, and what a ring
\* has room for does not touch the slots that are awaited.
LEMMA ServeRing ==
  ASSUME NEW lo \in Nat, NEW hi \in Nat, NEW r, NEW b \in Seq(Msgs), lo <= hi,
         (hi - lo) + Cardinality(Asked(b)) <= OUTB_SIZE
  PROVE  /\ Stored(WithAnswers(r, hi, b), hi, b)
         /\ Kept(lo, hi, r, WithAnswers(r, hi, b))
<1> DEFINE u == WithAnswers(r, hi, b)
           e == Cardinality(Asked(b))
           H(x) == {i \in Asked(b) : (hi + Place(b, i) - 1) % OUTB_SIZE = x}
<1>1. OUTB_SIZE \in Nat \ {0}
  BY SizesAssumption
<1>2. /\ e \in Nat /\ Asked(b) \subseteq Nat
      /\ \A i \in Asked(b) : Place(b, i) \in 1..e
      /\ \A i, j \in Asked(b) : i < j => Place(b, i) < Place(b, j)
  BY AskedFacts, PlaceFacts
<1>3. \A i \in Nat : i % OUTB_SIZE \in 0..OUTB_SIZE - 1
  BY <1>1, RingSlots
<1>4. \A x \in 0..OUTB_SIZE - 1 : u[x] = IF H(x) = {} THEN r[x] ELSE b[Max(H(x))].id
  BY DEF WithAnswers
<1>5. (hi - lo) + e <= OUTB_SIZE
  OBVIOUS
<1> HIDE DEF e, H, u
<1>6. ASSUME NEW i \in Asked(b) PROVE Slot(u, hi + Place(b, i) - 1) = b[i].id
  <2> DEFINE x == (hi + Place(b, i) - 1) % OUTB_SIZE
  <2>1. hi + Place(b, i) - 1 \in Nat
    BY <1>2
  <2>2. x \in 0..OUTB_SIZE - 1 /\ i \in H(x)
    BY <2>1, <1>3 DEF H
  <2>3. e \in Nat /\ OUTB_SIZE \in Nat /\ e <= OUTB_SIZE
    BY <1>1, <1>2, <1>5
  <2>4. ASSUME NEW j \in H(x) PROVE j = i
    <3>1. j \in Asked(b) /\ (hi + Place(b, j) - 1) % OUTB_SIZE = x
      BY DEF H
    <3> HIDE DEF x
    <3>2. Place(b, i) \in 1..e /\ Place(b, j) \in 1..e
      BY <3>1, <1>2
    <3>3. CASE j < i
      <4>1. Place(b, j) < Place(b, i)
        BY <3>1, <3>3, <1>2
      <4>2. /\ hi + Place(b, j) - 1 \in Nat /\ hi + Place(b, i) - 1 \in Nat
            /\ hi + Place(b, j) - 1 < hi + Place(b, i) - 1
            /\ (hi + Place(b, i) - 1) - (hi + Place(b, j) - 1) < OUTB_SIZE
        BY <4>1, <3>2, <2>3, PlacesFit
      <4>3. (hi + Place(b, j) - 1) % OUTB_SIZE # (hi + Place(b, i) - 1) % OUTB_SIZE
        BY <4>2, <1>1, RingSlots
      <4> QED
        BY <4>3, <3>1 DEF x
    <3>4. CASE i < j
      <4>1. Place(b, i) < Place(b, j)
        BY <3>1, <3>4, <1>2
      <4>2. /\ hi + Place(b, j) - 1 \in Nat /\ hi + Place(b, i) - 1 \in Nat
            /\ hi + Place(b, i) - 1 < hi + Place(b, j) - 1
            /\ (hi + Place(b, j) - 1) - (hi + Place(b, i) - 1) < OUTB_SIZE
        BY <4>1, <3>2, <2>3, PlacesFit
      <4>3. (hi + Place(b, i) - 1) % OUTB_SIZE # (hi + Place(b, j) - 1) % OUTB_SIZE
        BY <4>2, <1>1, RingSlots
      <4> QED
        BY <4>3, <3>1 DEF x
    <3> QED
      BY <3>1, <3>3, <3>4, <1>2
  <2>5. H(x) = {i}
    BY <2>2, <2>4
  <2>6. Max({i}) = i
    BY <1>2 DEF Max
  <2> HIDE DEF x
  <2>7. u[x] = b[i].id
    BY <2>2, <2>5, <2>6, <1>4
  <2> QED
    BY <2>7 DEF Slot, x
<1>7. ASSUME NEW i \in lo..hi - 1 PROVE Slot(u, i) = Slot(r, i)
  <2> DEFINE x == i % OUTB_SIZE
  <2>1. i \in Nat /\ x \in 0..OUTB_SIZE - 1
    <3>1. i \in Nat
      OBVIOUS
    <3> QED
      BY <3>1, <1>3
  <2>2. ASSUME NEW j \in H(x) PROVE FALSE
    <3>1. j \in Asked(b) /\ (hi + Place(b, j) - 1) % OUTB_SIZE = i % OUTB_SIZE
      BY DEF H
    <3>2. /\ hi + Place(b, j) - 1 \in Nat /\ i < hi + Place(b, j) - 1
          /\ (hi + Place(b, j) - 1) - i < OUTB_SIZE
      <4>1. Place(b, j) \in 1..e
        BY <3>1, <1>2
      <4> QED
        BY <4>1, <1>1, <1>2, <1>5, PlacesFitBeside
    <3> QED
      BY <3>1, <3>2, <2>1, <1>1, RingSlots
  <2>3. H(x) = {}
    BY <2>2
  <2> HIDE DEF x
  <2>4. u[x] = r[x]
    BY <2>1, <2>3, <1>4
  <2> QED
    BY <2>4 DEF Slot, x
<1> QED
  BY <1>6, <1>7 DEF Stored, Kept, u

\* Where there are answers: slots of the ring, and messages of the batches; R
\* gives the request each one answers.
Places(lo, hi, bs) == ({0} \X (lo..hi - 1)) \cup UNION {{k} \X Asked(bs[k]) : k \in 1..Len(bs)}
AnswersAt(R, lo, hi, r, bs) ==
  /\ \A i \in lo..hi - 1 : R[<<0, i>>] = Slot(r, i)
  /\ \A k \in 1..Len(bs) : \A i \in Asked(bs[k]) : R[<<k, i>>] = Id(bs, k, i)

\* R takes exactly the values of A on C, in order.
OrderedOnto(R, C, A) ==
  /\ {R[x] : x \in C} = A
  /\ \A x, y \in C : Sooner(x, y) => R[x] < R[y]


\* A flow says what AnswersConserved does of places and requests.
LEMMA FlowConserved ==
  ASSUME NEW lo \in Nat, NEW hi \in Nat, NEW r, NEW bs, NEW A, NEW C, NEW R,
         Len(bs) \in Nat, C = Places(lo, hi, bs), AnswersAt(R, lo, hi, r, bs),
         Flow(lo, hi, r, bs, A)
  PROVE  OrderedOnto(R, C, A)
<1>1. /\ C = ({0} \X (lo..hi - 1)) \cup UNION {{k} \X Asked(bs[k]) : k \in 1..Len(bs)}
      /\ \A i \in lo..hi - 1 : R[<<0, i>>] = Slot(r, i)
      /\ \A k \in 1..Len(bs) : \A i \in Asked(bs[k]) : R[<<k, i>>] = Id(bs, k, i)
  BY DEF Places, AnswersAt
<1>2. /\ \A i \in lo..hi - 1 : <<0, i>> \in C
      /\ \A k \in 1..Len(bs) : \A i \in Asked(bs[k]) : <<k, i>> \in C
  BY <1>1
<1>3. ASSUME NEW x \in C
      PROVE  \/ \E i \in lo..hi - 1 : x = <<0, i>>
             \/ \E k \in 1..Len(bs) : \E i \in Asked(bs[k]) : x = <<k, i>>
  BY <1>1
<1>4. ASSUME NEW x \in C PROVE R[x] \in A
  <2>1. CASE \E i \in lo..hi - 1 : x = <<0, i>>
    BY <1>1, <2>1 DEF Flow
  <2>2. CASE \E k \in 1..Len(bs) : \E i \in Asked(bs[k]) : x = <<k, i>>
    BY <1>1, <2>2 DEF Flow
  <2> QED
    BY <2>1, <2>2, <1>3
<1>5. ASSUME NEW a \in A PROVE \E x \in C : R[x] = a
  <2>1. \/ \E i \in lo..hi - 1 : Slot(r, i) = a
        \/ \E k \in 1..Len(bs) : \E i \in Asked(bs[k]) : Id(bs, k, i) = a
    BY DEF Flow
  <2> QED
    BY <2>1, <1>1, <1>2
<1>6. ASSUME NEW x \in C, NEW y \in C, Sooner(x, y) PROVE R[x] < R[y]
  <2>1. CASE \E i \in lo..hi - 1 : x = <<0, i>>
    <3>1. PICK i \in lo..hi - 1 : x = <<0, i>>
      BY <2>1
    <3>2. CASE \E j \in lo..hi - 1 : y = <<0, j>>
      <4>1. PICK j \in lo..hi - 1 : y = <<0, j>>
        BY <3>2
      <4>2. i < j
        BY <3>1, <4>1, <1>6 DEF Sooner
      <4> QED
        BY <1>1, <3>1, <4>1, <4>2 DEF Flow
    <3>3. CASE \E k \in 1..Len(bs) : \E j \in Asked(bs[k]) : y = <<k, j>>
      BY <1>1, <3>1, <3>3 DEF Flow
    <3> QED
      BY <3>2, <3>3, <1>3
  <2>2. CASE \E k \in 1..Len(bs) : \E i \in Asked(bs[k]) : x = <<k, i>>
    <3>1. PICK k \in 1..Len(bs) : \E i \in Asked(bs[k]) : x = <<k, i>>
      BY <2>2
    <3>2. PICK i \in Asked(bs[k]) : x = <<k, i>>
      BY <3>1
    <3>3. CASE \E j \in lo..hi - 1 : y = <<0, j>>
      BY <3>2, <3>3, <1>6 DEF Sooner
    <3>4. CASE \E l \in 1..Len(bs) : \E j \in Asked(bs[l]) : y = <<l, j>>
      <4>1. PICK l \in 1..Len(bs) : \E j \in Asked(bs[l]) : y = <<l, j>>
        BY <3>4
      <4>2. PICK j \in Asked(bs[l]) : y = <<l, j>>
        BY <4>1
      <4>3. k < l \/ (k = l /\ i < j)
        BY <3>2, <4>2, <1>6 DEF Sooner
      <4>4. Id(bs, k, i) < Id(bs, l, j)
        BY <4>3 DEF Flow
      <4> QED
        BY <1>1, <3>2, <4>2, <4>4
    <3> QED
      BY <3>3, <3>4, <1>3
  <2> QED
    BY <2>1, <2>2, <1>3
<1> QED
  BY <1>4, <1>5, <1>6 DEF OrderedOnto

-----------------------------------------------------------------------------
(* The same for the three kinds of batches there are *)

\* The batch b that is being served, the flushed lines q, the client's own l.
Lines(b, q, l) == <<b>> \o q \o <<l>>

\* What there is at each place of bs, the n lines of q between b and l.
Pieces(bs, b, q, n, l) ==
  /\ Len(q) = n /\ Len(bs) = n + 2 /\ bs[1] = b /\ bs[n + 2] = l
  /\ \A k \in 1..n : bs[k + 1] = q[k]
  /\ \A k \in 1..n + 2 : Asked(bs[k]) \subseteq Nat

LEMMA LinesPieces ==
  ASSUME NEW b \in Seq(Msgs), NEW q \in Seq(Seq(Msgs)), NEW l \in Seq(Msgs)
  PROVE  Pieces(Lines(b, q, l), b, q, Len(q), l) /\ Len(q) \in Nat
<1> DEFINE S == Seq(Msgs)
           u == <<b>> \o q
           bs == u \o <<l>>
<1>1. b \in S /\ l \in S /\ q \in Seq(S) /\ \A x \in S : Asked(x) \subseteq Nat
  BY AskedFacts
<1> HIDE DEF S
<1>2. /\ u \in Seq(S) /\ Len(u) = 1 + Len(q) /\ Len(q) \in Nat /\ u[1] = b
      /\ \A k \in 1..Len(q) : u[k + 1] = q[k]
  BY <1>1
<1> HIDE DEF u
<1>3. /\ bs \in Seq(S) /\ Len(bs) = Len(q) + 2 /\ bs[Len(q) + 2] = l
      /\ \A k \in 1..Len(q) + 1 : bs[k] = u[k]
  BY <1>1, <1>2
<1> HIDE DEF bs
<1>4. bs[1] = b
  BY <1>2, <1>3
<1>5. ASSUME NEW k \in 1..Len(q) PROVE bs[k + 1] = q[k]
  <2>1. k + 1 \in 1..Len(q) + 1
    BY <1>2
  <2> QED
    BY <2>1, <1>2, <1>3
<1>6. \A k \in 1..Len(q) + 2 : bs[k] \in S
  BY <1>3
<1>7. Lines(b, q, l) = bs
  BY DEF Lines, u, bs
<1> QED
  BY <1>1, <1>2, <1>3, <1>4, <1>5, <1>6, <1>7 DEF Pieces

\* A message, newer than all that are awaited, is put at the end.
LEMMA PiecesGrow ==
  ASSUME NEW lo \in Nat, NEW hi \in Nat, NEW r, NEW A \in SUBSET Nat, NEW m \in Msgs,
         NEW bs, NEW t, NEW b, NEW q, NEW n \in Nat, NEW l, NEW d, NEW e \in Nat,
         Pieces(bs, b, q, n, l), Pieces(t, b, q, n, d), Extended(l, d, m, e),
         m.op # "release" => \A a \in A : a < m.id,
         Flow(lo, hi, r, bs, A)
  PROVE  Flow(lo, hi, r, t, IF m.op = "release" THEN A ELSE A \cup {m.id})
<1>1. \A k \in 1..n + 2 : k = n + 2 \/ t[k] = bs[k]
  <2> SUFFICES ASSUME NEW k \in 1..n + 2, k # n + 2 PROVE t[k] = bs[k]
    OBVIOUS
  <2>1. CASE k = 1
    BY <2>1 DEF Pieces
  <2>2. CASE k # 1
    <3>1. k - 1 \in 1..n /\ (k - 1) + 1 = k
      BY <2>2
    <3> QED
      BY <3>1 DEF Pieces
  <2> QED
    BY <2>1, <2>2
<1>2. bs[n + 2] = l /\ t[n + 2] = d
  BY DEF Pieces
<1>3. ASSUME NEW k \in 1..n + 2, NEW i \in Asked(bs[k])
      PROVE  i \in Asked(t[k]) /\ Id(t, k, i) = Id(bs, k, i) /\ (k = n + 2 => i < e)
  BY <1>1, <1>2 DEF Id, Extended
<1>4. ASSUME NEW k \in 1..n + 2, NEW i \in Asked(t[k])
      PROVE  i \in Asked(bs[k]) \/ (k = n + 2 /\ i = e /\ m.op # "release" /\ Id(t, k, i) = m.id)
  BY <1>1, <1>2 DEF Id, Extended
<1>5. m.op # "release" => e \in Asked(t[n + 2]) /\ Id(t, n + 2, e) = m.id
  BY <1>2 DEF Id, Extended
<1>6. Len(bs) = n + 2 /\ Len(t) = n + 2 /\ n + 2 \in Nat \ {0} /\ \A k \in 1..n + 2 : Asked(bs[k]) \subseteq Nat
  BY DEF Pieces
<1> QED
  BY <1>3, <1>4, <1>5, <1>6, FlowGrow, ZenonT(30)

\* inpb_write without a flush.
LEMMA FlowWrite ==
  ASSUME NEW lo \in Nat, NEW hi \in Nat, NEW r, NEW A \in SUBSET Nat, NEW m \in Msgs,
         NEW b \in Seq(Msgs), NEW q \in Seq(Seq(Msgs)), NEW l \in Seq(Msgs),
         m.op # "release" => \A a \in A : a < m.id,
         Flow(lo, hi, r, Lines(b, q, l), A)
  PROVE  Flow(lo, hi, r, Lines(b, q, Append(l, m)), IF m.op = "release" THEN A ELSE A \cup {m.id})
<1>1. Pieces(Lines(b, q, l), b, q, Len(q), l) /\ Len(q) \in Nat
  BY LinesPieces
<1>2. Append(l, m) \in Seq(Msgs) /\ Extended(l, Append(l, m), m, Len(l) + 1) /\ Len(l) + 1 \in Nat
  BY AskedAppend
<1>3. Pieces(Lines(b, q, Append(l, m)), b, q, Len(q), Append(l, m))
  BY <1>2, LinesPieces
<1> QED
  BY <1>1, <1>2, <1>3, PiecesGrow

LEMMA EmptyBatch == <<>> \in Seq(Msgs) /\ Asked(<<>>) = {}
BY DEF Asked

\* The client's batch l becomes the last of the lines p.
LEMMA PiecesFlush ==
  ASSUME NEW lo \in Nat, NEW hi \in Nat, NEW r, NEW A,
         NEW bs, NEW t, NEW b, NEW q, NEW p, NEW n \in Nat, NEW l, NEW d,
         Pieces(bs, b, q, n, l), Pieces(t, b, p, n + 1, d), Asked(d) = {},
         p[n + 1] = l, \A k \in 1..n : p[k] = q[k],
         Flow(lo, hi, r, bs, A)
  PROVE  Flow(lo, hi, r, t, A)
<1>1. \A k \in 1..n + 2 : t[k] = bs[k]
  <2> SUFFICES ASSUME NEW k \in 1..n + 2 PROVE t[k] = bs[k]
    OBVIOUS
  <2>1. CASE k = 1
    BY <2>1 DEF Pieces
  <2>2. CASE k = n + 2
    <3>1. t[(n + 1) + 1] = p[n + 1]
      BY DEF Pieces
    <3> QED
      BY <2>2, <3>1 DEF Pieces
  <2>3. CASE k # 1 /\ k # n + 2
    <3>1. PICK m \in 1..n : k = m + 1
      <4>1. k - 1 \in 1..n /\ k = (k - 1) + 1
        BY <2>3
      <4> QED
        BY <4>1
    <3>2. m \in 1..n + 1 /\ p[m] = q[m]
      OBVIOUS
    <3>3. bs[m + 1] = q[m]
      BY DEF Pieces
    <3>4. t[m + 1] = p[m]
      BY <3>2 DEF Pieces
    <3> QED
      BY <3>1, <3>2, <3>3, <3>4
  <2> QED
    BY <2>1, <2>2, <2>3
<1>2. Len(bs) = n + 2 /\ Len(t) = n + 3 /\ t[n + 3] = d
  BY DEF Pieces
<1>3. \A k \in 1..Len(bs) : \A i \in Asked(bs[k]) :
         k - 0 \in 1..Len(t) /\ i \in Asked(t[k - 0]) /\ Id(t, k - 0, i) = Id(bs, k, i)
  BY <1>1, <1>2 DEF Id
<1>4. \A k \in 1..Len(t) : \A i \in Asked(t[k]) :
         k + 0 \in 1..Len(bs) /\ i \in Asked(bs[k + 0]) /\ Id(bs, k + 0, i) = Id(t, k, i)
  BY <1>1, <1>2 DEF Id
<1>5. Len(bs) \in Nat /\ Len(t) \in Nat /\ 0 \in Nat
  BY <1>2
<1> QED
  BY <1>3, <1>4, <1>5, FlowMoved

\* inpb_flush makes the client's batch a line.
LEMMA FlowFlush ==
  ASSUME NEW lo \in Nat, NEW hi \in Nat, NEW r, NEW A,
         NEW b \in Seq(Msgs), NEW q \in Seq(Seq(Msgs)), NEW l \in Seq(Msgs),
         Flow(lo, hi, r, Lines(b, q, l), A)
  PROVE  Flow(lo, hi, r, Lines(b, Append(q, l), <<>>), A)
<1>1. Pieces(Lines(b, q, l), b, q, Len(q), l) /\ Len(q) \in Nat
  BY LinesPieces
<1>2. /\ Append(q, l) \in Seq(Seq(Msgs)) /\ Len(Append(q, l)) = Len(q) + 1 /\ Append(q, l)[Len(q) + 1] = l
      /\ \A k \in 1..Len(q) : Append(q, l)[k] = q[k]
  OBVIOUS
<1>3. Pieces(Lines(b, Append(q, l), <<>>), b, Append(q, l), Len(q) + 1, <<>>) /\ Asked(<<>>) = {}
  BY <1>2, EmptyBatch, LinesPieces
<1> DEFINE n == Len(q)
           p == Append(q, l)
           t == Lines(b, p, <<>>)
           bs == Lines(b, q, l)
           d == <<>>
<1>4. /\ n \in Nat /\ Pieces(bs, b, q, n, l) /\ Pieces(t, b, p, n + 1, d) /\ Asked(d) = {}
      /\ p[n + 1] = l /\ (\A k \in 1..n : p[k] = q[k]) /\ Flow(lo, hi, r, bs, A)
  BY <1>1, <1>2, <1>3
<1> HIDE DEF n, p, t, bs, d
<1>5. Flow(lo, hi, r, t, A)
  BY <1>4, PiecesFlush
<1> QED
  BY <1>5 DEF t, p, d

\* inpb_read takes the oldest line.
LEMMA FlowPoll ==
  ASSUME NEW lo \in Nat, NEW hi \in Nat, NEW r, NEW A,
         NEW q \in Seq(Seq(Msgs)), NEW l \in Seq(Msgs), q # <<>>,
         Flow(lo, hi, r, Lines(<<>>, q, l), A)
  PROVE  Flow(lo, hi, r, Lines(Head(q), Tail(q), l), A)
<1>1. /\ Len(q) - 1 \in Nat /\ (Len(q) - 1) + 1 = Len(q)
      /\ Head(q) \in Seq(Msgs) /\ Head(q) = q[1]
      /\ Tail(q) \in Seq(Seq(Msgs)) /\ Len(Tail(q)) = Len(q) - 1
      /\ \A k \in 1..Len(q) - 1 : Tail(q)[k] = q[k + 1]
  OBVIOUS
<1>2. Pieces(Lines(<<>>, q, l), <<>>, q, Len(q), l) /\ Asked(<<>>) = {}
  BY EmptyBatch, LinesPieces
<1>3. Pieces(Lines(Head(q), Tail(q), l), Head(q), Tail(q), Len(q) - 1, l)
  BY <1>1, LinesPieces
<1> DEFINE n == Len(q) - 1
           h == Head(q)
           p == Tail(q)
           t == Lines(h, p, l)
           bs == Lines(<<>>, q, l)
           b == <<>>
<1>4. /\ n \in Nat /\ Pieces(bs, b, q, n + 1, l) /\ Pieces(t, h, p, n, l) /\ Asked(b) = {}
      /\ q[1] = h /\ (\A k \in 1..n : p[k] = q[k + 1]) /\ Flow(lo, hi, r, bs, A)
  BY <1>1, <1>2, <1>3
<1> HIDE DEF n, h, p, t, bs, b
<1>5. Flow(lo, hi, r, t, A)
  <2>1. Len(bs) = n + 3 /\ Len(t) = n + 2 /\ bs[1] = b
    BY <1>4 DEF Pieces
  <2>2. \A k \in 1..n + 2 : t[k] = bs[k + 1]
    <3> SUFFICES ASSUME NEW k \in 1..n + 2 PROVE t[k] = bs[k + 1]
      OBVIOUS
    <3>1. CASE k = 1
      <4>1. 1 \in 1..n + 1 /\ t[1] = h
        BY <1>4 DEF Pieces
      <4>2. bs[1 + 1] = q[1]
        BY <4>1, <1>4 DEF Pieces
      <4> QED
        BY <3>1, <4>1, <4>2, <1>4
    <3>2. CASE k = n + 2
      BY <3>2, <1>4 DEF Pieces
    <3>3. CASE k # 1 /\ k # n + 2
      <4>1. PICK m \in 1..n : k = m + 1
        <5>1. k - 1 \in 1..n /\ k = (k - 1) + 1
          BY <3>3, <1>4
        <5> QED
          BY <5>1
      <4>2. k \in 1..n + 1 /\ p[m] = q[m + 1]
        BY <4>1, <1>4
      <4>3. t[m + 1] = p[m]
        BY <1>4 DEF Pieces
      <4>4. bs[k + 1] = q[k]
        BY <4>2, <1>4 DEF Pieces
      <4> QED
        BY <4>1, <4>2, <4>3, <4>4
    <3> QED
      BY <3>1, <3>2, <3>3
  <2>3. ASSUME NEW k \in 1..Len(bs), NEW i \in Asked(bs[k])
        PROVE  k - 1 \in 1..Len(t) /\ i \in Asked(t[k - 1]) /\ Id(t, k - 1, i) = Id(bs, k, i)
    <3>1. k # 1
      BY <2>1, <2>3, <1>4
    <3>2. k - 1 \in 1..n + 2 /\ (k - 1) + 1 = k
      BY <3>1, <2>1, <1>4
    <3> QED
      BY <3>2, <2>1, <2>2 DEF Id
  <2>4. ASSUME NEW k \in 1..Len(t), NEW i \in Asked(t[k])
        PROVE  k + 1 \in 1..Len(bs) /\ i \in Asked(bs[k + 1]) /\ Id(bs, k + 1, i) = Id(t, k, i)
    BY <2>1, <2>2, <1>4 DEF Id
  <2>5. Len(bs) \in Nat /\ Len(t) \in Nat /\ 1 \in Nat
    BY <2>1, <1>4
  <2> QED
    BY <2>3, <2>4, <2>5, <1>4, FlowMoved, ZenonT(30)
<1> QED
  BY <1>5 DEF t, h, p

\* outb_prepare and outb_flush: the answers of the batch that was served are visible.
LEMMA FlowAnswer ==
  ASSUME NEW lo \in Nat, NEW hi \in Nat, NEW r, NEW A,
         NEW b \in Seq(Msgs), NEW q \in Seq(Seq(Msgs)), NEW l \in Seq(Msgs),
         lo <= hi, Stored(r, hi, b),
         Flow(lo, hi, r, Lines(b, q, l), A)
  PROVE  Flow(lo, hi + Cardinality(Asked(b)), r, Lines(<<>>, q, l), A)
<1> DEFINE bs == Lines(b, q, l)
           t == Lines(<<>>, q, l)
           n == Len(q)
<1>1. Pieces(bs, b, q, n, l) /\ n \in Nat
  BY LinesPieces
<1>2. Pieces(t, <<>>, q, n, l)
  BY EmptyBatch, LinesPieces
<1> HIDE DEF bs, t, n
<1>3. n + 2 \in Nat \ {0} /\ Len(bs) = n + 2 /\ Len(t) = n + 2 /\ bs[1] = b /\ Asked(t[1]) = {}
  BY <1>1, <1>2, EmptyBatch DEF Pieces
<1>4. ASSUME NEW k \in 2..n + 2 PROVE t[k] = bs[k]
  <2>1. CASE k = n + 2
    BY <2>1, <1>1, <1>2 DEF Pieces
  <2>2. CASE k # n + 2
    <3>1. k - 1 \in 1..n /\ (k - 1) + 1 = k
      BY <2>2, <1>1
    <3> QED
      BY <3>1, <1>1, <1>2 DEF Pieces
  <2> QED
    BY <2>1, <2>2
<1>5. Cardinality(Asked(b)) \in Nat
  BY AskedFacts
<1>6. Flow(lo, hi, r, bs, A)
  BY DEF bs
<1>7. Flow(lo, hi + Cardinality(Asked(b)), r, t, A)
  BY <1>3, <1>4, <1>5, <1>6, FlowPublish
<1> QED
  BY <1>7 DEF t

\* outb_write stores the answers of the batch and leaves those that are awaited.
LEMMA FlowServe ==
  ASSUME NEW lo \in Nat, NEW hi \in Nat, NEW r, NEW A \in SUBSET Nat,
         NEW b \in Seq(Msgs), NEW q \in Seq(Seq(Msgs)), NEW l \in Seq(Msgs),
         lo <= hi, IsFiniteSet(A), Cardinality(A) <= OUTB_SIZE,
         Flow(lo, hi, r, Lines(b, q, l), A)
  PROVE  /\ Stored(WithAnswers(r, hi, b), hi, b)
         /\ Flow(lo, hi, WithAnswers(r, hi, b), Lines(b, q, l), A)
<1> DEFINE bs == Lines(b, q, l)
           u == WithAnswers(r, hi, b)
<1>1. Pieces(bs, b, q, Len(q), l) /\ Len(q) \in Nat
  BY LinesPieces
<1> HIDE DEF bs
<1>2. Len(bs) \in Nat \ {0} /\ bs[1] = b
  BY <1>1 DEF Pieces
<1>3. Flow(lo, hi, r, bs, A)
  BY DEF bs
<1>4. (hi - lo) + Cardinality(Asked(b)) <= Cardinality(A)
  BY <1>2, <1>3, FlowCount
<1>5. Cardinality(Asked(b)) \in Nat /\ Cardinality(A) \in Nat /\ OUTB_SIZE \in Nat
  BY AskedFacts, FS_CardinalityType, SizesAssumption
<1>6. (hi - lo) + Cardinality(Asked(b)) <= OUTB_SIZE
  BY <1>4, <1>5
<1>7. Stored(u, hi, b) /\ Kept(lo, hi, r, u)
  BY <1>6, ServeRing
<1> HIDE DEF u
<1>8. Flow(lo, hi, u, bs, A)
  <2>1. 0 \in Nat /\ Len(bs) \in Nat
    BY <1>2
  <2>2. \A k \in 1..Len(bs) : \A i \in Asked(bs[k]) :
           k - 0 \in 1..Len(bs) /\ i \in Asked(bs[k - 0]) /\ Id(bs, k - 0, i) = Id(bs, k, i)
    BY <2>1
  <2>3. \A k \in 1..Len(bs) : \A i \in Asked(bs[k]) :
           k + 0 \in 1..Len(bs) /\ i \in Asked(bs[k + 0]) /\ Id(bs, k + 0, i) = Id(bs, k, i)
    BY <2>1
  <2>4. \A i \in lo..hi - 1 : Slot(u, i) = Slot(r, i)
    BY <1>7 DEF Kept
  <2> QED
    BY <1>3, <2>1, <2>2, <2>3, <2>4, FlowMoved
<1> QED
  BY <1>7, <1>8 DEF bs, u

-----------------------------------------------------------------------------
(* The inductive invariant *)

Queries == [op : {"lookup", "insert"}, s : Servers]
Calls == [op : {"none", "lookup", "insert", "release", "get"}, s : Servers, id : Nat]
BatchTypes == [q : Seq(Queries), i : Nat, pending_count : [Servers -> Int], values : Seq(Nat), flushed : Nat]

WaitStates == {"read", "flush", "block"}
DoallWaits == {"doall_read", "doall_flush", "doall_block"}
DoallStates == {"doall", "doall_send", "doall_end"} \cup DoallWaits
ClientStates == {"idle", "limit", "send", "take", "force"} \cup WaitStates \cup DoallStates

ClientTypes ==
  /\ cpc \in [Clients -> ClientStates] /\ call \in [Clients -> Calls]
  /\ req \in [Clients -> Seq(Queries)] /\ held \in [Clients -> SUBSET Nat]
  /\ batch \in [Clients -> BatchTypes]
  /\ rd_index \in [Clients -> Nat] /\ wr_index \in [Clients -> Nat] /\ pending_index \in [Clients -> Nat]
  /\ pending_count \in [Clients -> [Servers -> Int]]
  /\ pending_servers \in [Clients -> [0..MAX_PENDING_SIZE - 1 -> Servers]]
  /\ pending_values \in [Clients -> [0..MAX_PENDING_SIZE - 1 -> Nat]]

\* A function of clients and servers.
Paired(f) == f = [c \in Clients |-> [s \in Servers |-> f[c][s]]]

BufferTypes ==
  /\ local \in [Clients -> [Servers -> Seq(Msgs)]]
  /\ queue \in [Clients -> [Servers -> Seq(Seq(Msgs))]]
  /\ Paired(out) /\ out_wr \in [Clients -> [Servers -> Nat]]
  /\ local_rd_index \in [Clients -> [Servers -> Nat]]
  /\ local_wr_index \in [Clients -> [Servers -> Nat]]

ServerTypes ==
  /\ spc \in [Servers -> {"top", "count", "poll", "serve", "publish", "exit"}]
  /\ s_quitting \in [Servers -> BOOLEAN]
  /\ s_nclients \in [Servers -> Nat] /\ s_i \in [Servers -> Nat]
  /\ localbuf \in [Servers -> Seq(Msgs)]

MainTypes ==
  /\ nclients \in 0..NCLIENTS /\ quitting \in BOOLEAN
  /\ mpc \in {"run", "flush", "join", "stopped"} /\ flushed \in Nat

Types == ClientTypes /\ BufferTypes /\ ServerTypes /\ MainTypes

\* The requests and the values of a client of the pending API.
PendingOK(c) ==
  /\ cpc[c] \notin DoallStates /\ batch[c] = NoBatch
  /\ rd_index[c] <= wr_index[c] /\ wr_index[c] <= pending_index[c]
  /\ pending_index[c] = Len(req[c]) /\ pending_index[c] - rd_index[c] <= MAX_PENDING_SIZE
  /\ \A n \in rd_index[c]..wr_index[c] - 1 : pending_values[c][n % MAX_PENDING_SIZE] = n
  /\ \A n \in wr_index[c]..pending_index[c] - 1 :
       pending_servers[c][n % MAX_PENDING_SIZE] = req[c][n + 1].s
  /\ cpc[c] \in WaitStates =>
       wr_index[c] < pending_index[c] /\ call[c].op \in {"get", "lookup", "insert"}
  /\ cpc[c] = "limit" => call[c].op \in {"lookup", "insert"}
  /\ cpc[c] \in {"limit", "send"} \cup WaitStates /\ call[c].op \in {"lookup", "insert"} =>
       pending_index[c] - rd_index[c] < MAX_PENDING_SIZE
  /\ cpc[c] = "send" /\ call[c].op \in {"lookup", "insert"} =>
       pending_count[c][call[c].s] < MAX_PENDING_PER_SERVER

\* The same for a client of smp_hash_doall.
DoallOK(c) ==
  LET b == batch[c]
      n == Len(req[c]) - b.i
  IN /\ cpc[c] \in {"idle", "send", "force"} \cup DoallStates
     /\ cpc[c] = "send" => call[c].op = "release"
     /\ rd_index[c] = 0 /\ wr_index[c] = 0 /\ pending_index[c] = 0
     /\ \A s \in Servers : pending_count[c][s] = 0
     /\ cpc[c] \notin DoallStates => b = NoBatch
     /\ Len(b.values) <= b.i /\ b.i <= Len(b.q) /\ b.i <= Len(req[c])
     /\ \A k \in 1..b.i : req[c][n + k] = b.q[k]
     /\ \A k \in 1..Len(b.values) : b.values[k] = n + k - 1
     /\ cpc[c] = "doall_send" =>
          b.i < Len(b.q) /\ b.pending_count[b.q[b.i + 1].s] < MAX_PENDING_PER_SERVER
     /\ cpc[c] \in DoallWaits => Len(b.values) < b.i
     /\ cpc[c] = "doall_end" => b.i = Len(b.q)

ClientOK(c) ==
  /\ IF c \in DoAllClients THEN DoallOK(c) ELSE PendingOK(c)
  /\ \A n \in held[c] : n < Len(req[c])

\* A server has a batch only while it serves it, and has stored its answers
\* before it publishes them.
ServerOK(s) ==
  /\ s_nclients[s] <= nclients
  /\ spc[s] \notin {"serve", "publish"} => localbuf[s] = <<>>
  /\ spc[s] \in {"serve", "publish"} => s_i[s] < s_nclients[s]
  /\ spc[s] = "publish" => Stored(out[s_i[s]][s], out_wr[s_i[s]][s], localbuf[s])

Count(c, s) == IF c \in DoAllClients THEN batch[c].pending_count[s] ELSE pending_count[c][s]
Served(c, s) == IF s_i[s] = c THEN localbuf[s] ELSE <<>>

\* The answers from a server to a client.
PairOK(c, s) ==
  /\ local_rd_index[c][s] <= local_wr_index[c][s] /\ local_wr_index[c][s] <= out_wr[c][s]
  /\ Flow(local_rd_index[c][s], out_wr[c][s], out[c][s],
          Lines(Served(c, s), queue[c][s], local[c][s]), Awaited(c, s))
  /\ Cardinality(Awaited(c, s)) = Count(c, s) /\ Count(c, s) <= MAX_PENDING_PER_SERVER
  /\ BatchWords(local[c][s]) <= INPB_SIZE

PipeInv ==
  /\ Types
  /\ \A c \in Clients : ClientOK(c)
  /\ \A s \in Servers : ServerOK(s)
  /\ \A c \in Clients, s \in Servers : PairOK(c, s)

\* The clients are out of their calls when the servers are stopped, and those
\* that do not exist have sent nothing.
Quiet ==
  /\ mpc # "run" => \A c \in Clients : cpc[c] = "idle"
  /\ quitting <=> mpc \in {"join", "stopped"}
  /\ \A c \in Clients : c >= nclients => cpc[c] = "idle" /\ \A s \in Servers : queue[c][s] = <<>>

\* Where a server's last pass is, it has taken a line of each client before.
LastPass(s) ==
  /\ s_quitting[s] => quitting
  /\ spc[s] = "exit" => s_quitting[s]
  /\ spc[s] \in {"top", "count"} => s_i[s] = 0
  /\ s_quitting[s] /\ spc[s] \in {"poll", "serve", "publish"} =>
       /\ s_nclients[s] = nclients
       /\ \A c \in Clients :
            (c < s_i[s] \/ (c = s_i[s] /\ spc[s] # "poll")) /\ lines_at_quit[c][s] > 0
              => Len(queue[c][s]) < lines_at_quit[c][s]

StopInv ==
  /\ Quiet /\ \A s \in Servers : LastPass(s)
  /\ lines_at_quit \in [Clients -> [Servers -> Nat]]
  /\ quitting => \A c \in Clients, s \in Servers : Len(queue[c][s]) <= lines_at_quit[c][s]
  /\ LastPassServes

-----------------------------------------------------------------------------
(* Lemmas about the parts of the invariant *)

\* What the sizes of the buffers give.
LEMMA Sizes ==
  /\ OUTB_SIZE \in Nat \ {0} /\ INPB_SIZE \in Nat /\ INPB_SIZE >= 2 /\ NSERVERS \in Nat /\ NSERVERS >= 1
  /\ MAX_PENDING_PER_SERVER \in Nat /\ MAX_PENDING_PER_SERVER >= 1
  /\ MAX_PENDING_PER_SERVER <= OUTB_SIZE
  /\ MAX_PENDING_SIZE \in Nat \ {0}
  /\ 0 \in Servers /\ Servers \subseteq Nat /\ Clients \subseteq Nat
<1>1. OUTB_SIZE \in Nat \ {0} /\ MAX_SERVERS \in Nat \ {0}
  BY SizesAssumption
<1>2. OUTB_SIZE * MAX_SERVERS \in Nat \ {0}
  BY <1>1
<1> QED
  BY <1>1, <1>2, SizesAssumption DEF MAX_PENDING_PER_SERVER, MAX_PENDING_SIZE, Servers, Clients

LEMMA NothingTyped ==
  /\ NoBatch \in BatchTypes /\ NoCall \in Calls
  /\ NoBatch.i = 0 /\ NoBatch.values = <<>> /\ NoBatch.q = <<>> /\ NoBatch.flushed = 0
  /\ \A s \in Servers : NoBatch.pending_count[s] = 0
<1>1. NoCall \in Calls
  BY Sizes DEF NoCall, Calls
<1>2. NoBatch \in BatchTypes
  BY DEF NoBatch, BatchTypes
<1>3. /\ NoBatch.i = 0 /\ NoBatch.values = <<>> /\ NoBatch.q = <<>> /\ NoBatch.flushed = 0
      /\ \A s \in Servers : NoBatch.pending_count[s] = 0
  BY DEF NoBatch
<1> QED
  BY <1>1, <1>2, <1>3

LEMMA BatchFields ==
  ASSUME NEW b \in BatchTypes
  PROVE  /\ b.q \in Seq(Queries) /\ b.i \in Nat /\ b.pending_count \in [Servers -> Int]
         /\ b.values \in Seq(Nat) /\ b.flushed \in Nat
         /\ Len(b.q) \in Nat /\ Len(b.values) \in Nat
         /\ \A k \in 1..Len(b.q) : b.q[k] \in Queries
<1>1. b.q \in Seq(Queries) /\ b.i \in Nat /\ b.pending_count \in [Servers -> Int]
  BY DEF BatchTypes
<1>2. b.values \in Seq(Nat) /\ b.flushed \in Nat
  BY DEF BatchTypes
<1> QED
  BY <1>1, <1>2

LEMMA QueryFields ==
  ASSUME NEW m \in Queries
  PROVE  m.op \in {"lookup", "insert"} /\ m.s \in Servers
BY DEF Queries

LEMMA CallFields ==
  ASSUME NEW m \in Calls
  PROVE  m.op \in {"none", "lookup", "insert", "release", "get"} /\ m.s \in Servers /\ m.id \in Nat
BY DEF Calls

\* The requests whose answers are awaited are the last ones of the client.
LEMMA AwaitedFacts ==
  ASSUME ClientTypes, NEW c \in Clients, ClientOK(c), NEW s \in Servers
  PROVE  /\ Len(req[c]) \in Nat /\ NextRequest(c) = Len(req[c])
         /\ FirstAwaited(c) \in Nat /\ FirstAwaited(c) <= Len(req[c])
         /\ Awaited(c, s) \subseteq FirstAwaited(c)..Len(req[c]) - 1
         /\ Awaited(c, s) \in SUBSET Nat
         /\ IsFiniteSet(Awaited(c, s)) /\ Cardinality(Awaited(c, s)) \in Nat
<1>1. /\ req[c] \in Seq(Queries) /\ batch[c] \in BatchTypes
      /\ wr_index[c] \in Nat /\ pending_index[c] \in Nat
  BY DEF ClientTypes
<1>2. Len(req[c]) \in Nat /\ batch[c].i \in Nat /\ Len(batch[c].values) \in Nat
  BY <1>1, BatchFields
<1>3. NextRequest(c) = Len(req[c]) /\ FirstAwaited(c) \in Nat /\ FirstAwaited(c) <= Len(req[c])
  <2>1. CASE c \in DoAllClients
    <3>1. batch[c].i <= Len(req[c]) /\ Len(batch[c].values) <= batch[c].i
      BY <1>2, <2>1 DEF ClientOK, DoallOK
    <3> QED
      BY <1>2, <2>1, <3>1 DEF NextRequest, FirstAwaited
  <2>2. CASE c \notin DoAllClients
    BY <1>1, <1>2, <2>2 DEF ClientOK, PendingOK, NextRequest, FirstAwaited
  <2> QED
    BY <2>1, <2>2
<1>4. Awaited(c, s) \subseteq FirstAwaited(c)..Len(req[c]) - 1
  BY <1>3 DEF Awaited
<1>5. IsFiniteSet(FirstAwaited(c)..Len(req[c]) - 1)
  <2>1. FirstAwaited(c) \in Int /\ Len(req[c]) - 1 \in Int
    BY <1>2, <1>3
  <2> QED
    BY <2>1, FS_Interval
<1>6. IsFiniteSet(Awaited(c, s))
  BY <1>4, <1>5, FS_Subset
<1>7. Awaited(c, s) \in SUBSET Nat
  BY <1>2, <1>3, <1>4
<1> QED
  BY <1>2, <1>3, <1>4, <1>6, <1>7, FS_CardinalityType

\* The words of a batch, with one more message.
LEMMA WordsFacts ==
  ASSUME NEW b \in Seq(Msgs), NEW m \in Msgs
  PROVE  /\ BatchWords(b) \in Nat /\ Words(m) \in {1, 2}
         /\ BatchWords(Append(b, m)) = BatchWords(b) + Words(m)
         /\ BatchWords(<<>>) = 0 /\ BatchWords(<<m>>) = Words(m)
<1> DEFINE I(d) == {i \in DOMAIN d : d[i].op = "insert"}
           d == Append(b, m)
<1>1. DOMAIN b = 1..Len(b) /\ Len(b) \in Nat /\ DOMAIN d = 1..Len(b) + 1 /\ Len(d) = Len(b) + 1
  OBVIOUS
<1>2. d[Len(b) + 1] = m /\ \A i \in 1..Len(b) : d[i] = b[i]
  OBVIOUS
<1> HIDE DEF d
<1>3. Words(m) \in {1, 2} /\ Words(m) = 1 + (IF m.op = "insert" THEN 1 ELSE 0)
  BY DEF Words
<1>4. I(d) = IF m.op = "insert" THEN I(b) \cup {Len(b) + 1} ELSE I(b)
  BY <1>1, <1>2
<1>5. I(b) \subseteq 1..Len(b) /\ Len(b) + 1 \notin I(b)
  BY <1>1
<1>6. IsFiniteSet(1..Len(b))
  BY <1>1, FS_Interval
<1> HIDE DEF I
<1>7. IsFiniteSet(I(b)) /\ Cardinality(I(b)) \in Nat
  BY <1>5, <1>6, FS_Subset, FS_CardinalityType
<1>8. Cardinality(I(b) \cup {Len(b) + 1}) = Cardinality(I(b)) + 1
  BY <1>5, <1>7, FS_AddElement
<1>9. Cardinality(I(d)) = Cardinality(I(b)) + (IF m.op = "insert" THEN 1 ELSE 0)
  BY <1>4, <1>7, <1>8
<1>10. BatchWords(b) = Len(b) + Cardinality(I(b)) /\ BatchWords(d) = Len(d) + Cardinality(I(d))
  BY DEF BatchWords, I
<1>11. BatchWords(d) = BatchWords(b) + Words(m) /\ BatchWords(b) \in Nat
  BY <1>1, <1>3, <1>7, <1>9, <1>10
<1>12. BatchWords(<<>>) = 0
  BY FS_EmptySet DEF BatchWords
<1>13. BatchWords(<<m>>) = Words(m)
  <2>1. Len(<<m>>) = 1 /\ DOMAIN <<m>> = {1} /\ <<m>>[1] = m
    OBVIOUS
  <2>2. {i \in DOMAIN <<m>> : <<m>>[i].op = "insert"} = IF m.op = "insert" THEN {1} ELSE {}
    BY <2>1
  <2>3. Cardinality({1}) = 1 /\ Cardinality({}) = 0
    BY FS_Singleton, FS_EmptySet
  <2> QED
    BY <1>3, <2>1, <2>2, <2>3 DEF BatchWords
<1> QED
  BY <1>3, <1>11, <1>12, <1>13 DEF d

-----------------------------------------------------------------------------
(* Frames *)

\* Nothing of client d has changed.
SameClient(d) ==
  /\ cpc'[d] = cpc[d] /\ call'[d] = call[d] /\ req'[d] = req[d] /\ held'[d] = held[d]
  /\ batch'[d] = batch[d]
  /\ rd_index'[d] = rd_index[d] /\ wr_index'[d] = wr_index[d] /\ pending_index'[d] = pending_index[d]
  /\ pending_count'[d] = pending_count[d] /\ pending_servers'[d] = pending_servers[d]
  /\ pending_values'[d] = pending_values[d]

\* Nothing of the buffers between client d and server s has changed.
SameInput(d, s) == local'[d][s] = local[d][s] /\ queue'[d][s] = queue[d][s]
SameReader(d, s) ==
  local_rd_index'[d][s] = local_rd_index[d][s] /\ local_wr_index'[d][s] = local_wr_index[d][s]
SameWriter(d, s) ==
  out'[d][s] = out[d][s] /\ out_wr'[d][s] = out_wr[d][s] /\ Served(d, s)' = Served(d, s)

\* What a client awaits has not changed.
SameRequests(d, s) == Awaited(d, s)' = Awaited(d, s) /\ Count(d, s)' = Count(d, s)

LEMMA KeepClient ==
  ASSUME NEW d \in Clients, SameClient(d), ClientOK(d)
  PROVE  ClientOK(d)'
<1>1. CASE d \in DoAllClients
  <2>1. DoallOK(d) /\ \A n \in held[d] : n < Len(req[d])
    BY <1>1 DEF ClientOK
  <2>2. DoallOK(d)'
    BY <2>1 DEF DoallOK, SameClient
  <2> QED
    BY <1>1, <2>1, <2>2 DEF ClientOK, SameClient
<1>2. CASE d \notin DoAllClients
  <2>1. PendingOK(d) /\ \A n \in held[d] : n < Len(req[d])
    BY <1>2 DEF ClientOK
  <2>2. PendingOK(d)'
    BY <2>1 DEF PendingOK, SameClient
  <2> QED
    BY <1>2, <2>1, <2>2 DEF ClientOK, SameClient
<1> QED
  BY <1>1, <1>2

LEMMA KeepRequests ==
  ASSUME NEW d \in Clients, NEW s \in Servers, SameClient(d)
  PROVE  SameRequests(d, s)
<1>1. FirstAwaited(d)' = FirstAwaited(d) /\ NextRequest(d)' = NextRequest(d)
  BY DEF SameClient, FirstAwaited, NextRequest
<1>2. Awaited(d, s)' = Awaited(d, s)
  BY <1>1 DEF SameClient, Awaited
<1>3. Count(d, s)' = Count(d, s)
  BY DEF SameClient, Count
<1> QED
  BY <1>2, <1>3 DEF SameRequests

LEMMA KeepPair ==
  ASSUME NEW d \in Clients, NEW s \in Servers,
         SameInput(d, s), SameReader(d, s), SameWriter(d, s), SameRequests(d, s), PairOK(d, s)
  PROVE  PairOK(d, s)'
BY DEF PairOK, SameInput, SameReader, SameWriter, SameRequests

LEMMA KeepServer ==
  ASSUME NEW s \in Servers, ServerOK(s), UNCHANGED <<outwr, srv>>, nclients' >= nclients,
         nclients \in Nat, nclients' \in Nat, s_nclients \in [Servers -> Nat]
  PROVE  ServerOK(s)'
BY DEF ServerOK, outwr, srv

\* A step of client c keeps the invariant if it leaves the others alone.
LEMMA ClientFrame ==
  ASSUME PipeInv, NEW c \in Clients, UNCHANGED <<nclients, mainvars, outwr, srv>>,
         ClientTypes', BufferTypes',
         \A d \in Clients : d # c => SameClient(d),
         \A d \in Clients, s \in Servers : d # c => SameInput(d, s) /\ SameReader(d, s),
         ClientOK(c)', \A s \in Servers : PairOK(c, s)'
  PROVE  PipeInv'
<1>1. Types'
  BY DEF PipeInv, Types, ServerTypes, MainTypes, srv, mainvars
<1>2. ASSUME NEW d \in Clients PROVE ClientOK(d)'
  BY KeepClient DEF PipeInv
<1>3. ASSUME NEW s \in Servers PROVE ServerOK(s)'
  BY KeepServer, Sizes DEF PipeInv, Types, MainTypes, ServerTypes
<1>4. ASSUME NEW d \in Clients, NEW s \in Servers PROVE PairOK(d, s)'
  <2>1. CASE d = c
    BY <2>1
  <2>2. CASE d # c
    <3>1. SameWriter(d, s)
      BY DEF SameWriter, outwr, srv, Served
    <3>2. SameRequests(d, s)
      BY <2>2, KeepRequests
    <3> QED
      BY <2>2, <3>1, <3>2, KeepPair DEF PipeInv
  <2> QED
    BY <2>1, <2>2
<1> QED
  BY <1>1, <1>2, <1>3, <1>4 DEF PipeInv

-----------------------------------------------------------------------------
(* What the operations on the buffers do to one pair *)

LEMMA PairTypes ==
  ASSUME BufferTypes, ServerTypes, NEW c \in Clients, NEW s \in Servers
  PROVE  /\ local[c][s] \in Seq(Msgs) /\ queue[c][s] \in Seq(Seq(Msgs))
         /\ out_wr[c][s] \in Nat /\ local_rd_index[c][s] \in Nat /\ local_wr_index[c][s] \in Nat
         /\ Served(c, s) \in Seq(Msgs)
<1>1. local[c][s] \in Seq(Msgs) /\ queue[c][s] \in Seq(Seq(Msgs))
  BY DEF BufferTypes
<1>2. out_wr[c][s] \in Nat /\ local_rd_index[c][s] \in Nat /\ local_wr_index[c][s] \in Nat
  BY DEF BufferTypes
<1>3. Served(c, s) \in Seq(Msgs)
  BY EmptyBatch DEF ServerTypes, Served
<1> QED
  BY <1>1, <1>2, <1>3

\* The client's batch for a server is flushed, or was empty.
Flushed(c, s) ==
  \/ SameInput(c, s)
  \/ queue'[c][s] = Append(queue[c][s], local[c][s]) /\ local'[c][s] = <<>>

\* Message m is written after the client's batch, or into a new one.
Written(c, s, m) ==
  \/ /\ queue'[c][s] = queue[c][s] /\ local'[c][s] = Append(local[c][s], m)
     /\ BatchWords(local[c][s]) + Words(m) <= INPB_SIZE
  \/ queue'[c][s] = Append(queue[c][s], local[c][s]) /\ local'[c][s] = Append(<<>>, m)

LEMMA FlushEffect ==
  ASSUME BufferTypes, NEW c \in Clients, NEW s0 \in Servers, inpb_flush(c, s0), UNCHANGED <<outrd, outwr>>
  PROVE  /\ BufferTypes'
         /\ \A d \in Clients, s \in Servers : d # c \/ s # s0 => SameInput(d, s)
         /\ Flushed(c, s0)
<1>1. CASE local[c][s0] = <<>>
  BY <1>1 DEF inpb_flush, inbufs, outrd, outwr, BufferTypes, Paired, SameInput, Flushed
<1>2. CASE local[c][s0] # <<>>
  <2>1. /\ queue' = [queue EXCEPT ![c][s0] = Append(queue[c][s0], local[c][s0])]
        /\ local' = [local EXCEPT ![c][s0] = <<>>]
    BY <1>2 DEF inpb_flush
  <2>2. /\ local[c][s0] \in Seq(Msgs) /\ queue[c][s0] \in Seq(Seq(Msgs))
        /\ Append(queue[c][s0], local[c][s0]) \in Seq(Seq(Msgs))
    BY DEF BufferTypes
  <2>3. local' \in [Clients -> [Servers -> Seq(Msgs)]]
    BY <2>1, EmptyBatch DEF BufferTypes
  <2>4. queue' \in [Clients -> [Servers -> Seq(Seq(Msgs))]]
    BY <2>1, <2>2 DEF BufferTypes
  <2>5. BufferTypes'
    BY <2>3, <2>4 DEF BufferTypes, outrd, outwr, Paired
  <2>6. ASSUME NEW d \in Clients, NEW s \in Servers, d # c \/ s # s0 PROVE SameInput(d, s)
    BY <2>1, <2>6 DEF SameInput, BufferTypes
  <2>7. Flushed(c, s0)
    BY <2>1 DEF Flushed, BufferTypes
  <2> QED
    BY <2>5, <2>6, <2>7
<1> QED
  BY <1>1, <1>2

LEMMA WriteEffect ==
  ASSUME BufferTypes, NEW c \in Clients, NEW s0 \in Servers, NEW m \in Msgs, inpb_write(c, s0, m),
         UNCHANGED <<outrd, outwr>>
  PROVE  /\ BufferTypes'
         /\ \A d \in Clients, s \in Servers : d # c \/ s # s0 => SameInput(d, s)
         /\ Written(c, s0, m)
<1>1. /\ local[c][s0] \in Seq(Msgs) /\ queue[c][s0] \in Seq(Seq(Msgs))
      /\ Append(queue[c][s0], local[c][s0]) \in Seq(Seq(Msgs))
      /\ Append(local[c][s0], m) \in Seq(Msgs) /\ <<m>> \in Seq(Msgs) /\ <<m>> = Append(<<>>, m)
  BY DEF BufferTypes
<1>2. BatchWords(local[c][s0]) \in Nat /\ Words(m) \in {1, 2} /\ INPB_SIZE \in Nat
  BY <1>1, WordsFacts, Sizes
<1>3. PICK l \in Seq(Msgs), q \in Seq(Seq(Msgs)) :
        /\ local' = [local EXCEPT ![c][s0] = l] /\ queue' = [queue EXCEPT ![c][s0] = q]
        /\ \/ q = queue[c][s0] /\ l = Append(local[c][s0], m) /\ BatchWords(local[c][s0]) + Words(m) <= INPB_SIZE
           \/ q = Append(queue[c][s0], local[c][s0]) /\ l = Append(<<>>, m)
  <2>1. CASE BatchWords(local[c][s0]) + Words(m) > INPB_SIZE
    BY <2>1, <1>1 DEF inpb_write
  <2>2. CASE ~(BatchWords(local[c][s0]) + Words(m) > INPB_SIZE)
    <3>1. queue' = [queue EXCEPT ![c][s0] = queue[c][s0]]
      BY <2>2 DEF inpb_write, BufferTypes
    <3>2. local' = [local EXCEPT ![c][s0] = Append(local[c][s0], m)]
      BY <2>2 DEF inpb_write
    <3>3. BatchWords(local[c][s0]) + Words(m) <= INPB_SIZE
      BY <2>2, <1>2
    <3> QED
      BY <3>1, <3>2, <3>3, <1>1
  <2> QED
    BY <2>1, <2>2
<1>4. local' \in [Clients -> [Servers -> Seq(Msgs)]]
  BY <1>3 DEF BufferTypes
<1>5. queue' \in [Clients -> [Servers -> Seq(Seq(Msgs))]]
  BY <1>3 DEF BufferTypes
<1>6. BufferTypes'
  BY <1>4, <1>5 DEF BufferTypes, outrd, outwr, Paired
<1>7. ASSUME NEW d \in Clients, NEW s \in Servers, d # c \/ s # s0 PROVE SameInput(d, s)
  BY <1>3, <1>7 DEF SameInput, BufferTypes
<1>8. local'[c][s0] = l /\ queue'[c][s0] = q
  BY <1>3 DEF BufferTypes
<1>9. Written(c, s0, m)
  BY <1>3, <1>8 DEF Written
<1> QED
  BY <1>6, <1>7, <1>9


LEMMA FlushPair ==
  ASSUME BufferTypes, ServerTypes, NEW c \in Clients, NEW s \in Servers, PairOK(c, s),
         Flushed(c, s), SameReader(c, s), SameWriter(c, s), SameRequests(c, s)
  PROVE  PairOK(c, s)'
<1>1. CASE SameInput(c, s)
  BY <1>1, KeepPair
<1>2. CASE queue'[c][s] = Append(queue[c][s], local[c][s]) /\ local'[c][s] = <<>>
  <2>1. Flow(local_rd_index[c][s], out_wr[c][s], out[c][s],
             Lines(Served(c, s), Append(queue[c][s], local[c][s]), <<>>), Awaited(c, s))
    BY PairTypes, FlowFlush DEF PairOK
  <2>2. BatchWords(<<>>) <= INPB_SIZE
    BY Sizes, FS_EmptySet DEF BatchWords
  <2> QED
    BY <1>2, <2>1, <2>2 DEF PairOK, SameReader, SameWriter, SameRequests
<1> QED
  BY <1>1, <1>2 DEF Flushed

LEMMA WritePair ==
  ASSUME BufferTypes, ServerTypes, NEW c \in Clients, NEW s \in Servers, NEW m \in Msgs, PairOK(c, s),
         Written(c, s, m), SameReader(c, s), SameWriter(c, s),
         Awaited(c, s) \in SUBSET Nat,
         m.op # "release" => \A a \in Awaited(c, s) : a < m.id,
         Awaited(c, s)' = IF m.op = "release" THEN Awaited(c, s) ELSE Awaited(c, s) \cup {m.id},
         Cardinality(Awaited(c, s)') = Count(c, s)', Count(c, s)' <= MAX_PENDING_PER_SERVER
  PROVE  PairOK(c, s)'
<1>1. /\ local[c][s] \in Seq(Msgs) /\ queue[c][s] \in Seq(Seq(Msgs)) /\ Served(c, s) \in Seq(Msgs)
      /\ out_wr[c][s] \in Nat /\ local_rd_index[c][s] \in Nat /\ local_wr_index[c][s] \in Nat
  BY PairTypes
<1>2. /\ local_rd_index[c][s] <= local_wr_index[c][s] /\ local_wr_index[c][s] <= out_wr[c][s]
      /\ Flow(local_rd_index[c][s], out_wr[c][s], out[c][s],
              Lines(Served(c, s), queue[c][s], local[c][s]), Awaited(c, s))
  BY DEF PairOK
<1>3. /\ BatchWords(Append(local[c][s], m)) = BatchWords(local[c][s]) + Words(m)
      /\ BatchWords(Append(<<>>, m)) = BatchWords(<<>>) + Words(m) /\ BatchWords(<<>>) = 0
      /\ Words(m) \in {1, 2}
  BY <1>1, WordsFacts, EmptyBatch
<1>4. CASE /\ queue'[c][s] = queue[c][s] /\ local'[c][s] = Append(local[c][s], m)
           /\ BatchWords(local[c][s]) + Words(m) <= INPB_SIZE
  <2>1. Flow(local_rd_index[c][s], out_wr[c][s], out[c][s],
             Lines(Served(c, s), queue[c][s], Append(local[c][s], m)),
             IF m.op = "release" THEN Awaited(c, s) ELSE Awaited(c, s) \cup {m.id})
    BY <1>1, <1>2, FlowWrite
  <2>2. BatchWords(local'[c][s]) <= INPB_SIZE
    BY <1>3, <1>4
  <2> QED
    BY <1>2, <1>4, <2>1, <2>2 DEF PairOK, SameReader, SameWriter
<1>5. CASE queue'[c][s] = Append(queue[c][s], local[c][s]) /\ local'[c][s] = Append(<<>>, m)
  <2>1. Flow(local_rd_index[c][s], out_wr[c][s], out[c][s],
             Lines(Served(c, s), Append(queue[c][s], local[c][s]), <<>>), Awaited(c, s))
    BY <1>1, <1>2, FlowFlush
  <2>2. Append(queue[c][s], local[c][s]) \in Seq(Seq(Msgs)) /\ <<>> \in Seq(Msgs)
    BY <1>1, EmptyBatch
  <2>3. Flow(local_rd_index[c][s], out_wr[c][s], out[c][s],
             Lines(Served(c, s), Append(queue[c][s], local[c][s]), Append(<<>>, m)),
             IF m.op = "release" THEN Awaited(c, s) ELSE Awaited(c, s) \cup {m.id})
    BY <1>1, <2>1, <2>2, FlowWrite
  <2>4. BatchWords(local'[c][s]) <= INPB_SIZE
    BY <1>3, <1>5, Sizes
  <2> QED
    BY <1>2, <1>5, <2>3, <2>4 DEF PairOK, SameReader, SameWriter
<1> QED
  BY <1>4, <1>5 DEF Written

\* A value is taken from the ring: it is the answer to the oldest request that
\* is awaited from the server, f.
LEMMA ReadPair ==
  ASSUME BufferTypes, ServerTypes, NEW c \in Clients, NEW s \in Servers, PairOK(c, s),
         outb_read(c, s), NEW f \in Awaited(c, s), \A a \in Awaited(c, s) : f <= a,
         Awaited(c, s) \in SUBSET Nat, IsFiniteSet(Awaited(c, s))
  PROVE  /\ NextValue(c, s) = f
         /\ UNCHANGED <<inbufs, outwr, srv>> /\ Awaited(c, s)' = Awaited(c, s) \ {f}
              /\ Count(c, s)' = Count(c, s) - 1 => PairOK(c, s)'
<1> DEFINE lo == local_rd_index[c][s]
           hi == out_wr[c][s]
           bs == Lines(Served(c, s), queue[c][s], local[c][s])
<1>1. /\ local[c][s] \in Seq(Msgs) /\ queue[c][s] \in Seq(Seq(Msgs)) /\ Served(c, s) \in Seq(Msgs)
      /\ hi \in Nat /\ lo \in Nat /\ local_wr_index[c][s] \in Nat
  BY PairTypes
<1>2. /\ lo <= local_wr_index[c][s] /\ local_wr_index[c][s] <= hi
      /\ Flow(lo, hi, out[c][s], bs, Awaited(c, s))
  BY DEF PairOK
<1>3. /\ local_rd_index'[c][s] = lo + 1 /\ local_wr_index'[c][s] = FreshIndex(c, s)
      /\ lo # FreshIndex(c, s)
  BY DEF outb_read, BufferTypes
<1>4. FreshIndex(c, s) \in Nat /\ lo < FreshIndex(c, s) /\ FreshIndex(c, s) <= hi
  BY <1>1, <1>2, <1>3 DEF FreshIndex
<1>5. Len(bs) \in Nat /\ lo < hi
  BY <1>1, <1>4, LinesPieces DEF Pieces
<1> HIDE DEF bs, lo, hi
<1>6. Slot(out[c][s], lo) = f /\ Flow(lo + 1, hi, out[c][s], bs, Awaited(c, s) \ {f})
  BY <1>1, <1>2, <1>4, <1>5, FlowRead
<1>7. NextValue(c, s) = f
  BY <1>6 DEF NextValue, Slot, lo
<1>8. ASSUME UNCHANGED <<inbufs, outwr, srv>>, Awaited(c, s)' = Awaited(c, s) \ {f},
             Count(c, s)' = Count(c, s) - 1
      PROVE  PairOK(c, s)'
  <2>1. out_wr'[c][s] = hi /\ out'[c][s] = out[c][s] /\ Lines(Served(c, s)', queue'[c][s], local'[c][s]) = bs
    BY <1>8 DEF inbufs, outwr, srv, Served, bs, hi
  <2>2. Flow(local_rd_index'[c][s], out_wr'[c][s], out'[c][s],
             Lines(Served(c, s)', queue'[c][s], local'[c][s]), Awaited(c, s)')
    BY <2>1, <1>3, <1>6, <1>8
  <2>3. Cardinality(Awaited(c, s) \ {f}) = Cardinality(Awaited(c, s)) - 1 /\ Cardinality(Awaited(c, s)) \in Nat
    BY FS_RemoveElement, FS_CardinalityType
  <2>4. Cardinality(Awaited(c, s)') = Count(c, s)' /\ Count(c, s)' <= MAX_PENDING_PER_SERVER
    BY <1>8, <2>3, Sizes DEF PairOK
  <2>5. local_rd_index'[c][s] <= local_wr_index'[c][s] /\ local_wr_index'[c][s] <= out_wr'[c][s]
    BY <1>1, <1>3, <1>4, <2>1
  <2>6. BatchWords(local'[c][s]) <= INPB_SIZE
    BY <1>8 DEF PairOK, inbufs
  <2> QED
    BY <2>2, <2>4, <2>5, <2>6 DEF PairOK
<1> QED
  BY <1>7, <1>8

LEMMA ReadEffect ==
  ASSUME BufferTypes, NEW c \in Clients, NEW s0 \in Servers, outb_read(c, s0), UNCHANGED <<inbufs, outwr>>
  PROVE  /\ BufferTypes'
         /\ \A d \in Clients, s \in Servers : d # c \/ s # s0 => SameReader(d, s)
<1>1. FreshIndex(c, s0) \in Nat /\ local_rd_index[c][s0] + 1 \in Nat
  BY DEF BufferTypes, FreshIndex
<1>2. /\ local_wr_index' = [local_wr_index EXCEPT ![c][s0] = FreshIndex(c, s0)]
      /\ local_rd_index' = [local_rd_index EXCEPT ![c][s0] = local_rd_index[c][s0] + 1]
  BY DEF outb_read
<1>3. local_wr_index' \in [Clients -> [Servers -> Nat]]
  BY <1>1, <1>2 DEF BufferTypes
<1>4. local_rd_index' \in [Clients -> [Servers -> Nat]]
  BY <1>1, <1>2 DEF BufferTypes
<1>5. BufferTypes'
  BY <1>3, <1>4 DEF BufferTypes, inbufs, outwr, Paired
<1>6. ASSUME NEW d \in Clients, NEW s \in Servers, d # c \/ s # s0 PROVE SameReader(d, s)
  BY <1>2, <1>6 DEF SameReader, BufferTypes
<1> QED
  BY <1>5, <1>6

-----------------------------------------------------------------------------
(* What is awaited after a request and after an answer *)

\* Client c makes a request of server s0.
LEMMA AwaitMore ==
  ASSUME ClientTypes, NEW c \in Clients, ClientOK(c), NEW s \in Servers, NEW m \in Queries,
         req'[c] = Append(req[c], m), FirstAwaited(c)' = FirstAwaited(c),
         NextRequest(c)' = NextRequest(c) + 1
  PROVE  /\ \A a \in Awaited(c, s) : a < Len(req[c])
         /\ Awaited(c, s)' = IF s = m.s THEN Awaited(c, s) \cup {Len(req[c])} ELSE Awaited(c, s)
         /\ s = m.s => Cardinality(Awaited(c, s)') = Cardinality(Awaited(c, s)) + 1
<1> DEFINE n == Len(req[c])
           f == FirstAwaited(c)
<1>1. /\ n \in Nat /\ NextRequest(c) = n /\ f \in Nat /\ f <= n
      /\ Awaited(c, s) \subseteq f..n - 1 /\ IsFiniteSet(Awaited(c, s))
  BY AwaitedFacts
<1>2. req[c] \in Seq(Queries)
  BY DEF ClientTypes
<1>3. /\ \A k \in f..n - 1 : req'[c][k + 1] = req[c][k + 1]
      /\ req'[c][n + 1] = m
  BY <1>1, <1>2
<1>4. Awaited(c, s)' = {k \in f..(n + 1) - 1 : req'[c][k + 1].s = s}
  BY <1>1 DEF Awaited
<1>5. Awaited(c, s) = {k \in f..n - 1 : req[c][k + 1].s = s}
  BY <1>1 DEF Awaited
<1> HIDE DEF n, f
<1>6. Awaited(c, s)' = IF s = m.s THEN Awaited(c, s) \cup {n} ELSE Awaited(c, s)
  <2>1. f..(n + 1) - 1 = (f..n - 1) \cup {n} /\ n \notin f..n - 1
    BY <1>1
  <2>2. \A k \in f..n - 1 : req'[c][k + 1].s = req[c][k + 1].s
    BY <1>3
  <2>3. req'[c][n + 1].s = m.s
    BY <1>3
  <2> QED
    BY <2>1, <2>2, <2>3, <1>4, <1>5
<1>7. n \notin Awaited(c, s) /\ \A a \in Awaited(c, s) : a < n
  BY <1>1
<1>8. Cardinality(Awaited(c, s) \cup {n}) = Cardinality(Awaited(c, s)) + 1
  BY <1>1, <1>7, FS_AddElement
<1> QED
  BY <1>6, <1>7, <1>8 DEF n

\* The oldest request that client c awaits an answer for is the oldest at its
\* server; when it has been read nothing else changes.
LEMMA AwaitLess ==
  ASSUME ClientTypes, NEW c \in Clients, ClientOK(c), NEW s \in Servers,
         FirstAwaited(c) < Len(req[c])
  PROVE  /\ req[c][FirstAwaited(c) + 1].s = s =>
              FirstAwaited(c) \in Awaited(c, s) /\ \A a \in Awaited(c, s) : FirstAwaited(c) <= a
         /\ req'[c] = req[c] /\ FirstAwaited(c)' = FirstAwaited(c) + 1 /\ NextRequest(c)' = NextRequest(c)
              => Awaited(c, s)' = IF req[c][FirstAwaited(c) + 1].s = s
                                  THEN Awaited(c, s) \ {FirstAwaited(c)} ELSE Awaited(c, s)
<1> DEFINE n == Len(req[c])
           f == FirstAwaited(c)
<1>1. n \in Nat /\ NextRequest(c) = n /\ f \in Nat /\ f < n
  BY AwaitedFacts
<1>2. Awaited(c, s) = {k \in f..n - 1 : req[c][k + 1].s = s}
  BY <1>1 DEF Awaited
<1>3. ASSUME req'[c] = req[c], FirstAwaited(c)' = f + 1, NextRequest(c)' = NextRequest(c)
      PROVE  Awaited(c, s)' = {k \in f + 1..n - 1 : req[c][k + 1].s = s}
  BY <1>1, <1>3 DEF Awaited
<1> HIDE DEF n, f
<1> QED
  BY <1>1, <1>2, <1>3 DEF n, f


-----------------------------------------------------------------------------
(* The steps of the clients *)

LEMMA StillAwaited ==
  ASSUME NEW c \in Clients, NEW s \in Servers, UNCHANGED <<req, batch, wr_index, pending_index, pending_count>>
  PROVE  SameRequests(c, s)
<1>1. FirstAwaited(c)' = FirstAwaited(c) /\ NextRequest(c)' = NextRequest(c)
  BY DEF FirstAwaited, NextRequest
<1>2. Awaited(c, s)' = Awaited(c, s)
  BY <1>1 DEF Awaited
<1>3. Count(c, s)' = Count(c, s)
  BY DEF Count
<1> QED
  BY <1>2, <1>3 DEF SameRequests

\* A step of client c that touches no buffer.
LEMMA ControlFrame ==
  ASSUME PipeInv, NEW c \in Clients, UNCHANGED <<nclients, mainvars, inbufs, outrd, outwr, srv>>,
         ClientTypes', \A d \in Clients : d # c => SameClient(d),
         ClientOK(c)', \A s \in Servers : SameRequests(c, s)
  PROVE  PipeInv'
<1>1. \A d \in Clients, s \in Servers : SameInput(d, s) /\ SameReader(d, s)
  BY DEF SameInput, SameReader, inbufs, outrd
<1>2. BufferTypes'
  BY DEF PipeInv, Types, BufferTypes, Paired, inbufs, outrd, outwr
<1>3. ASSUME NEW s \in Servers PROVE PairOK(c, s)'
  <2>1. SameWriter(c, s)
    BY DEF SameWriter, outwr, srv, Served
  <2>2. PairOK(c, s)
    BY DEF PipeInv
  <2> QED
    BY <1>1, <2>1, <2>2, KeepPair
<1> QED
  BY <1>1, <1>2, <1>3, ClientFrame

\* A step of client c that only flushes a buffer.
LEMMA FlushFrame ==
  ASSUME PipeInv, NEW c \in Clients, NEW s0 \in Servers, inpb_flush(c, s0),
         UNCHANGED <<nclients, mainvars, outrd, outwr, srv>>,
         ClientTypes', \A d \in Clients : d # c => SameClient(d),
         ClientOK(c)', \A s \in Servers : SameRequests(c, s)
  PROVE  PipeInv'
<1>1. /\ BufferTypes' /\ Flushed(c, s0)
      /\ \A d \in Clients, s \in Servers : d # c \/ s # s0 => SameInput(d, s)
  BY FlushEffect DEF PipeInv, Types
<1>2. \A d \in Clients, s \in Servers : SameReader(d, s) /\ SameWriter(d, s)
  BY DEF SameReader, SameWriter, outrd, outwr, srv, Served
<1>3. ASSUME NEW s \in Servers PROVE PairOK(c, s)'
  <2>1. PairOK(c, s) /\ BufferTypes /\ ServerTypes
    BY DEF PipeInv, Types
  <2>2. CASE s = s0
    BY <1>1, <1>2, <2>1, <2>2, FlushPair
  <2>3. CASE s # s0
    BY <1>1, <1>2, <2>1, <2>3, KeepPair
  <2> QED
    BY <2>2, <2>3
<1> QED
  BY <1>1, <1>2, <1>3, ClientFrame

\* The fields of a client.
LEMMA ClientFields ==
  ASSUME ClientTypes, NEW c \in Clients
  PROVE  /\ cpc[c] \in ClientStates /\ call[c] \in Calls /\ call[c].s \in Servers /\ call[c].id \in Nat
         /\ req[c] \in Seq(Queries) /\ Len(req[c]) \in Nat /\ held[c] \in SUBSET Nat /\ batch[c] \in BatchTypes
         /\ rd_index[c] \in Nat /\ wr_index[c] \in Nat /\ pending_index[c] \in Nat
         /\ pending_count[c] \in [Servers -> Int]
         /\ pending_servers[c] \in [0..MAX_PENDING_SIZE - 1 -> Servers]
         /\ pending_values[c] \in [0..MAX_PENDING_SIZE - 1 -> Nat]
<1>1. cpc[c] \in ClientStates /\ call[c] \in Calls /\ req[c] \in Seq(Queries) /\ held[c] \in SUBSET Nat
  BY DEF ClientTypes
<1>2. call[c].s \in Servers /\ call[c].id \in Nat
  BY <1>1, CallFields
<1>3. /\ batch[c] \in BatchTypes /\ rd_index[c] \in Nat /\ wr_index[c] \in Nat /\ pending_index[c] \in Nat
      /\ pending_count[c] \in [Servers -> Int]
  BY DEF ClientTypes
<1>4. /\ pending_servers[c] \in [0..MAX_PENDING_SIZE - 1 -> Servers]
      /\ pending_values[c] \in [0..MAX_PENDING_SIZE - 1 -> Nat]
  BY DEF ClientTypes
<1> QED
  BY <1>1, <1>2, <1>3, <1>4

LEMMA RequestStep ==
  ASSUME PipeInv, NEW c \in Clients, NEW op \in Ops, NEW s \in Servers, smp_hash_request(c, op, s)
  PROVE  PipeInv'
<1> DEFINE k == [op |-> op, s |-> s, id |-> pending_index[c]]
<1>1. ClientTypes /\ PendingOK(c) /\ c \notin DoAllClients /\ \A n \in held[c] : n < Len(req[c])
  BY DEF PipeInv, Types, ClientOK, smp_hash_request
<1>2. pending_index[c] \in Nat /\ op \in {"lookup", "insert"}
  BY <1>1, ClientFields, SizesAssumption
<1>3. k \in Calls /\ k.op = op
  BY <1>2 DEF Calls
<1> HIDE DEF k
<1>4. /\ cpc' = [cpc EXCEPT ![c] = "limit"] /\ call' = [call EXCEPT ![c] = k]
      /\ pending_index[c] - rd_index[c] < MAX_PENDING_SIZE
      /\ UNCHANGED <<nclients, mainvars, inbufs, outrd, outwr, pending, req, held, batch, srv>>
  BY DEF smp_hash_request, Goto, k
<1>5. ClientTypes'
  BY <1>1, <1>3, <1>4 DEF ClientTypes, ClientStates, pending
<1>6. \A d \in Clients : d # c => SameClient(d)
  BY <1>1, <1>4 DEF SameClient, ClientTypes, pending
<1>7. cpc'[c] = "limit" /\ call'[c] = k
  BY <1>1, <1>4 DEF ClientTypes
<1>8. PendingOK(c)'
  BY <1>1, <1>2, <1>3, <1>4, <1>7 DEF PendingOK, pending, DoallStates, DoallWaits, WaitStates
<1>9. ClientOK(c)'
  BY <1>1, <1>4, <1>8 DEF ClientOK
<1>10. \A t \in Servers : SameRequests(c, t)
  BY <1>4, StillAwaited DEF pending
<1> QED
  BY <1>4, <1>5, <1>6, <1>9, <1>10, ControlFrame


\* Client c goes to pc with its call k; its requests and values are as before.
Moves(c, pc, k) ==
  /\ cpc' = [cpc EXCEPT ![c] = pc] /\ call' = [call EXCEPT ![c] = k]
  /\ UNCHANGED <<pending, req, held, batch>>

LEMMA MovesEffect ==
  ASSUME ClientTypes, NEW c \in Clients, NEW pc \in ClientStates, NEW k \in Calls, Moves(c, pc, k)
  PROVE  /\ ClientTypes' /\ \A d \in Clients : d # c => SameClient(d)
         /\ \A s \in Servers : SameRequests(c, s)
         /\ cpc'[c] = pc /\ call'[c] = k
<1>1. ClientTypes'
  BY DEF ClientTypes, Moves, pending
<1>2. \A d \in Clients : d # c => SameClient(d)
  BY DEF ClientTypes, Moves, pending, SameClient
<1>3. \A s \in Servers : SameRequests(c, s)
  BY StillAwaited DEF Moves, pending
<1>4. cpc'[c] = pc /\ call'[c] = k
  BY DEF ClientTypes, Moves
<1> QED
  BY <1>1, <1>2, <1>3, <1>4

\* The states that need nothing of a client.
LEMMA RestOK ==
  ASSUME NEW c \in Clients, ClientOK(c), cpc'[c] \in {"idle", "force"}, cpc[c] \notin DoallStates,
         UNCHANGED <<pending, req, held, batch>>
  PROVE  ClientOK(c)'
<1>1. CASE c \in DoAllClients
  <2>1. DoallOK(c)'
    BY <1>1 DEF ClientOK, DoallOK, DoallStates, DoallWaits, pending
  <2> QED
    BY <1>1, <2>1 DEF ClientOK
<1>2. CASE c \notin DoAllClients
  <2>1. PendingOK(c)'
    BY <1>2 DEF ClientOK, PendingOK, DoallStates, DoallWaits, WaitStates, pending
  <2> QED
    BY <1>2, <2>1 DEF ClientOK
<1> QED
  BY <1>1, <1>2

\* When a request is pending at a server, an answer is awaited.
LEMMA SomethingAwaited ==
  ASSUME PipeInv, NEW c \in Clients, NEW s \in Servers, Count(c, s) >= 1
  PROVE  FirstAwaited(c) < Len(req[c])
<1>1. /\ Awaited(c, s) \subseteq FirstAwaited(c)..Len(req[c]) - 1
      /\ FirstAwaited(c) \in Nat /\ Len(req[c]) \in Nat
  BY AwaitedFacts DEF PipeInv, Types
<1>2. Cardinality(Awaited(c, s)) >= 1
  BY DEF PipeInv, PairOK
<1>3. Awaited(c, s) # {}
  BY <1>2, FS_EmptySet
<1> QED
  BY <1>1, <1>3

LEMMA LimitStep ==
  ASSUME PipeInv, NEW c \in Clients, LimitPending(c)
  PROVE  PipeInv'
<1>1. ClientTypes /\ ClientOK(c) /\ cpc[c] = "limit"
  BY DEF PipeInv, Types, LimitPending
<1>2. c \notin DoAllClients /\ PendingOK(c) /\ \A n \in held[c] : n < Len(req[c])
  BY <1>1 DEF ClientOK, DoallOK, DoallStates, DoallWaits
<1> DEFINE s == call[c].s
           pc == IF pending_count[c][s] >= MAX_PENDING_PER_SERVER THEN "read" ELSE "send"
<1>3. s \in Servers /\ pc \in ClientStates /\ call[c] \in Calls /\ pending_count[c][s] \in Int
  BY <1>1, ClientFields DEF ClientStates, WaitStates
<1>4. Moves(c, pc, call[c]) /\ UNCHANGED <<nclients, mainvars, inbufs, outrd, outwr, srv>>
  BY <1>1 DEF LimitPending, Goto, Moves, ClientTypes
<1>5. pending_count[c][s] >= MAX_PENDING_PER_SERVER => wr_index[c] < pending_index[c]
  <2>1. pending_count[c][s] >= MAX_PENDING_PER_SERVER => Count(c, s) >= 1
    BY <1>2, <1>3, Sizes DEF Count
  <2> QED
    BY <1>2, <1>3, <2>1, SomethingAwaited DEF FirstAwaited, PendingOK
<1>6. pc = "send" => pending_count[c][s] < MAX_PENDING_PER_SERVER
  BY <1>3, Sizes
<1>7. pc = "read" => wr_index[c] < pending_index[c]
  BY <1>5
<1>8. pc \in {"read", "send"}
  OBVIOUS
<1> HIDE DEF pc
<1>9. /\ ClientTypes' /\ (\A d \in Clients : d # c => SameClient(d))
      /\ (\A t \in Servers : SameRequests(c, t)) /\ cpc'[c] = pc /\ call'[c] = call[c]
  BY <1>1, <1>3, <1>4, MovesEffect
<1>10. PendingOK(c)'
  BY <1>1, <1>2, <1>4, <1>6, <1>7, <1>8, <1>9
     DEF PendingOK, Moves, pending, DoallStates, DoallWaits, WaitStates
<1>11. ClientOK(c)'
  BY <1>2, <1>4, <1>10 DEF ClientOK, Moves
<1> QED
  BY <1>4, <1>9, <1>11, ControlFrame

LEMMA ReleaseCallStep ==
  ASSUME PipeInv, NEW c \in Clients, NEW n \in held[c], mp_send_release(c, n)
  PROVE  PipeInv'
<1> DEFINE k == [op |-> "release", s |-> req[c][n + 1].s, id |-> n]
<1>1. ClientTypes /\ ClientOK(c) /\ cpc[c] = "idle"
  BY DEF PipeInv, Types, mp_send_release, MayCall
<1>2. n \in Nat /\ n < Len(req[c]) /\ req[c] \in Seq(Queries)
  BY <1>1, ClientFields DEF ClientOK
<1>3. req[c][n + 1] \in Queries
  BY <1>2
<1>4. k \in Calls /\ k.op = "release"
  BY <1>2, <1>3, QueryFields DEF Calls
<1> HIDE DEF k
<1>5. /\ cpc' = [cpc EXCEPT ![c] = "send"] /\ call' = [call EXCEPT ![c] = k]
      /\ held' = [held EXCEPT ![c] = held[c] \ {n}]
      /\ UNCHANGED <<nclients, mainvars, inbufs, outrd, outwr, pending, req, batch, srv>>
  BY DEF mp_send_release, Goto, k
<1>6. held[c] \ {n} \in SUBSET Nat
  BY <1>1 DEF ClientTypes
<1>7. ClientTypes'
  BY <1>1, <1>4, <1>5, <1>6 DEF ClientTypes, ClientStates, pending
<1>8. \A d \in Clients : d # c => SameClient(d)
  BY <1>1, <1>5 DEF SameClient, ClientTypes, pending
<1>9. cpc'[c] = "send" /\ call'[c] = k /\ held'[c] \subseteq held[c] /\ req'[c] = req[c]
  BY <1>1, <1>5 DEF ClientTypes
<1>10. ClientOK(c)'
  <2>1. CASE c \in DoAllClients
    <3>1. DoallOK(c)'
      BY <1>1, <1>4, <1>5, <1>9, <2>1 DEF ClientOK, DoallOK, DoallStates, DoallWaits, pending
    <3> QED
      BY <1>1, <1>9, <2>1, <3>1 DEF ClientOK
  <2>2. CASE c \notin DoAllClients
    <3>1. PendingOK(c)'
      BY <1>1, <1>4, <1>5, <1>9, <2>2 DEF ClientOK, PendingOK, DoallStates, DoallWaits, WaitStates, pending
    <3> QED
      BY <1>1, <1>9, <2>2, <3>1 DEF ClientOK
  <2> QED
    BY <2>1, <2>2
<1>11. \A t \in Servers : SameRequests(c, t)
  BY <1>5, StillAwaited DEF pending
<1> QED
  BY <1>5, <1>7, <1>8, <1>10, <1>11, ControlFrame

LEMMA ForceFlushStep ==
  ASSUME PipeInv, NEW c \in Clients, ForceFlush(c)
  PROVE  PipeInv'
<1>1. ClientTypes /\ ClientOK(c) /\ cpc[c] = "force" /\ call[c].s \in Servers /\ inpb_flush(c, call[c].s)
  BY ClientFields DEF PipeInv, Types, ForceFlush
<1>2. Moves(c, "idle", NoCall) /\ UNCHANGED <<nclients, mainvars, outrd, outwr, srv>>
  BY DEF ForceFlush, Return, Goto, Moves
<1>3. /\ ClientTypes' /\ (\A d \in Clients : d # c => SameClient(d))
      /\ (\A t \in Servers : SameRequests(c, t)) /\ cpc'[c] = "idle"
  BY <1>1, <1>2, NothingTyped, MovesEffect DEF ClientStates
<1>4. ClientOK(c)'
  BY <1>1, <1>2, <1>3, RestOK DEF Moves, DoallStates, DoallWaits
<1> QED
  BY <1>1, <1>2, <1>3, <1>4, FlushFrame

\* A client that waits for an answer moves on to the next way of waiting.
LEMMA WaitOK ==
  ASSUME NEW c \in Clients, ClientOK(c), cpc[c] \in WaitStates, cpc'[c] \in WaitStates, call'[c] = call[c],
         UNCHANGED <<pending, req, held, batch>>
  PROVE  ClientOK(c)'
<1>1. c \notin DoAllClients /\ PendingOK(c) /\ \A n \in held[c] : n < Len(req[c])
  BY DEF ClientOK, DoallOK, DoallStates, DoallWaits, WaitStates
<1>2. PendingOK(c)'
  BY <1>1 DEF PendingOK, DoallStates, DoallWaits, WaitStates, pending
<1> QED
  BY <1>1, <1>2 DEF ClientOK

LEMMA FlushBeforeBlockStep ==
  ASSUME PipeInv, NEW c \in Clients, FlushBeforeBlock(c)
  PROVE  PipeInv'
<1>1. /\ ClientTypes /\ ClientOK(c) /\ cpc[c] = "flush" /\ call[c] \in Calls
      /\ inpb_flush(c, PendingServer(c))
  BY ClientFields DEF PipeInv, Types, FlushBeforeBlock
<1>2. PendingServer(c) \in Servers
  <2>1. wr_index[c] % MAX_PENDING_SIZE \in 0..MAX_PENDING_SIZE - 1
    BY <1>1, ClientFields, Sizes, RingSlots
  <2> QED
    BY <1>1, <2>1, ClientFields DEF PendingServer
<1>3. Moves(c, "block", call[c]) /\ UNCHANGED <<nclients, mainvars, outrd, outwr, srv>>
  BY <1>1 DEF FlushBeforeBlock, Goto, Moves, ClientTypes
<1>4. /\ ClientTypes' /\ (\A d \in Clients : d # c => SameClient(d))
      /\ (\A t \in Servers : SameRequests(c, t)) /\ cpc'[c] = "block" /\ call'[c] = call[c]
  BY <1>1, <1>3, MovesEffect DEF ClientStates, WaitStates
<1>5. ClientOK(c)'
  BY <1>1, <1>3, <1>4, WaitOK DEF Moves, WaitStates
<1> QED
  BY <1>1, <1>2, <1>3, <1>4, <1>5, FlushFrame


\* A step of client c that writes message m for server s0.
LEMMA WriteFrame ==
  ASSUME PipeInv, NEW c \in Clients, NEW s0 \in Servers, NEW m \in Msgs, inpb_write(c, s0, m),
         UNCHANGED <<nclients, mainvars, outrd, outwr, srv>>,
         ClientTypes', \A d \in Clients : d # c => SameClient(d), ClientOK(c)',
         m.op # "release" => \A a \in Awaited(c, s0) : a < m.id,
         Awaited(c, s0)' = IF m.op = "release" THEN Awaited(c, s0) ELSE Awaited(c, s0) \cup {m.id},
         Cardinality(Awaited(c, s0)') = Count(c, s0)', Count(c, s0)' <= MAX_PENDING_PER_SERVER,
         \A s \in Servers : s # s0 => SameRequests(c, s)
  PROVE  PipeInv'
<1>1. /\ BufferTypes' /\ Written(c, s0, m)
      /\ \A d \in Clients, s \in Servers : d # c \/ s # s0 => SameInput(d, s)
  BY WriteEffect DEF PipeInv, Types
<1>2. \A d \in Clients, s \in Servers : SameReader(d, s) /\ SameWriter(d, s)
  BY DEF SameReader, SameWriter, outrd, outwr, srv, Served
<1>3. ASSUME NEW s \in Servers PROVE PairOK(c, s)'
  <2>1. PairOK(c, s) /\ BufferTypes /\ ServerTypes
    BY DEF PipeInv, Types
  <2>2. Awaited(c, s) \in SUBSET Nat
    BY AwaitedFacts DEF PipeInv, Types
  <2>3. CASE s = s0
    BY <1>1, <1>2, <2>1, <2>2, <2>3, WritePair
  <2>4. CASE s # s0
    BY <1>1, <1>2, <2>1, <2>4, KeepPair
  <2> QED
    BY <2>3, <2>4
<1> QED
  BY <1>1, <1>2, <1>3, ClientFrame

LEMMA SendReleaseStep ==
  ASSUME PipeInv, NEW c \in Clients, SendRelease(c)
  PROVE  PipeInv'
<1>1. /\ ClientTypes /\ ClientOK(c) /\ cpc[c] = "send" /\ call[c] \in Calls /\ call[c].s \in Servers
      /\ call[c].id \in Nat
  BY ClientFields DEF PipeInv, Types, SendRelease
<1>2. PICK s0 \in Servers, m \in Msgs : m.op = "release" /\ inpb_write(c, s0, m)
  <2> DEFINE r == [op |-> "release", id |-> call[c].id]
  <2>1. r \in Msgs /\ r.op = "release" /\ inpb_write(c, call[c].s, r)
    BY <1>1 DEF SendRelease, Msgs
  <2> QED
    BY <1>1, <2>1
<1>3. PICK pc \in {"force", "idle"}, k \in Calls : Moves(c, pc, k)
  <2>1. CASE req[c][call[c].id + 1].op = "insert"
    <3>1. Moves(c, "force", call[c])
      BY <1>1, <2>1 DEF SendRelease, Goto, Moves, ClientTypes
    <3> QED
      BY <1>1, <3>1
  <2>2. CASE req[c][call[c].id + 1].op # "insert"
    <3>1. Moves(c, "idle", NoCall)
      BY <2>2 DEF SendRelease, Return, Goto, Moves
    <3> QED
      BY <3>1, NothingTyped
  <2> QED
    BY <2>1, <2>2
<1>4. UNCHANGED <<nclients, mainvars, outrd, outwr, srv>>
  BY DEF SendRelease
<1>5. pc \in ClientStates
  BY DEF ClientStates
<1>6. /\ ClientTypes' /\ (\A d \in Clients : d # c => SameClient(d))
      /\ (\A t \in Servers : SameRequests(c, t)) /\ cpc'[c] = pc
  BY <1>1, <1>3, <1>5, MovesEffect
<1>7. ClientOK(c)'
  BY <1>1, <1>3, <1>6, RestOK DEF Moves, DoallStates, DoallWaits
<1>8. /\ Awaited(c, s0)' = Awaited(c, s0) /\ Cardinality(Awaited(c, s0)') = Count(c, s0)'
      /\ Count(c, s0)' <= MAX_PENDING_PER_SERVER
  BY <1>1, <1>6 DEF SameRequests, PipeInv, PairOK
<1> QED
  BY <1>1, <1>2, <1>4, <1>6, <1>7, <1>8, WriteFrame

LEMMA SendRequestStep ==
  ASSUME PipeInv, NEW c \in Clients, SendRequest(c)
  PROVE  PipeInv'
<1>1. PICK s0, n : s0 = call[c].s /\ n = pending_index[c]
  OBVIOUS
<1> DEFINE q == [op |-> call[c].op, s |-> s0]
           m == [op |-> call[c].op, id |-> n]
<1>2. /\ ClientTypes /\ ClientOK(c) /\ cpc[c] = "send" /\ call[c].op \in {"lookup", "insert"}
      /\ s0 \in Servers /\ n \in Nat
  BY <1>1, ClientFields DEF PipeInv, Types, SendRequest
<1>3. c \notin DoAllClients /\ PendingOK(c) /\ \A k \in held[c] : k < Len(req[c])
  BY <1>2 DEF ClientOK, DoallOK, DoallStates, DoallWaits
<1>4. /\ m \in Msgs /\ m.op # "release" /\ m.id = n /\ inpb_write(c, s0, m)
      /\ q \in Queries /\ q.s = s0
  BY <1>1, <1>2 DEF SendRequest, Msgs, Queries
<1>5. /\ pending_count' = [pending_count EXCEPT ![c][s0] = pending_count[c][s0] + 1]
      /\ pending_servers' = [pending_servers EXCEPT ![c][n % MAX_PENDING_SIZE] = s0]
      /\ pending_index' = [pending_index EXCEPT ![c] = n + 1]
      /\ req' = [req EXCEPT ![c] = Append(req[c], q)]
      /\ cpc' = [cpc EXCEPT ![c] = "idle"] /\ call' = [call EXCEPT ![c] = NoCall]
      /\ UNCHANGED <<nclients, mainvars, outrd, outwr, pending_values, rd_index, wr_index, held, batch, srv>>
  BY <1>1 DEF SendRequest, Return, Goto
<1> HIDE DEF m, q
<1>6. /\ req[c] \in Seq(Queries) /\ n = Len(req[c]) /\ rd_index[c] \in Nat /\ wr_index[c] \in Nat
      /\ held[c] \in SUBSET Nat
      /\ rd_index[c] <= wr_index[c] /\ wr_index[c] <= n /\ n - rd_index[c] < MAX_PENDING_SIZE
      /\ pending_count[c][s0] < MAX_PENDING_PER_SERVER /\ pending_count[c][s0] \in Int
  BY <1>1, <1>2, <1>3, ClientFields DEF PendingOK
<1>7. MAX_PENDING_SIZE \in Nat \ {0} /\ n % MAX_PENDING_SIZE \in 0..MAX_PENDING_SIZE - 1
  BY <1>2, Sizes, RingSlots
<1>8. ClientTypes'
  <2>1. cpc' \in [Clients -> ClientStates] /\ call' \in [Clients -> Calls]
    BY <1>2, <1>5, NothingTyped DEF ClientTypes, ClientStates
  <2>2. req' \in [Clients -> Seq(Queries)]
    BY <1>2, <1>4, <1>5, <1>6 DEF ClientTypes
  <2>3. pending_index' \in [Clients -> Nat] /\ pending_count' \in [Clients -> [Servers -> Int]]
    BY <1>2, <1>5, <1>6 DEF ClientTypes
  <2>4. pending_servers' \in [Clients -> [0..MAX_PENDING_SIZE - 1 -> Servers]]
    BY <1>2, <1>5, <1>7 DEF ClientTypes
  <2> QED
    BY <1>2, <1>5, <2>1, <2>2, <2>3, <2>4 DEF ClientTypes
<1>9. \A d \in Clients : d # c => SameClient(d)
  BY <1>2, <1>5 DEF SameClient, ClientTypes
<1>10. /\ pending_count'[c] = [pending_count[c] EXCEPT ![s0] = pending_count[c][s0] + 1]
      /\ pending_servers'[c] = [pending_servers[c] EXCEPT ![n % MAX_PENDING_SIZE] = s0]
      /\ pending_index'[c] = n + 1 /\ req'[c] = Append(req[c], q)
      /\ cpc'[c] = "idle" /\ call'[c] = NoCall
  BY <1>2, <1>5 DEF ClientTypes
<1>11. /\ Len(req'[c]) = n + 1 /\ req'[c][n + 1] = q
       /\ \A k \in 1..n : req'[c][k] = req[c][k]
  BY <1>2, <1>4, <1>6, <1>10
<1>12. \A k \in wr_index[c]..(n + 1) - 1 : pending_servers'[c][k % MAX_PENDING_SIZE] = req'[c][k + 1].s
  <2> SUFFICES ASSUME NEW k \in wr_index[c]..(n + 1) - 1
               PROVE  pending_servers'[c][k % MAX_PENDING_SIZE] = req'[c][k + 1].s
    OBVIOUS
  <2>1. pending_servers[c] \in [0..MAX_PENDING_SIZE - 1 -> Servers]
    BY <1>2, ClientFields
  <2>2. CASE k = n
    BY <1>4, <1>7, <1>10, <1>11, <2>1, <2>2
  <2>3. CASE k # n
    <3>1. /\ wr_index[c] \in Nat /\ rd_index[c] \in Nat /\ n \in Nat /\ MAX_PENDING_SIZE \in Nat
          /\ rd_index[c] <= wr_index[c] /\ n - rd_index[c] < MAX_PENDING_SIZE
      BY <1>2, <1>6, <1>7
    <3>2. k \in Nat /\ k \in wr_index[c]..n - 1 /\ k < n /\ n - k < MAX_PENDING_SIZE /\ k + 1 \in 1..n
      BY <2>3, <3>1
    <3>3. k % MAX_PENDING_SIZE \in 0..MAX_PENDING_SIZE - 1 /\ k % MAX_PENDING_SIZE # n % MAX_PENDING_SIZE
      BY <1>2, <1>7, <3>2, RingSlots
    <3>4. pending_servers[c][k % MAX_PENDING_SIZE] = req[c][k + 1].s
      BY <1>1, <1>3, <3>2 DEF PendingOK
    <3> QED
      BY <1>7, <1>10, <1>11, <2>1, <3>2, <3>3, <3>4
  <2> QED
    BY <2>2, <2>3
<1>13. PendingOK(c)'
  <2>1. \A k \in rd_index[c]..wr_index[c] - 1 : pending_values[c][k % MAX_PENDING_SIZE] = k
    BY <1>3 DEF PendingOK
  <2>2. batch[c] = NoBatch
    BY <1>3 DEF PendingOK
  <2>3. /\ rd_index'[c] = rd_index[c] /\ wr_index'[c] = wr_index[c] /\ batch'[c] = batch[c]
        /\ pending_values'[c] = pending_values[c]
    BY <1>5
  <2>4. rd_index[c] <= wr_index[c] /\ wr_index[c] <= n + 1 /\ (n + 1) - rd_index[c] <= MAX_PENDING_SIZE
    BY <1>2, <1>6, <1>7
  <2> QED
    BY <1>10, <1>11, <1>12, <2>1, <2>2, <2>3, <2>4 DEF PendingOK, DoallStates, DoallWaits, WaitStates
<1>14. ClientOK(c)'
  BY <1>3, <1>5, <1>6, <1>11, <1>13 DEF ClientOK
<1>15. FirstAwaited(c)' = FirstAwaited(c) /\ NextRequest(c)' = NextRequest(c) + 1
  BY <1>1, <1>3, <1>5, <1>10 DEF FirstAwaited, NextRequest
<1>16. ASSUME NEW s \in Servers
       PROVE  /\ \A a \in Awaited(c, s) : a < n
              /\ Awaited(c, s)' = IF s = s0 THEN Awaited(c, s) \cup {n} ELSE Awaited(c, s)
              /\ s = s0 => Cardinality(Awaited(c, s)') = Cardinality(Awaited(c, s)) + 1
  BY <1>2, <1>4, <1>6, <1>10, <1>15, AwaitMore
<1>17. ASSUME NEW s \in Servers
       PROVE  Count(c, s)' = IF s = s0 THEN Count(c, s) + 1 ELSE Count(c, s)
  <2>1. pending_count[c] \in [Servers -> Int]
    BY <1>2, ClientFields
  <2> QED
    BY <1>3, <1>10, <2>1 DEF Count
<1>18. \A s \in Servers : s # s0 => SameRequests(c, s)
  BY <1>16, <1>17 DEF SameRequests
<1>19. Cardinality(Awaited(c, s0)') = Count(c, s0)' /\ Count(c, s0)' <= MAX_PENDING_PER_SERVER
  <2>1. Cardinality(Awaited(c, s0)) = Count(c, s0) /\ Count(c, s0) = pending_count[c][s0]
    BY <1>2, <1>3 DEF PipeInv, PairOK, Count
  <2> QED
    BY <1>2, <1>6, <1>16, <1>17, <2>1, Sizes
<1> QED
  BY <1>2, <1>4, <1>5, <1>8, <1>9, <1>14, <1>16, <1>18, <1>19, WriteFrame


\* The value a client reads is the answer to the oldest request it awaits.
LEMMA ReadOldest ==
  ASSUME PipeInv, NEW c \in Clients, NEW s0 \in Servers, outb_read(c, s0),
         FirstAwaited(c) < Len(req[c]), req[c][FirstAwaited(c) + 1].s = s0
  PROVE  NextValue(c, s0) = FirstAwaited(c)
<1>1. BufferTypes /\ ServerTypes /\ ClientTypes /\ ClientOK(c) /\ PairOK(c, s0)
  BY DEF PipeInv, Types
<1>2. Awaited(c, s0) \in SUBSET Nat /\ IsFiniteSet(Awaited(c, s0))
  BY <1>1, AwaitedFacts
<1>3. FirstAwaited(c) \in Awaited(c, s0) /\ \A a \in Awaited(c, s0) : FirstAwaited(c) <= a
  BY <1>1, AwaitLess
<1> QED
  BY <1>1, <1>2, <1>3, ReadPair

\* A step of client c that reads an answer from server s0.
LEMMA ReadFrame ==
  ASSUME PipeInv, NEW c \in Clients, NEW s0 \in Servers, outb_read(c, s0),
         FirstAwaited(c) < Len(req[c]), req[c][FirstAwaited(c) + 1].s = s0,
         UNCHANGED <<nclients, mainvars, inbufs, outwr, srv>>,
         ClientTypes', \A d \in Clients : d # c => SameClient(d), ClientOK(c)',
         req'[c] = req[c], FirstAwaited(c)' = FirstAwaited(c) + 1, NextRequest(c)' = NextRequest(c),
         \A s \in Servers : Count(c, s)' = IF s = s0 THEN Count(c, s) - 1 ELSE Count(c, s)
  PROVE  PipeInv'
<1>1. BufferTypes /\ ServerTypes /\ ClientTypes /\ ClientOK(c)
  BY DEF PipeInv, Types
<1>2. BufferTypes' /\ \A d \in Clients, s \in Servers : d # c \/ s # s0 => SameReader(d, s)
  BY <1>1, ReadEffect
<1>3. \A d \in Clients, s \in Servers : SameInput(d, s) /\ SameWriter(d, s)
  BY DEF SameInput, SameWriter, inbufs, outwr, srv, Served
<1>4. ASSUME NEW s \in Servers PROVE PairOK(c, s)'
  <2>1. PairOK(c, s) /\ Awaited(c, s) \in SUBSET Nat /\ IsFiniteSet(Awaited(c, s))
    BY <1>1, AwaitedFacts DEF PipeInv
  <2>2. Awaited(c, s)' = IF s0 = s THEN Awaited(c, s) \ {FirstAwaited(c)} ELSE Awaited(c, s)
    BY <1>1, AwaitLess
  <2>3. CASE s = s0
    <3>1. FirstAwaited(c) \in Awaited(c, s) /\ \A a \in Awaited(c, s) : FirstAwaited(c) <= a
      BY <1>1, <2>3, AwaitLess
    <3>2. PICK f \in Awaited(c, s) : f = FirstAwaited(c)
      BY <3>1
    <3>3. /\ outb_read(c, s) /\ (\A a \in Awaited(c, s) : f <= a)
          /\ Awaited(c, s)' = Awaited(c, s) \ {f} /\ Count(c, s)' = Count(c, s) - 1
      BY <2>2, <2>3, <3>1, <3>2
    <3> QED
      BY <1>1, <2>1, <3>3, ReadPair
  <2>4. CASE s # s0
    BY <1>2, <1>3, <2>1, <2>2, <2>4, KeepPair DEF SameRequests
  <2> QED
    BY <2>3, <2>4
<1> QED
  BY <1>2, <1>3, <1>4, ClientFrame

\* read_next_pending_value gets a value.
LEMMA ReadValueStep ==
  ASSUME PipeInv, NEW c \in Clients, cpc[c] \in WaitStates, ReadValue(c)
  PROVE  PipeInv'
<1>1. ClientTypes /\ ClientOK(c)
  BY DEF PipeInv, Types
<1>2. c \notin DoAllClients /\ PendingOK(c) /\ \A k \in held[c] : k < Len(req[c])
  BY <1>1 DEF ClientOK, DoallOK, DoallStates, DoallWaits, WaitStates
<1>3. PICK w, s0 : w = wr_index[c] /\ s0 = PendingServer(c)
  OBVIOUS
<1>4. /\ w \in Nat /\ pending_index[c] \in Nat /\ rd_index[c] \in Nat /\ rd_index[c] <= w
      /\ w < pending_index[c] /\ pending_index[c] - rd_index[c] <= MAX_PENDING_SIZE
      /\ pending_index[c] = Len(req[c])
  BY <1>1, <1>2, <1>3, ClientFields DEF PendingOK
<1>5. MAX_PENDING_SIZE \in Nat \ {0} /\ w % MAX_PENDING_SIZE \in 0..MAX_PENDING_SIZE - 1
  BY <1>4, Sizes, RingSlots
<1>6. s0 \in Servers /\ req[c][w + 1].s = s0
  <2>1. w \in wr_index[c]..pending_index[c] - 1
    BY <1>3, <1>4
  <2>2. pending_servers[c] \in [0..MAX_PENDING_SIZE - 1 -> Servers]
    BY <1>1, ClientFields
  <2> QED
    BY <1>2, <1>3, <1>5, <2>1, <2>2 DEF PendingOK, PendingServer
<1>7. FirstAwaited(c) = w /\ NextRequest(c) = pending_index[c]
  BY <1>2, <1>3 DEF FirstAwaited, NextRequest
<1>8. outb_read(c, s0) /\ NextValue(c, s0) = w
  BY <1>3, <1>4, <1>6, <1>7, ReadOldest DEF ReadValue
<1>9. PICK pc \in {"take", "limit"} :
        /\ pc = (IF call[c].op = "get" THEN "take" ELSE "limit") /\ cpc' = [cpc EXCEPT ![c] = pc]
  BY DEF ReadValue, Goto
<1>10. /\ pending_values' = [pending_values EXCEPT ![c][w % MAX_PENDING_SIZE] = w]
       /\ pending_count' = [pending_count EXCEPT ![c][s0] = pending_count[c][s0] - 1]
       /\ wr_index' = [wr_index EXCEPT ![c] = w + 1]
       /\ UNCHANGED <<nclients, mainvars, inbufs, outwr, pending_servers, rd_index, pending_index,
                      call, req, held, batch, srv>>
  BY <1>3, <1>8 DEF ReadValue
<1>11. ClientTypes'
  <2>1. cpc' \in [Clients -> ClientStates] /\ wr_index' \in [Clients -> Nat]
    BY <1>1, <1>4, <1>9, <1>10 DEF ClientTypes, ClientStates
  <2>2. pending_count[c][s0] - 1 \in Int
    BY <1>1, <1>6, ClientFields
  <2>3. pending_count' \in [Clients -> [Servers -> Int]]
    BY <1>1, <1>6, <1>10, <2>2 DEF ClientTypes
  <2>4. pending_values' \in [Clients -> [0..MAX_PENDING_SIZE - 1 -> Nat]]
    BY <1>1, <1>4, <1>5, <1>10 DEF ClientTypes
  <2> QED
    BY <1>1, <1>10, <2>1, <2>3, <2>4 DEF ClientTypes
<1>12. \A d \in Clients : d # c => SameClient(d)
  BY <1>1, <1>9, <1>10 DEF SameClient, ClientTypes
<1>13. /\ pending_values'[c] = [pending_values[c] EXCEPT ![w % MAX_PENDING_SIZE] = w]
       /\ pending_count'[c] = [pending_count[c] EXCEPT ![s0] = pending_count[c][s0] - 1]
       /\ wr_index'[c] = w + 1 /\ cpc'[c] = pc
  BY <1>1, <1>9, <1>10 DEF ClientTypes
<1>14. \A k \in rd_index[c]..(w + 1) - 1 : pending_values'[c][k % MAX_PENDING_SIZE] = k
  <2> SUFFICES ASSUME NEW k \in rd_index[c]..(w + 1) - 1
               PROVE  pending_values'[c][k % MAX_PENDING_SIZE] = k
    OBVIOUS
  <2>1. pending_values[c] \in [0..MAX_PENDING_SIZE - 1 -> Nat]
    BY <1>1, ClientFields
  <2>2. CASE k = w
    BY <1>5, <1>13, <2>1, <2>2
  <2>3. CASE k # w
    <3>1. k \in Nat /\ k \in rd_index[c]..w - 1 /\ k < w /\ w - k < MAX_PENDING_SIZE
      BY <1>4, <1>5, <2>3
    <3>2. k % MAX_PENDING_SIZE \in 0..MAX_PENDING_SIZE - 1 /\ k % MAX_PENDING_SIZE # w % MAX_PENDING_SIZE
      BY <1>4, <1>5, <3>1, RingSlots
    <3>3. pending_values[c][k % MAX_PENDING_SIZE] = k
      BY <1>2, <1>3, <3>1 DEF PendingOK
    <3> QED
      BY <1>5, <1>13, <2>1, <3>2, <3>3
  <2> QED
    BY <2>2, <2>3
<1>15. PendingOK(c)'
  <2>1. /\ rd_index'[c] = rd_index[c] /\ pending_index'[c] = pending_index[c] /\ batch'[c] = NoBatch
        /\ pending_servers'[c] = pending_servers[c] /\ req'[c] = req[c] /\ call'[c] = call[c]
    BY <1>2, <1>10 DEF PendingOK
  <2>2. \A k \in w + 1..pending_index[c] - 1 : pending_servers[c][k % MAX_PENDING_SIZE] = req[c][k + 1].s
    <3>1. \A k \in w + 1..pending_index[c] - 1 : k \in wr_index[c]..pending_index[c] - 1
      BY <1>3, <1>4
    <3> QED
      BY <1>2, <3>1 DEF PendingOK
  <2>3. rd_index[c] <= w + 1 /\ w + 1 <= pending_index[c]
    BY <1>4
  <2>4. pc = "limit" => call[c].op \in {"lookup", "insert"}
    BY <1>2, <1>9 DEF PendingOK
  <2>5. call[c].op \in {"lookup", "insert"} => pending_index[c] - rd_index[c] < MAX_PENDING_SIZE
    BY <1>2 DEF PendingOK
  <2> QED
    BY <1>4, <1>13, <1>14, <2>1, <2>2, <2>3, <2>4, <2>5 DEF PendingOK, DoallStates, DoallWaits, WaitStates
<1>16. ClientOK(c)'
  BY <1>2, <1>10, <1>15 DEF ClientOK
<1>17. FirstAwaited(c)' = FirstAwaited(c) + 1 /\ NextRequest(c)' = NextRequest(c) /\ req'[c] = req[c]
  BY <1>2, <1>7, <1>10, <1>13 DEF FirstAwaited, NextRequest
<1>18. \A s \in Servers : Count(c, s)' = IF s = s0 THEN Count(c, s) - 1 ELSE Count(c, s)
  <2>1. pending_count[c] \in [Servers -> Int]
    BY <1>1, ClientFields
  <2> QED
    BY <1>2, <1>13, <2>1 DEF Count
<1> QED
  BY <1>4, <1>6, <1>7, <1>8, <1>10, <1>11, <1>12, <1>16, <1>17, <1>18, ReadFrame

LEMMA TryReadStep ==
  ASSUME PipeInv, NEW c \in Clients, TryRead(c)
  PROVE  PipeInv'
<1>1. ClientTypes /\ ClientOK(c) /\ cpc[c] = "read" /\ cpc[c] \in WaitStates /\ call[c] \in Calls
  BY ClientFields DEF PipeInv, Types, TryRead, WaitStates
<1>2. CASE ReadValue(c)
  BY <1>1, <1>2, ReadValueStep
<1>3. CASE Goto(c, "flush") /\ UNCHANGED <<nclients, mainvars, inbufs, outrd, outwr, pending, call, req, held, batch, srv>>
  <2>1. Moves(c, "flush", call[c]) /\ UNCHANGED <<nclients, mainvars, inbufs, outrd, outwr, srv>>
    BY <1>1, <1>3 DEF Goto, Moves, ClientTypes
  <2>2. /\ ClientTypes' /\ (\A d \in Clients : d # c => SameClient(d))
        /\ (\A t \in Servers : SameRequests(c, t)) /\ cpc'[c] = "flush" /\ call'[c] = call[c]
    BY <1>1, <2>1, MovesEffect DEF ClientStates, WaitStates
  <2>3. ClientOK(c)'
    BY <1>1, <2>1, <2>2, WaitOK DEF Moves, WaitStates
  <2> QED
    BY <2>1, <2>2, <2>3, ControlFrame
<1> QED
  BY <1>2, <1>3 DEF TryRead

LEMMA GetNextStep ==
  ASSUME PipeInv, NEW c \in Clients, smp_get_next(c)
  PROVE  PipeInv'
<1> DEFINE k == [NoCall EXCEPT !.op = "get"]
<1>1. ClientTypes /\ ClientOK(c) /\ rd_index[c] # pending_index[c] /\ rd_index[c] = wr_index[c]
  BY DEF PipeInv, Types, smp_get_next
<1>2. c \notin DoAllClients /\ PendingOK(c) /\ \A n \in held[c] : n < Len(req[c])
  BY <1>1 DEF ClientOK, DoallOK
<1>3. k \in Calls /\ k.op = "get"
  BY Sizes DEF NoCall, Calls
<1> HIDE DEF k
<1>4. Moves(c, "read", k) /\ UNCHANGED <<nclients, mainvars, inbufs, outrd, outwr, srv>>
  BY DEF smp_get_next, Goto, Moves, k
<1>5. wr_index[c] < pending_index[c]
  BY <1>1, <1>2, ClientFields DEF PendingOK
<1>6. /\ ClientTypes' /\ (\A d \in Clients : d # c => SameClient(d))
      /\ (\A t \in Servers : SameRequests(c, t)) /\ cpc'[c] = "read" /\ call'[c] = k
  BY <1>1, <1>3, <1>4, MovesEffect DEF ClientStates, WaitStates
<1>7. PendingOK(c)'
  BY <1>2, <1>3, <1>4, <1>5, <1>6 DEF PendingOK, Moves, pending, DoallStates, DoallWaits, WaitStates
<1>8. ClientOK(c)'
  BY <1>2, <1>4, <1>7 DEF ClientOK, Moves
<1> QED
  BY <1>4, <1>6, <1>8, ControlFrame

LEMMA TakeStep ==
  ASSUME PipeInv, NEW c \in Clients, TakeValue(c)
  PROVE  PipeInv'
<1>1. ClientTypes /\ ClientOK(c) /\ rd_index[c] # wr_index[c]
  BY DEF PipeInv, Types, TakeValue
<1>2. c \notin DoAllClients /\ PendingOK(c) /\ \A k \in held[c] : k < Len(req[c])
  BY <1>1 DEF ClientOK, DoallOK
<1>3. PICK n : n = rd_index[c]
  OBVIOUS
<1>4. /\ n \in Nat /\ wr_index[c] \in Nat /\ pending_index[c] \in Nat /\ n < wr_index[c]
      /\ wr_index[c] <= pending_index[c] /\ pending_index[c] = Len(req[c])
      /\ pending_index[c] - n <= MAX_PENDING_SIZE /\ held[c] \in SUBSET Nat
  BY <1>1, <1>2, <1>3, ClientFields DEF PendingOK
<1>5. pending_values[c][n % MAX_PENDING_SIZE] = n
  <2>1. n \in rd_index[c]..wr_index[c] - 1
    BY <1>3, <1>4
  <2> QED
    BY <1>2, <2>1 DEF PendingOK
<1>6. /\ cpc' = [cpc EXCEPT ![c] = "idle"] /\ call' = [call EXCEPT ![c] = NoCall]
      /\ held' = [held EXCEPT ![c] = held[c] \cup {n}] /\ rd_index' = [rd_index EXCEPT ![c] = n + 1]
      /\ UNCHANGED <<nclients, mainvars, inbufs, outrd, outwr, pending_values, pending_servers,
                     wr_index, pending_index, pending_count, req, batch, srv>>
  BY <1>3, <1>5 DEF TakeValue, Return, Goto
<1>7. held[c] \cup {n} \in SUBSET Nat
  BY <1>4
<1>8. ClientTypes'
  <2>1. /\ cpc' \in [Clients -> ClientStates] /\ call' \in [Clients -> Calls]
    BY <1>1, <1>6, NothingTyped DEF ClientTypes, ClientStates
  <2>2. /\ held' \in [Clients -> SUBSET Nat] /\ rd_index' \in [Clients -> Nat]
    <3>1. n + 1 \in Nat /\ held \in [Clients -> SUBSET Nat] /\ rd_index \in [Clients -> Nat]
      BY <1>1, <1>4 DEF ClientTypes
    <3> QED
      BY <1>6, <1>7, <3>1
  <2> QED
    BY <1>1, <1>6, <2>1, <2>2 DEF ClientTypes
<1>9. \A d \in Clients : d # c => SameClient(d)
  BY <1>1, <1>6 DEF SameClient, ClientTypes
<1>10. cpc'[c] = "idle" /\ call'[c] = NoCall /\ held'[c] = held[c] \cup {n} /\ rd_index'[c] = n + 1
  BY <1>1, <1>6 DEF ClientTypes
<1>11. PendingOK(c)'
  <2>1. \A k \in n + 1..wr_index[c] - 1 : pending_values[c][k % MAX_PENDING_SIZE] = k
    <3>1. \A k \in n + 1..wr_index[c] - 1 : k \in rd_index[c]..wr_index[c] - 1
      BY <1>3, <1>4
    <3> QED
      BY <1>2, <3>1 DEF PendingOK
  <2>2. n + 1 <= wr_index[c] /\ pending_index[c] - (n + 1) <= MAX_PENDING_SIZE
    BY <1>4, Sizes
  <2> QED
    BY <1>2, <1>6, <1>10, <2>1, <2>2 DEF PendingOK, DoallStates, DoallWaits, WaitStates
<1>12. ClientOK(c)'
  <2>1. \A k \in held[c] \cup {n} : k < Len(req[c])
    BY <1>2, <1>4
  <2> QED
    BY <1>2, <1>6, <1>10, <1>11, <2>1 DEF ClientOK
<1>13. \A t \in Servers : SameRequests(c, t)
  BY <1>6, StillAwaited
<1> QED
  BY <1>6, <1>8, <1>9, <1>12, <1>13, ControlFrame


-----------------------------------------------------------------------------
(* The steps of smp_hash_doall *)

\* A client in smp_hash_doall is one that uses it, with its batch well formed.
LEMMA DoallFields ==
  ASSUME ClientTypes, NEW c \in Clients, ClientOK(c), cpc[c] \in DoallStates
  PROVE  /\ c \in DoAllClients /\ DoallOK(c) /\ (\A k \in held[c] : k < Len(req[c]))
         /\ batch[c] \in BatchTypes /\ batch[c].i \in Nat /\ batch[c].flushed \in Nat
         /\ batch[c].pending_count \in [Servers -> Int] /\ batch[c].values \in Seq(Nat)
         /\ Len(batch[c].q) \in Nat /\ Len(batch[c].values) \in Nat
         /\ Len(batch[c].values) <= batch[c].i /\ batch[c].i <= Len(batch[c].q) /\ batch[c].i <= Len(req[c])
         /\ \A k \in 1..Len(batch[c].q) : batch[c].q[k] \in Queries /\ batch[c].q[k].s \in Servers
<1>1. c \in DoAllClients /\ DoallOK(c) /\ \A k \in held[c] : k < Len(req[c])
  BY DEF ClientOK, PendingOK
<1>2. batch[c] \in BatchTypes
  BY ClientFields
<1>3. /\ batch[c].i \in Nat /\ batch[c].flushed \in Nat
      /\ batch[c].pending_count \in [Servers -> Int] /\ batch[c].values \in Seq(Nat)
      /\ Len(batch[c].q) \in Nat /\ Len(batch[c].values) \in Nat
      /\ \A k \in 1..Len(batch[c].q) : batch[c].q[k] \in Queries
  BY <1>2, BatchFields
<1>4. Len(batch[c].values) <= batch[c].i /\ batch[c].i <= Len(batch[c].q) /\ batch[c].i <= Len(req[c])
  BY <1>1 DEF DoallOK
<1>5. \A k \in 1..Len(batch[c].q) : batch[c].q[k].s \in Servers
  BY <1>3, QueryFields
<1> QED
  BY <1>1, <1>2, <1>3, <1>4, <1>5

LEMMA DoallCallStep ==
  ASSUME PipeInv, NEW c \in Clients, NEW n \in Nat, NEW q \in [1..n -> [op : Ops, s : Servers]],
         smp_hash_doall(c, q)
  PROVE  PipeInv'
<1>1. ClientTypes /\ ClientOK(c) /\ cpc[c] = "idle" /\ c \in DoAllClients
  BY DEF PipeInv, Types, smp_hash_doall, MayCall
<1>2. DoallOK(c) /\ batch[c] = NoBatch /\ \A k \in held[c] : k < Len(req[c])
  BY <1>1 DEF ClientOK, DoallOK, DoallStates, DoallWaits
<1>3. q \in Seq(Queries)
  <2>1. [op : Ops, s : Servers] \subseteq Queries
    BY SizesAssumption DEF Queries
  <2>2. q \in [1..n -> Queries]
    BY <2>1
  <2> QED
    BY <2>2
<1>4. PICK b : b = [NoBatch EXCEPT !.q = q]
  OBVIOUS
<1>5. /\ b.q = q /\ b.i = 0 /\ b.values = <<>> /\ b.flushed = 0 /\ b.pending_count = NoBatch.pending_count
      /\ b \in BatchTypes
  <2>1. b = [q |-> q, i |-> 0, pending_count |-> [s \in Servers |-> 0], values |-> <<>>, flushed |-> 0]
    BY <1>4 DEF NoBatch
  <2>2. b \in BatchTypes
    BY <1>3, <2>1 DEF BatchTypes
  <2>3. b.q = q /\ b.i = 0 /\ b.values = <<>> /\ b.flushed = 0 /\ b.pending_count = [s \in Servers |-> 0]
    BY <2>1
  <2>4. NoBatch.pending_count = [s \in Servers |-> 0]
    BY DEF NoBatch
  <2> QED
    BY <2>2, <2>3, <2>4
<1>6. /\ batch' = [batch EXCEPT ![c] = b] /\ cpc' = [cpc EXCEPT ![c] = "doall"]
      /\ UNCHANGED <<nclients, mainvars, inbufs, outrd, outwr, pending, call, req, held, srv>>
  BY <1>4 DEF smp_hash_doall, Goto
<1>7. ClientTypes'
  BY <1>1, <1>5, <1>6 DEF ClientTypes, ClientStates, DoallStates, pending
<1>8. \A d \in Clients : d # c => SameClient(d)
  BY <1>1, <1>6 DEF SameClient, ClientTypes, pending
<1>9. batch'[c] = b /\ cpc'[c] = "doall" /\ req'[c] = req[c] /\ held'[c] = held[c]
  BY <1>1, <1>6 DEF ClientTypes
<1>10. DoallOK(c)'
  <2>1. Len(b.values) = 0 /\ Len(b.q) \in Nat /\ Len(req[c]) \in Nat
    BY <1>1, <1>3, <1>5, ClientFields
  <2>2. /\ rd_index'[c] = 0 /\ wr_index'[c] = 0 /\ pending_index'[c] = 0
        /\ \A s \in Servers : pending_count'[c][s] = 0
    BY <1>2, <1>6 DEF DoallOK, pending
  <2> QED
    BY <1>5, <1>9, <2>1, <2>2 DEF DoallOK, DoallStates, DoallWaits
<1>11. ClientOK(c)'
  BY <1>1, <1>2, <1>9, <1>10 DEF ClientOK
<1>12. ASSUME NEW s \in Servers PROVE SameRequests(c, s)
  <2>1. FirstAwaited(c)' = FirstAwaited(c) /\ NextRequest(c)' = NextRequest(c)
    BY <1>1, <1>2, <1>5, <1>9, NothingTyped DEF FirstAwaited, NextRequest
  <2>2. Awaited(c, s)' = Awaited(c, s)
    BY <1>9, <2>1 DEF Awaited
  <2>3. Count(c, s)' = Count(c, s)
    BY <1>1, <1>2, <1>5, <1>9 DEF Count
  <2> QED
    BY <2>2, <2>3 DEF SameRequests
<1> QED
  BY <1>6, <1>7, <1>8, <1>11, <1>12, ControlFrame

LEMMA DoallLimitStep ==
  ASSUME PipeInv, NEW c \in Clients, DoallLimit(c)
  PROVE  PipeInv'
<1>1. ClientTypes /\ ClientOK(c) /\ cpc[c] = "doall" /\ cpc[c] \in DoallStates /\ call[c] \in Calls
  BY ClientFields DEF PipeInv, Types, DoallLimit, DoallStates
<1>2. PICK b : b = batch[c]
  OBVIOUS
<1>3. /\ c \in DoAllClients /\ DoallOK(c) /\ (\A k \in held[c] : k < Len(req[c]))
      /\ b.i \in Nat /\ b.pending_count \in [Servers -> Int] /\ Len(b.q) \in Nat /\ Len(b.values) \in Nat
      /\ b.i <= Len(b.q) /\ \A k \in 1..Len(b.q) : b.q[k].s \in Servers
  BY <1>1, <1>2, DoallFields
<1>4. PICK pc \in {"doall_end", "doall_read", "doall_send"} :
        pc = IF b.i = Len(b.q) THEN "doall_end"
             ELSE IF b.pending_count[b.q[b.i + 1].s] >= MAX_PENDING_PER_SERVER
               THEN "doall_read" ELSE "doall_send"
  OBVIOUS
<1>5. Moves(c, pc, call[c]) /\ UNCHANGED <<nclients, mainvars, inbufs, outrd, outwr, srv>>
  BY <1>1, <1>2, <1>4 DEF DoallLimit, Goto, Moves, ClientTypes
<1>6. pc \in ClientStates /\ pc \in DoallStates
  BY DEF ClientStates, DoallStates, DoallWaits
<1>7. /\ ClientTypes' /\ (\A d \in Clients : d # c => SameClient(d))
      /\ (\A t \in Servers : SameRequests(c, t)) /\ cpc'[c] = pc /\ call'[c] = call[c]
  BY <1>1, <1>5, <1>6, MovesEffect
<1>8. pc = "doall_end" => b.i = Len(b.q)
  BY <1>4
<1>9. pc # "doall_end" => b.i + 1 \in 1..Len(b.q) /\ b.q[b.i + 1].s \in Servers /\ b.i < Len(b.q)
  BY <1>3, <1>4
<1>10. pc = "doall_send" => b.pending_count[b.q[b.i + 1].s] < MAX_PENDING_PER_SERVER
  <2> SUFFICES ASSUME pc = "doall_send"
               PROVE  b.pending_count[b.q[b.i + 1].s] < MAX_PENDING_PER_SERVER
    OBVIOUS
  <2>1. ~(b.pending_count[b.q[b.i + 1].s] >= MAX_PENDING_PER_SERVER)
    BY <1>4
  <2>2. b.pending_count[b.q[b.i + 1].s] \in Int
    BY <1>3, <1>9
  <2> QED
    BY <2>1, <2>2, Sizes
<1>11. pc = "doall_read" => Len(b.values) < b.i
  <2> SUFFICES ASSUME pc = "doall_read" PROVE Len(b.values) < b.i
    OBVIOUS
  <2>1. b.pending_count[b.q[b.i + 1].s] >= MAX_PENDING_PER_SERVER
    BY <1>4
  <2>2. b.pending_count[b.q[b.i + 1].s] \in Int /\ b.q[b.i + 1].s \in Servers
    BY <1>3, <1>9
  <2>3. b.pending_count[b.q[b.i + 1].s] >= 1
    BY <2>1, <2>2, Sizes
  <2>4. Count(c, b.q[b.i + 1].s) >= 1 /\ b.q[b.i + 1].s \in Servers
    BY <1>2, <1>3, <2>2, <2>3 DEF Count
  <2>5. FirstAwaited(c) < Len(req[c])
    BY <2>4, SomethingAwaited
  <2>6. Len(req[c]) \in Nat
    BY <1>1, ClientFields
  <2> QED
    BY <1>2, <1>3, <2>5, <2>6 DEF FirstAwaited
<1>12. DoallOK(c)'
  BY <1>2, <1>3, <1>5, <1>6, <1>7, <1>8, <1>9, <1>10, <1>11 DEF DoallOK, Moves, pending, DoallStates, DoallWaits
<1>13. ClientOK(c)'
  BY <1>3, <1>5, <1>12 DEF ClientOK, Moves
<1> QED
  BY <1>5, <1>7, <1>13, ControlFrame

\* A client in a batch that waits for an answer moves on to the next way of waiting.
LEMMA DoallWaitOK ==
  ASSUME NEW c \in Clients, ClientOK(c), cpc[c] \in DoallWaits, cpc'[c] \in DoallWaits,
         UNCHANGED <<pending, req, held, batch>>
  PROVE  ClientOK(c)'
<1>1. c \in DoAllClients /\ DoallOK(c) /\ \A n \in held[c] : n < Len(req[c])
  BY DEF ClientOK, PendingOK, DoallStates
<1>2. DoallOK(c)'
  BY <1>1 DEF DoallOK, DoallStates, DoallWaits, pending
<1> QED
  BY <1>1, <1>2 DEF ClientOK

\* The server of the oldest query without an answer.
LEMMA DoallServerIs ==
  ASSUME ClientTypes, NEW c \in Clients, ClientOK(c), cpc[c] \in DoallStates,
         Len(batch[c].values) < batch[c].i
  PROVE  /\ DoallServer(c) \in Servers
         /\ FirstAwaited(c) < Len(req[c]) /\ req[c][FirstAwaited(c) + 1].s = DoallServer(c)
         /\ FirstAwaited(c) = Len(req[c]) - batch[c].i + Len(batch[c].values)
<1>1. PICK b, k : b = batch[c] /\ k = Len(batch[c].values) + 1
  OBVIOUS
<1>2. /\ c \in DoAllClients /\ DoallOK(c) /\ b.i \in Nat /\ Len(b.values) \in Nat /\ Len(b.q) \in Nat
      /\ b.i <= Len(b.q) /\ b.i <= Len(req[c]) /\ Len(req[c]) \in Nat
      /\ \A j \in 1..Len(b.q) : b.q[j].s \in Servers
  BY <1>1, DoallFields, ClientFields
<1>3. k \in 1..b.i /\ k \in 1..Len(b.q) /\ k = Len(b.values) + 1
  BY <1>1, <1>2
<1>4. FirstAwaited(c) = Len(req[c]) - b.i + Len(b.values)
  BY <1>1, <1>2 DEF FirstAwaited
<1>5. FirstAwaited(c) + 1 = Len(req[c]) - b.i + k /\ FirstAwaited(c) < Len(req[c])
  <2>1. PICK l, v, i : l = Len(req[c]) /\ v = Len(b.values) /\ i = b.i
    OBVIOUS
  <2>2. l \in Nat /\ v \in Nat /\ i \in Nat /\ v < i /\ k = v + 1
    BY <1>1, <1>2, <1>3, <2>1
  <2>3. (l - i + v) + 1 = l - i + k /\ l - i + v < l
    BY <2>2
  <2> QED
    BY <1>4, <2>1, <2>3
<1>6. req[c][Len(req[c]) - b.i + k] = b.q[k]
  BY <1>1, <1>2, <1>3 DEF DoallOK
<1> QED
  BY <1>1, <1>2, <1>3, <1>4, <1>5, <1>6 DEF DoallServer

LEMMA DoallFlushStep ==
  ASSUME PipeInv, NEW c \in Clients, DoallFlush(c)
  PROVE  PipeInv'
<1>1. /\ ClientTypes /\ ClientOK(c) /\ cpc[c] = "doall_flush" /\ cpc[c] \in DoallStates /\ cpc[c] \in DoallWaits
      /\ call[c] \in Calls /\ inpb_flush(c, DoallServer(c))
  BY ClientFields DEF PipeInv, Types, DoallFlush, DoallStates, DoallWaits
<1>2. DoallServer(c) \in Servers
  <2>1. Len(batch[c].values) < batch[c].i
    BY <1>1 DEF ClientOK, PendingOK, DoallOK
  <2> QED
    BY <1>1, <2>1, DoallServerIs
<1>3. Moves(c, "doall_block", call[c]) /\ UNCHANGED <<nclients, mainvars, outrd, outwr, srv>>
  BY <1>1 DEF DoallFlush, Goto, Moves, ClientTypes
<1>4. /\ ClientTypes' /\ (\A d \in Clients : d # c => SameClient(d))
      /\ (\A t \in Servers : SameRequests(c, t)) /\ cpc'[c] = "doall_block"
  BY <1>1, <1>3, MovesEffect DEF ClientStates, DoallStates, DoallWaits
<1>5. ClientOK(c)'
  BY <1>1, <1>3, <1>4, DoallWaitOK DEF Moves, DoallWaits
<1> QED
  BY <1>1, <1>2, <1>3, <1>4, <1>5, FlushFrame


\* A step of smp_hash_doall: to pc, with batch b.
InBatch(c, pc, b) ==
  /\ cpc' = [cpc EXCEPT ![c] = pc] /\ batch' = [batch EXCEPT ![c] = b]
  /\ UNCHANGED <<pending, call>>

LEMMA InBatchEffect ==
  ASSUME ClientTypes, NEW c \in Clients, NEW pc \in ClientStates, NEW b \in BatchTypes, InBatch(c, pc, b),
         req' \in [Clients -> Seq(Queries)], held' \in [Clients -> SUBSET Nat],
         \A d \in Clients : d # c => req'[d] = req[d] /\ held'[d] = held[d]
  PROVE  /\ ClientTypes' /\ \A d \in Clients : d # c => SameClient(d)
         /\ cpc'[c] = pc /\ batch'[c] = b
<1>1. ClientTypes'
  BY DEF ClientTypes, InBatch, pending
<1>2. \A d \in Clients : d # c => SameClient(d)
  BY DEF ClientTypes, InBatch, pending, SameClient
<1>3. cpc'[c] = pc /\ batch'[c] = b
  BY DEF ClientTypes, InBatch
<1> QED
  BY <1>1, <1>2, <1>3

\* An answer of the batch is read.
LEMMA DoallValueStep ==
  ASSUME PipeInv, NEW c \in Clients, cpc[c] \in DoallStates, Len(batch[c].values) < batch[c].i,
         DoallValue(c), NEW pc \in {"doall", "doall_end"}, cpc' = [cpc EXCEPT ![c] = pc],
         pc = "doall_end" => batch[c].i = Len(batch[c].q)
  PROVE  PipeInv'
<1>1. ClientTypes /\ ClientOK(c) /\ req[c] \in Seq(Queries) /\ Len(req[c]) \in Nat
  BY ClientFields DEF PipeInv, Types
<1>2. PICK b, s0, v : b = batch[c] /\ s0 = DoallServer(c) /\ v = NextValue(c, s0)
  OBVIOUS
<1>3. /\ c \in DoAllClients /\ DoallOK(c) /\ (\A k \in held[c] : k < Len(req[c]))
      /\ b \in BatchTypes /\ b.i \in Nat /\ b.pending_count \in [Servers -> Int] /\ b.values \in Seq(Nat)
      /\ Len(b.values) \in Nat /\ b.i <= Len(req[c]) /\ Len(b.q) \in Nat
  BY <1>1, <1>2, DoallFields
<1>4. /\ s0 \in Servers /\ FirstAwaited(c) < Len(req[c]) /\ req[c][FirstAwaited(c) + 1].s = s0
      /\ FirstAwaited(c) = Len(req[c]) - b.i + Len(b.values)
  BY <1>1, <1>2, DoallServerIs
<1>5. outb_read(c, s0) /\ v = FirstAwaited(c)
  BY <1>2, <1>4, ReadOldest DEF DoallValue
<1>6. PICK l, h, i : l = Len(req[c]) /\ h = Len(b.values) /\ i = b.i
  OBVIOUS
<1>7. l \in Nat /\ h \in Nat /\ i \in Nat /\ h < i /\ i <= l /\ v = l - i + h /\ v \in Nat
  <2>1. l \in Nat /\ h \in Nat /\ i \in Nat /\ h < i /\ i <= l
    BY <1>1, <1>2, <1>3, <1>6
  <2>2. v = l - i + h
    BY <1>4, <1>5, <1>6
  <2> QED
    BY <2>1, <2>2
<1>8. PICK e \in BatchTypes :
        /\ e.q = b.q /\ e.i = b.i /\ e.flushed = b.flushed /\ e.values = Append(b.values, v)
        /\ e.pending_count = [b.pending_count EXCEPT ![s0] = b.pending_count[s0] - 1]
        /\ batch' = [batch EXCEPT ![c] = e]
  <2> DEFINE p == [b.pending_count EXCEPT ![s0] = b.pending_count[s0] - 1]
             w == Append(b.values, v)
             e == [b EXCEPT !.values = w, !.pending_count = p]
  <2>1. b.pending_count[s0] - 1 \in Int
    BY <1>3, <1>4
  <2>2. p \in [Servers -> Int]
    BY <1>3, <1>4, <2>1
  <2>3. w \in Seq(Nat)
    BY <1>3, <1>7
  <2>4. batch' = [batch EXCEPT ![c] = e]
    BY <1>1, <1>2, ZenonT(30) DEF DoallValue, ClientTypes
  <2> HIDE DEF p, w
  <2>5. e \in BatchTypes /\ e.q = b.q /\ e.i = b.i /\ e.flushed = b.flushed /\ e.values = w /\ e.pending_count = p
    BY <1>3, <2>2, <2>3 DEF BatchTypes
  <2> HIDE DEF e
  <2> QED
    BY <2>4, <2>5 DEF p, w
<1>9. InBatch(c, pc, e) /\ UNCHANGED <<nclients, mainvars, inbufs, outwr, req, held, srv>>
  BY <1>8 DEF DoallValue, InBatch
<1>10. pc \in ClientStates /\ pc \in DoallStates /\ pc \notin DoallWaits
  BY DEF ClientStates, DoallStates, DoallWaits
<1>11. /\ ClientTypes' /\ (\A d \in Clients : d # c => SameClient(d))
       /\ cpc'[c] = pc /\ batch'[c] = e /\ req'[c] = req[c] /\ held'[c] = held[c]
  BY <1>1, <1>9, <1>10, InBatchEffect DEF ClientTypes
<1>12. Len(e.values) = h + 1 /\ \A k \in 1..h + 1 : e.values[k] = l - i + k - 1
  <2>1. /\ Len(e.values) = h + 1 /\ e.values[h + 1] = v
        /\ \A k \in 1..h : e.values[k] = b.values[k]
    BY <1>3, <1>6, <1>7, <1>8
  <2>2. \A k \in 1..h : b.values[k] = l - i + k - 1
    BY <1>2, <1>3, <1>6 DEF DoallOK
  <2>3. v = l - i + (h + 1) - 1
    BY <1>7
  <2> QED
    BY <1>7, <2>1, <2>2, <2>3
<1>13. DoallOK(c)'
  <2>1. /\ rd_index'[c] = 0 /\ wr_index'[c] = 0 /\ pending_index'[c] = 0
        /\ \A s \in Servers : pending_count'[c][s] = 0
    BY <1>3, <1>9 DEF DoallOK, InBatch, pending
  <2>2. /\ e.i <= Len(e.q) /\ e.i <= Len(req[c]) /\ Len(e.values) <= e.i
        /\ pc = "doall_end" => e.i = Len(e.q)
    BY <1>2, <1>3, <1>6, <1>7, <1>8, <1>12 DEF DoallOK
  <2>3. \A k \in 1..e.i : req[c][Len(req[c]) - e.i + k] = e.q[k]
    BY <1>2, <1>3, <1>8 DEF DoallOK
  <2>4. \A k \in 1..Len(e.values) : e.values[k] = Len(req[c]) - e.i + k - 1
    BY <1>6, <1>8, <1>12
  <2>5. pc # "send" /\ pc # "doall_send"
    OBVIOUS
  <2> QED
    BY <1>10, <1>11, <2>1, <2>2, <2>3, <2>4, <2>5 DEF DoallOK
<1>14. ClientOK(c)'
  BY <1>3, <1>11, <1>13 DEF ClientOK
<1>15. FirstAwaited(c)' = FirstAwaited(c) + 1 /\ NextRequest(c)' = NextRequest(c)
  <2>1. FirstAwaited(c)' = l - i + (h + 1)
    BY <1>3, <1>6, <1>8, <1>11, <1>12 DEF FirstAwaited
  <2>2. FirstAwaited(c) = l - i + h
    BY <1>5, <1>7
  <2>3. l - i + (h + 1) = (l - i + h) + 1
    BY <1>7
  <2> QED
    BY <1>3, <1>11, <2>1, <2>2, <2>3 DEF NextRequest
<1>16. \A s \in Servers : Count(c, s)' = IF s = s0 THEN Count(c, s) - 1 ELSE Count(c, s)
  BY <1>2, <1>3, <1>8, <1>11 DEF Count
<1> QED
  BY <1>4, <1>5, <1>9, <1>11, <1>14, <1>15, <1>16, ReadFrame

LEMMA DoallReadStep ==
  ASSUME PipeInv, NEW c \in Clients, DoallRead(c)
  PROVE  PipeInv'
<1>1. /\ ClientTypes /\ ClientOK(c) /\ cpc[c] = "doall_read" /\ cpc[c] \in DoallStates /\ cpc[c] \in DoallWaits
      /\ call[c] \in Calls
  BY ClientFields DEF PipeInv, Types, DoallRead, DoallStates, DoallWaits
<1>2. Len(batch[c].values) < batch[c].i
  BY <1>1 DEF ClientOK, PendingOK, DoallOK
<1>3. CASE DoallValue(c) /\ Goto(c, "doall")
  BY <1>1, <1>2, <1>3, DoallValueStep DEF Goto
<1>4. CASE Goto(c, "doall_flush") /\ UNCHANGED <<nclients, mainvars, inbufs, outrd, outwr, pending, call, req, held, batch, srv>>
  <2>1. Moves(c, "doall_flush", call[c]) /\ UNCHANGED <<nclients, mainvars, inbufs, outrd, outwr, srv>>
    BY <1>1, <1>4 DEF Goto, Moves, ClientTypes
  <2>2. /\ ClientTypes' /\ (\A d \in Clients : d # c => SameClient(d))
        /\ (\A t \in Servers : SameRequests(c, t)) /\ cpc'[c] = "doall_flush"
    BY <1>1, <2>1, MovesEffect DEF ClientStates, DoallStates, DoallWaits
  <2>3. ClientOK(c)'
    BY <1>1, <2>1, <2>2, DoallWaitOK DEF Moves, DoallWaits
  <2> QED
    BY <2>1, <2>2, <2>3, ControlFrame
<1> QED
  BY <1>3, <1>4 DEF DoallRead

LEMMA DoallBlockStep ==
  ASSUME PipeInv, NEW c \in Clients, DoallBlock(c)
  PROVE  PipeInv'
<1>1. ClientOK(c) /\ cpc[c] = "doall_block" /\ cpc[c] \in DoallStates /\ cpc[c] \in DoallWaits
  BY DEF PipeInv, DoallBlock, DoallStates, DoallWaits
<1>2. Len(batch[c].values) < batch[c].i
  BY <1>1 DEF ClientOK, PendingOK, DoallOK
<1> QED
  BY <1>1, <1>2, DoallValueStep DEF DoallBlock, Goto

LEMMA DoallDrainStep ==
  ASSUME PipeInv, NEW c \in Clients, DoallDrain(c)
  PROVE  PipeInv'
<1>1. ClientTypes /\ ClientOK(c) /\ cpc[c] = "doall_end" /\ cpc[c] \in DoallStates
  BY DEF PipeInv, Types, DoallDrain, DoallStates, DoallWaits
<1>2. batch[c].i = Len(batch[c].q) /\ Len(batch[c].values) < batch[c].i
  BY <1>1 DEF ClientOK, PendingOK, DoallOK, DoallDrain
<1>3. cpc' = [cpc EXCEPT ![c] = "doall_end"]
  BY <1>1 DEF DoallDrain, ClientTypes
<1> QED
  BY <1>1, <1>2, <1>3, DoallValueStep DEF DoallDrain

\* How doall_send changes the batch of the client.
LEMMA DoallSendBatch ==
  ASSUME NEW c \in Clients, DoallSend(c), ClientTypes, NEW i, NEW s0,
         i = batch[c].i, s0 = batch[c].q[i + 1].s
  PROVE  batch' = [batch EXCEPT ![c] =
                     [batch[c] EXCEPT !.i = i + 1,
                        !.pending_count = [batch[c].pending_count EXCEPT ![s0] = batch[c].pending_count[s0] + 1]]]
<1>1. batch' = [batch EXCEPT ![c].i = @ + 1, ![c].pending_count[s0] = @ + 1]
  BY DEF DoallSend
<1>2. c \in DOMAIN batch
  BY DEF ClientTypes
<1> QED
  BY <1>1, <1>2

LEMMA DoallSendStep ==
  ASSUME PipeInv, NEW c \in Clients, DoallSend(c)
  PROVE  PipeInv'
<1>1. /\ ClientTypes /\ ClientOK(c) /\ cpc[c] = "doall_send" /\ cpc[c] \in DoallStates
      /\ req[c] \in Seq(Queries) /\ Len(req[c]) \in Nat
  BY ClientFields DEF PipeInv, Types, DoallSend, DoallStates
<1>2. PICK b, m, s0 : b = batch[c] /\ m = batch[c].q[batch[c].i + 1] /\ s0 = m.s
  OBVIOUS
<1>3. /\ c \in DoAllClients /\ DoallOK(c) /\ (\A k \in held[c] : k < Len(req[c]))
      /\ b \in BatchTypes /\ b.i \in Nat /\ b.pending_count \in [Servers -> Int] /\ b.values \in Seq(Nat)
      /\ Len(b.values) \in Nat /\ b.i <= Len(req[c]) /\ Len(b.q) \in Nat /\ Len(b.values) <= b.i
      /\ \A k \in 1..Len(b.q) : b.q[k] \in Queries
  BY <1>1, <1>2, DoallFields
<1>4. b.i < Len(b.q) /\ b.pending_count[s0] < MAX_PENDING_PER_SERVER
  BY <1>1, <1>2, <1>3 DEF DoallOK
<1>5. m \in Queries /\ s0 \in Servers /\ m.op \in {"lookup", "insert"} /\ b.q[b.i + 1] = m
  <2>1. b.i + 1 \in 1..Len(b.q) /\ m = b.q[b.i + 1]
    BY <1>2, <1>3, <1>4
  <2>2. m \in Queries
    BY <1>3, <2>1
  <2> QED
    BY <1>2, <2>1, <2>2, QueryFields
<1>6. PICK l, i : l = Len(req[c]) /\ i = b.i
  OBVIOUS
<1>7. l \in Nat /\ i \in Nat /\ i <= l
  BY <1>1, <1>3, <1>6
<1>8. PICK g \in Msgs : g.op # "release" /\ g.id = l /\ inpb_write(c, s0, g)
  <2> DEFINE g == [op |-> m.op, id |-> l]
  <2>1. g \in Msgs /\ g.op # "release" /\ g.id = l
    BY <1>5, <1>7 DEF Msgs
  <2>2. inpb_write(c, s0, g)
    BY <1>2, <1>6 DEF DoallSend
  <2> HIDE DEF g
  <2> QED
    BY <2>1, <2>2
<1>9. PICK e \in BatchTypes :
        /\ e.q = b.q /\ e.i = i + 1 /\ e.flushed = b.flushed /\ e.values = b.values
        /\ e.pending_count = [b.pending_count EXCEPT ![s0] = b.pending_count[s0] + 1]
        /\ batch' = [batch EXCEPT ![c] = e]
  <2> DEFINE p == [b.pending_count EXCEPT ![s0] = b.pending_count[s0] + 1]
             j == i + 1
             e == [b EXCEPT !.i = j, !.pending_count = p]
  <2>1. b.pending_count[s0] + 1 \in Int
    BY <1>3, <1>5
  <2>2. p \in [Servers -> Int]
    BY <1>3, <1>5, <2>1
  <2>3. batch' = [batch EXCEPT ![c] = e]
    BY <1>1, <1>2, <1>6, DoallSendBatch, ZenonT(30)
  <2>4. j \in Nat
    BY <1>7
  <2> HIDE DEF p, j
  <2>5. /\ e \in BatchTypes /\ e.q = b.q /\ e.i = j /\ e.flushed = b.flushed
        /\ e.values = b.values /\ e.pending_count = p
    BY <1>3, <2>2, <2>4 DEF BatchTypes
  <2> HIDE DEF e
  <2> QED
    BY <2>3, <2>5 DEF p, j
<1>10. /\ InBatch(c, "doall", e) /\ req' = [req EXCEPT ![c] = Append(req[c], m)]
       /\ UNCHANGED <<nclients, mainvars, outrd, outwr, held, srv>>
  BY <1>2, <1>9 DEF DoallSend, InBatch, Goto
<1>11. /\ req' \in [Clients -> Seq(Queries)] /\ held' \in [Clients -> SUBSET Nat]
       /\ (\A d \in Clients : d # c => req'[d] = req[d] /\ held'[d] = held[d])
       /\ req'[c] = Append(req[c], m) /\ held'[c] = held[c]
  <2>1. Append(req[c], m) \in Seq(Queries)
    BY <1>1, <1>5
  <2> QED
    BY <1>1, <1>10, <2>1 DEF ClientTypes
<1>12. /\ ClientTypes' /\ (\A d \in Clients : d # c => SameClient(d))
       /\ cpc'[c] = "doall" /\ batch'[c] = e
  BY <1>1, <1>10, <1>11, InBatchEffect DEF ClientStates, DoallStates
<1>13. Len(req'[c]) = l + 1 /\ req'[c][l + 1] = m /\ \A k \in 1..l : req'[c][k] = req[c][k]
  BY <1>1, <1>5, <1>6, <1>11
<1>14. (l + 1) - (i + 1) = l - i
  BY <1>7
<1>15. DoallOK(c)'
  <2>1. /\ rd_index'[c] = 0 /\ wr_index'[c] = 0 /\ pending_index'[c] = 0
        /\ \A s \in Servers : pending_count'[c][s] = 0
    BY <1>3, <1>10 DEF DoallOK, InBatch, pending
  <2>2. e.i <= Len(e.q) /\ e.i <= Len(req'[c]) /\ Len(e.values) <= e.i
    BY <1>3, <1>4, <1>6, <1>7, <1>9, <1>13
  <2>3. \A k \in 1..e.i : req'[c][Len(req'[c]) - e.i + k] = e.q[k]
    <3> SUFFICES ASSUME NEW k \in 1..i + 1 PROVE req'[c][l - i + k] = b.q[k]
      BY <1>9, <1>13, <1>14
    <3>1. CASE k = i + 1
      <4>1. l - i + k = l + 1
        BY <1>7, <3>1
      <4> QED
        BY <1>5, <1>6, <1>13, <3>1, <4>1
    <3>2. CASE k # i + 1
      <4>1. k \in 1..i /\ l - i + k \in 1..l
        BY <1>7, <3>2
      <4>2. req[c][l - i + k] = b.q[k]
        BY <1>2, <1>3, <1>6, <4>1 DEF DoallOK
      <4> QED
        BY <1>13, <4>1, <4>2
    <3> QED
      BY <3>1, <3>2
  <2>4. \A k \in 1..Len(e.values) : e.values[k] = Len(req'[c]) - e.i + k - 1
    <3>1. \A k \in 1..Len(b.values) : b.values[k] = l - i + k - 1
      BY <1>2, <1>3, <1>6 DEF DoallOK
    <3> QED
      BY <1>9, <1>13, <1>14, <3>1
  <2> QED
    BY <1>12, <2>1, <2>2, <2>3, <2>4 DEF DoallOK, DoallStates, DoallWaits
<1>16. ClientOK(c)'
  <2>1. \A k \in held[c] : k < l + 1
    <3>1. held[c] \in SUBSET Nat
      BY <1>1, ClientFields
    <3> QED
      BY <1>3, <1>6, <1>7, <3>1
  <2> QED
    BY <1>3, <1>11, <1>13, <1>15, <2>1 DEF ClientOK
<1>17. FirstAwaited(c)' = FirstAwaited(c) /\ NextRequest(c)' = NextRequest(c) + 1
  <2>1. /\ FirstAwaited(c) = l - i + Len(b.values) /\ NextRequest(c) = l
    BY <1>2, <1>3, <1>6 DEF FirstAwaited, NextRequest
  <2>2. /\ FirstAwaited(c)' = Len(req'[c]) - e.i + Len(e.values) /\ NextRequest(c)' = Len(req'[c])
    BY <1>3, <1>12 DEF FirstAwaited, NextRequest
  <2>3. PICK k \in Nat : k = Len(b.values)
    BY <1>3
  <2>4. Len(req'[c]) = l + 1 /\ e.i = i + 1 /\ Len(e.values) = k
    BY <1>9, <1>13, <1>14, <2>3
  <2>5. (l + 1) - (i + 1) + k = l - i + k
    BY <1>7
  <2> QED
    BY <2>1, <2>2, <2>3, <2>4, <2>5
<1>18. ASSUME NEW s \in Servers
       PROVE  /\ \A a \in Awaited(c, s) : a < l
              /\ Awaited(c, s)' = IF s = s0 THEN Awaited(c, s) \cup {l} ELSE Awaited(c, s)
              /\ s = s0 => Cardinality(Awaited(c, s)') = Cardinality(Awaited(c, s)) + 1
  BY <1>1, <1>2, <1>5, <1>6, <1>11, <1>17, AwaitMore
<1>19. ASSUME NEW s \in Servers
       PROVE  Count(c, s)' = IF s = s0 THEN Count(c, s) + 1 ELSE Count(c, s)
  <2>1. Count(c, s) = b.pending_count[s] /\ Count(c, s)' = e.pending_count[s]
    BY <1>2, <1>3, <1>12 DEF Count
  <2>2. e.pending_count[s] = IF s = s0 THEN b.pending_count[s] + 1 ELSE b.pending_count[s]
    <3>1. e.pending_count = [b.pending_count EXCEPT ![s0] = b.pending_count[s0] + 1]
      BY <1>9
    <3>2. b.pending_count \in [Servers -> Int]
      BY <1>3
    <3> QED
      BY <3>1, <3>2
  <2> QED
    BY <2>1, <2>2
<1>20. \A s \in Servers : s # s0 => SameRequests(c, s)
  BY <1>18, <1>19 DEF SameRequests
<1>21. Cardinality(Awaited(c, s0)') = Count(c, s0)' /\ Count(c, s0)' <= MAX_PENDING_PER_SERVER
  <2>1. Cardinality(Awaited(c, s0)) = Count(c, s0) /\ Count(c, s0) = b.pending_count[s0]
    BY <1>2, <1>3, <1>5 DEF PipeInv, PairOK, Count
  <2>2. b.pending_count[s0] \in Int
    BY <1>3, <1>5
  <2> QED
    BY <1>4, <1>5, <1>18, <1>19, <2>1, <2>2, Sizes
<1> QED
  BY <1>5, <1>8, <1>10, <1>12, <1>16, <1>18, <1>20, <1>21, WriteFrame

LEMMA DoallFlushAllStep ==
  ASSUME PipeInv, NEW c \in Clients, DoallFlushAll(c)
  PROVE  PipeInv'
<1>1. ClientTypes /\ ClientOK(c) /\ cpc[c] = "doall_end" /\ cpc[c] \in DoallStates
  BY DEF PipeInv, Types, DoallFlushAll, DoallStates
<1>2. PICK b, s0 : b = batch[c] /\ s0 = batch[c].flushed
  OBVIOUS
<1>3. /\ c \in DoAllClients /\ DoallOK(c) /\ (\A k \in held[c] : k < Len(req[c]))
      /\ b \in BatchTypes /\ s0 \in Nat
  BY <1>1, <1>2, DoallFields
<1>4. inpb_flush(c, s0) /\ s0 \in Servers
  BY <1>2, <1>3, Sizes DEF DoallFlushAll, Servers
<1>5. PICK e \in BatchTypes :
        /\ e.q = b.q /\ e.i = b.i /\ e.values = b.values /\ e.pending_count = b.pending_count
        /\ batch' = [batch EXCEPT ![c] = e]
  <2> DEFINE j == s0 + 1
             e == [b EXCEPT !.flushed = j]
  <2>1. j \in Nat
    BY <1>3
  <2> HIDE DEF j
  <2>2. /\ e \in BatchTypes /\ e.q = b.q /\ e.i = b.i /\ e.values = b.values
        /\ e.pending_count = b.pending_count
    BY <1>3, <2>1 DEF BatchTypes
  <2>3. batch' = [batch EXCEPT ![c] = e]
    BY <1>1, <1>2 DEF DoallFlushAll, ClientTypes, j
  <2> HIDE DEF e
  <2> QED
    BY <2>2, <2>3
<1>6. InBatch(c, "doall_end", e) /\ UNCHANGED <<nclients, mainvars, outrd, outwr, req, held, srv>>
  BY <1>1, <1>5 DEF DoallFlushAll, InBatch, ClientTypes
<1>7. /\ ClientTypes' /\ (\A d \in Clients : d # c => SameClient(d))
      /\ cpc'[c] = "doall_end" /\ batch'[c] = e /\ req'[c] = req[c] /\ held'[c] = held[c]
  BY <1>1, <1>6, InBatchEffect DEF ClientTypes, ClientStates, DoallStates
<1>8. DoallOK(c)'
  <2>1. /\ rd_index'[c] = 0 /\ wr_index'[c] = 0 /\ pending_index'[c] = 0
        /\ \A s \in Servers : pending_count'[c][s] = 0
    BY <1>3, <1>6 DEF DoallOK, InBatch, pending
  <2>2. /\ Len(e.values) <= e.i /\ e.i <= Len(e.q) /\ e.i <= Len(req[c]) /\ e.i = Len(e.q)
        /\ \A k \in 1..e.i : req[c][Len(req[c]) - e.i + k] = e.q[k]
        /\ \A k \in 1..Len(e.values) : e.values[k] = Len(req[c]) - e.i + k - 1
    BY <1>1, <1>2, <1>3, <1>5 DEF DoallOK
  <2> QED
    BY <1>7, <2>1, <2>2 DEF DoallOK, DoallStates, DoallWaits
<1>9. ClientOK(c)'
  BY <1>3, <1>7, <1>8 DEF ClientOK
<1>10. ASSUME NEW s \in Servers PROVE SameRequests(c, s)
  <2>1. FirstAwaited(c)' = FirstAwaited(c) /\ NextRequest(c)' = NextRequest(c)
    BY <1>2, <1>3, <1>5, <1>7 DEF FirstAwaited, NextRequest
  <2>2. Awaited(c, s)' = Awaited(c, s)
    BY <1>7, <2>1 DEF Awaited
  <2>3. Count(c, s)' = Count(c, s)
    BY <1>2, <1>3, <1>5, <1>7 DEF Count
  <2> QED
    BY <2>2, <2>3 DEF SameRequests
<1> QED
  BY <1>4, <1>6, <1>7, <1>9, <1>10, FlushFrame

LEMMA DoallReturnStep ==
  ASSUME PipeInv, NEW c \in Clients, DoallReturn(c)
  PROVE  PipeInv'
<1>1. ClientTypes /\ ClientOK(c) /\ cpc[c] = "doall_end" /\ cpc[c] \in DoallStates
  BY DEF PipeInv, Types, DoallReturn, DoallStates
<1>2. PICK b, l : b = batch[c] /\ l = Len(req[c])
  OBVIOUS
<1>3. /\ c \in DoAllClients /\ DoallOK(c) /\ (\A k \in held[c] : k < Len(req[c]))
      /\ b.i \in Nat /\ b.values \in Seq(Nat) /\ Len(b.values) \in Nat /\ b.i <= l
      /\ l \in Nat /\ held[c] \in SUBSET Nat
  BY <1>1, <1>2, DoallFields, ClientFields
<1>4. Len(b.values) = b.i
  BY <1>1, <1>2, <1>3 DEF DoallReturn, DoallOK
<1>5. /\ InBatch(c, "idle", NoBatch) /\ held' = [held EXCEPT ![c] = held[c] \cup ToSet(b.values)]
      /\ UNCHANGED <<nclients, mainvars, inbufs, outrd, outwr, req, srv>>
  BY <1>2 DEF DoallReturn, InBatch, Goto
<1>6. \A x \in ToSet(b.values) : x \in Nat /\ x < l
  <2>1. ASSUME NEW k \in 1..Len(b.values) PROVE b.values[k] \in Nat /\ b.values[k] < l
    <3>1. b.values[k] = l - b.i + k - 1
      BY <1>2, <1>3 DEF DoallOK
    <3> QED
      BY <1>3, <1>4, <3>1
  <2>2. DOMAIN b.values = 1..Len(b.values)
    BY <1>3
  <2> QED
    BY <2>1, <2>2 DEF ToSet
<1>7. /\ held' \in [Clients -> SUBSET Nat] /\ held'[c] = held[c] \cup ToSet(b.values)
      /\ \A d \in Clients : d # c => held'[d] = held[d]
  <2>1. held[c] \cup ToSet(b.values) \in SUBSET Nat
    BY <1>3, <1>6
  <2> QED
    BY <1>1, <1>5, <2>1 DEF ClientTypes
<1>8. /\ ClientTypes' /\ (\A d \in Clients : d # c => SameClient(d))
      /\ cpc'[c] = "idle" /\ batch'[c] = NoBatch /\ req'[c] = req[c]
  BY <1>1, <1>5, <1>7, NothingTyped, InBatchEffect DEF ClientTypes, ClientStates
<1>9. DoallOK(c)'
  <2>1. /\ rd_index'[c] = 0 /\ wr_index'[c] = 0 /\ pending_index'[c] = 0
        /\ \A s \in Servers : pending_count'[c][s] = 0
    BY <1>3, <1>5 DEF DoallOK, InBatch, pending
  <2> QED
    BY <1>2, <1>3, <1>8, <2>1, NothingTyped DEF DoallOK, DoallStates, DoallWaits
<1>10. ClientOK(c)'
  BY <1>2, <1>3, <1>6, <1>7, <1>8, <1>9 DEF ClientOK
<1>11. ASSUME NEW s \in Servers PROVE SameRequests(c, s)
  <2>1. FirstAwaited(c)' = FirstAwaited(c) /\ NextRequest(c)' = NextRequest(c)
    <3>1. FirstAwaited(c) = l - b.i + b.i /\ FirstAwaited(c)' = l - 0 + 0
      BY <1>2, <1>3, <1>4, <1>8, NothingTyped DEF FirstAwaited
    <3> QED
      BY <1>3, <1>8, <3>1 DEF NextRequest
  <2>2. Awaited(c, s)' = Awaited(c, s)
    BY <1>8, <2>1 DEF Awaited
  <2>3. Awaited(c, s) = {}
    <3>1. FirstAwaited(c) = l - b.i + b.i /\ NextRequest(c) = l
      BY <1>2, <1>3, <1>4 DEF FirstAwaited, NextRequest
    <3>2. FirstAwaited(c)..NextRequest(c) - 1 = {}
      BY <1>3, <3>1
    <3> QED
      BY <3>2 DEF Awaited
  <2>4. Count(c, s) = 0 /\ Count(c, s)' = 0
    BY <1>3, <1>8, <2>3, FS_EmptySet, NothingTyped DEF Count, PipeInv, PairOK
  <2> QED
    BY <2>2, <2>4 DEF SameRequests
<1> QED
  BY <1>5, <1>8, <1>10, <1>11, ControlFrame


-----------------------------------------------------------------------------
(* The steps of the servers *)

\* Nothing of server s has changed.
SameServer(s) ==
  /\ spc'[s] = spc[s] /\ s_nclients'[s] = s_nclients[s] /\ s_i'[s] = s_i[s] /\ localbuf'[s] = localbuf[s]

\* A step of server s0 keeps the invariant if it leaves the others alone.
LEMMA ServerFrame ==
  ASSUME PipeInv, NEW s0 \in Servers, UNCHANGED <<nclients, mainvars, outrd, pending, ctl>>,
         BufferTypes', ServerTypes', \A s \in Servers : s # s0 => SameServer(s),
         \A c \in Clients, s \in Servers : s # s0 =>
           SameInput(c, s) /\ out'[c][s] = out[c][s] /\ out_wr'[c][s] = out_wr[c][s],
         ServerOK(s0)', \A c \in Clients : PairOK(c, s0)'
  PROVE  PipeInv'
<1>1. Types'
  BY DEF PipeInv, Types, ClientTypes, MainTypes, mainvars, pending, ctl
<1>2. \A c \in Clients : SameClient(c)
  BY DEF SameClient, pending, ctl
<1>3. ASSUME NEW c \in Clients PROVE ClientOK(c)'
  BY <1>2, KeepClient DEF PipeInv
<1>4. ASSUME NEW s \in Servers PROVE ServerOK(s)'
  <2>1. CASE s = s0
    BY <2>1
  <2>2. CASE s # s0
    <3>1. ServerOK(s) /\ SameServer(s)
      BY <2>2 DEF PipeInv
    <3>2. spc[s] = "publish" => s_i[s] \in Clients
      <4>1. s_i[s] \in Nat /\ s_nclients[s] \in Nat /\ nclients \in 0..NCLIENTS /\ NCLIENTS \in Nat
        BY SizesAssumption DEF PipeInv, Types, ServerTypes, MainTypes
      <4> QED
        BY <3>1, <4>1 DEF ServerOK, Clients
    <3> QED
      BY <2>2, <3>1, <3>2 DEF ServerOK, SameServer
  <2> QED
    BY <2>1, <2>2
<1>5. ASSUME NEW c \in Clients, NEW s \in Servers PROVE PairOK(c, s)'
  <2>1. CASE s = s0
    BY <2>1
  <2>2. CASE s # s0
    <3>1. SameWriter(c, s) /\ SameReader(c, s)
      BY <2>2 DEF SameWriter, SameReader, SameServer, Served, outrd
    <3>2. SameRequests(c, s)
      BY <1>2, KeepRequests
    <3> QED
      BY <2>2, <3>1, <3>2, KeepPair DEF PipeInv
  <2> QED
    BY <2>1, <2>2
<1> QED
  BY <1>1, <1>3, <1>4, <1>5 DEF PipeInv

\* What the invariant says of a server, and of the client it is at.
LEMMA ServerFields ==
  ASSUME PipeInv, NEW s \in Servers
  PROVE  /\ BufferTypes /\ ServerTypes /\ ServerOK(s) /\ NCLIENTS \in Nat /\ nclients \in 0..NCLIENTS
         /\ s_i[s] \in Nat /\ s_nclients[s] \in Nat /\ localbuf[s] \in Seq(Msgs)
         /\ s_i[s] < s_nclients[s] => s_i[s] \in Clients
<1>1. BufferTypes /\ ServerTypes /\ ServerOK(s) /\ NCLIENTS \in Nat /\ nclients \in 0..NCLIENTS
  BY SizesAssumption DEF PipeInv, Types, MainTypes
<1>2. s_i[s] \in Nat /\ s_nclients[s] \in Nat /\ localbuf[s] \in Seq(Msgs)
  BY <1>1 DEF ServerTypes
<1>3. s_i[s] < s_nclients[s] => s_i[s] \in Clients
  BY <1>1, <1>2 DEF ServerOK, Clients
<1> QED
  BY <1>1, <1>2, <1>3

\* A server without a batch goes to pc, its place in the pass is i of n clients.
LEMMA BetweenBatches ==
  ASSUME PipeInv, NEW s0 \in Servers, NEW pc \in {"top", "count", "poll", "exit"},
         NEW n \in Nat, n <= nclients, NEW i \in Nat,
         spc[s0] \in {"top", "count", "poll", "exit"},
         UNCHANGED <<nclients, mainvars, inbufs, outrd, outwr, pending, ctl, localbuf>>,
         s_quitting' \in [Servers -> BOOLEAN],
         spc' = [spc EXCEPT ![s0] = pc], s_nclients' = [s_nclients EXCEPT ![s0] = n],
         s_i' = [s_i EXCEPT ![s0] = i]
  PROVE  PipeInv'
<1>1. BufferTypes /\ ServerTypes /\ ServerOK(s0) /\ localbuf[s0] = <<>>
  BY ServerFields DEF ServerOK
<1>2. BufferTypes'
  BY <1>1 DEF BufferTypes, Paired, inbufs, outrd, outwr
<1>3. ServerTypes'
  BY <1>1 DEF ServerTypes
<1>4. \A s \in Servers : s # s0 => SameServer(s)
  BY <1>1 DEF ServerTypes, SameServer
<1>5. spc'[s0] = pc /\ s_nclients'[s0] = n /\ s_i'[s0] = i /\ localbuf'[s0] = <<>>
  BY <1>1 DEF ServerTypes
<1>6. ServerOK(s0)'
  BY <1>5 DEF ServerOK
<1>7. ASSUME NEW c \in Clients PROVE PairOK(c, s0)'
  <2>1. Served(c, s0) = <<>> /\ Served(c, s0)' = <<>>
    BY <1>1, <1>5 DEF Served
  <2>2. SameWriter(c, s0) /\ SameReader(c, s0) /\ SameInput(c, s0)
    BY <2>1 DEF SameWriter, SameReader, SameInput, inbufs, outrd, outwr
  <2>3. SameClient(c)
    BY DEF SameClient, pending, ctl
  <2> QED
    BY <2>2, <2>3, KeepRequests, KeepPair DEF PipeInv
<1>8. \A c \in Clients, s \in Servers :
        SameInput(c, s) /\ out'[c][s] = out[c][s] /\ out_wr'[c][s] = out_wr[c][s]
  BY DEF SameInput, inbufs, outwr
<1> QED
  BY <1>2, <1>3, <1>4, <1>6, <1>7, <1>8, ServerFrame

LEMMA ReadQuittingStep ==
  ASSUME PipeInv, NEW s0 \in Servers, ReadQuitting(s0)
  PROVE  PipeInv'
<1>1. ServerTypes /\ ServerOK(s0) /\ s_i[s0] \in Nat /\ s_nclients[s0] \in Nat /\ quitting \in BOOLEAN
  BY ServerFields DEF PipeInv, Types, MainTypes
<1>2. /\ s_nclients' = [s_nclients EXCEPT ![s0] = s_nclients[s0]]
      /\ s_i' = [s_i EXCEPT ![s0] = s_i[s0]] /\ spc' = [spc EXCEPT ![s0] = "count"]
  BY <1>1 DEF ReadQuitting, SGoto, ServerTypes
<1>3. s_quitting' \in [Servers -> BOOLEAN]
  BY <1>1 DEF ReadQuitting, ServerTypes
<1>4. s_nclients[s0] <= nclients /\ spc[s0] = "top"
  BY <1>1 DEF ServerOK, ReadQuitting
<1> QED
  BY <1>1, <1>2, <1>3, <1>4, BetweenBatches DEF ReadQuitting

LEMMA ReadNclientsStep ==
  ASSUME PipeInv, NEW s0 \in Servers, ReadNclients(s0)
  PROVE  PipeInv'
<1>1. ServerTypes /\ ServerOK(s0) /\ s_i[s0] \in Nat /\ nclients \in Nat /\ nclients <= nclients
  BY ServerFields
<1>2. /\ s_nclients' = [s_nclients EXCEPT ![s0] = nclients]
      /\ s_i' = [s_i EXCEPT ![s0] = s_i[s0]] /\ spc' = [spc EXCEPT ![s0] = "poll"]
  BY <1>1 DEF ReadNclients, SGoto, ServerTypes
<1>3. s_quitting' \in [Servers -> BOOLEAN]
  BY <1>1 DEF ReadNclients, ServerTypes
<1> QED
  BY <1>1, <1>2, <1>3, BetweenBatches DEF ReadNclients

LEMMA EndPassStep ==
  ASSUME PipeInv, NEW s0 \in Servers, EndPass(s0)
  PROVE  PipeInv'
<1>1. ServerTypes /\ nclients \in Nat
  BY ServerFields
<1>2. PICK pc \in {"exit", "top"} : spc' = [spc EXCEPT ![s0] = pc]
  BY DEF EndPass, SGoto
<1>3. s_quitting' \in [Servers -> BOOLEAN]
  BY <1>1 DEF EndPass, ServerTypes
<1>4. 0 <= nclients
  BY <1>1
<1> QED
  BY <1>1, <1>2, <1>3, <1>4, BetweenBatches DEF EndPass


LEMMA PollStep ==
  ASSUME PipeInv, NEW s0 \in Servers, Poll(s0)
  PROVE  PipeInv'
<1>1. PICK c : c = s_i[s0]
  OBVIOUS
<1>2. /\ BufferTypes /\ ServerTypes /\ ServerOK(s0) /\ c \in Clients /\ c \in Nat
      /\ s_nclients[s0] \in Nat /\ spc[s0] = "poll" /\ c < s_nclients[s0] /\ nclients \in Nat
  BY <1>1, ServerFields DEF Poll
<1>3. localbuf[s0] = <<>> /\ s_nclients[s0] <= nclients
  BY <1>2 DEF ServerOK
<1>4. /\ UNCHANGED <<nclients, mainvars, local, outrd, outwr, pending, ctl, s_quitting, s_nclients>>
      /\ s_quitting' \in [Servers -> BOOLEAN]
  BY <1>2 DEF Poll, ServerTypes
<1>5. CASE queue[c][s0] = <<>>
  <2>1. s_i' = [s_i EXCEPT ![s0] = c + 1] /\ UNCHANGED <<spc, queue, localbuf>>
    BY <1>1, <1>5 DEF Poll
  <2>2. spc' = [spc EXCEPT ![s0] = "poll"] /\ s_nclients' = [s_nclients EXCEPT ![s0] = s_nclients[s0]]
    BY <1>2, <1>4, <2>1 DEF ServerTypes
  <2>3. UNCHANGED <<nclients, mainvars, inbufs, outrd, outwr, pending, ctl, localbuf>> /\ c + 1 \in Nat
    BY <1>2, <1>4, <2>1 DEF inbufs
  <2> QED
    BY <1>2, <1>3, <1>4, <2>1, <2>2, <2>3, BetweenBatches
<1>6. CASE queue[c][s0] # <<>>
  <2>1. PICK q, b : q = queue[c][s0] /\ b = Head(queue[c][s0])
    OBVIOUS
  <2>2. /\ localbuf' = [localbuf EXCEPT ![s0] = b] /\ queue' = [queue EXCEPT ![c][s0] = Tail(q)]
        /\ spc' = [spc EXCEPT ![s0] = "serve"] /\ UNCHANGED s_i
    BY <1>1, <1>6, <2>1 DEF Poll, SGoto
  <2>3. q \in Seq(Seq(Msgs)) /\ q # <<>>
    BY <1>2, <1>6, <2>1, PairTypes
  <2>4. b \in Seq(Msgs) /\ Tail(q) \in Seq(Seq(Msgs))
    BY <2>1, <2>3
  <2>5. queue' \in [Clients -> [Servers -> Seq(Seq(Msgs))]]
    BY <1>2, <2>2, <2>4 DEF BufferTypes
  <2>6. BufferTypes'
    BY <1>2, <1>4, <2>5 DEF BufferTypes, Paired, outrd, outwr
  <2>7. ServerTypes'
    BY <1>2, <1>4, <2>2, <2>4 DEF ServerTypes
  <2>8. \A s \in Servers : s # s0 => SameServer(s)
    BY <1>2, <1>4, <2>2 DEF ServerTypes, SameServer
  <2>9. /\ spc'[s0] = "serve" /\ s_nclients'[s0] = s_nclients[s0] /\ s_i'[s0] = c /\ localbuf'[s0] = b
        /\ nclients' = nclients
    BY <1>1, <1>2, <1>4, <2>2 DEF ServerTypes
  <2>10. ServerOK(s0)'
    BY <1>2, <1>3, <2>9 DEF ServerOK
  <2>11. \A d \in Clients, s \in Servers : d # c \/ s # s0 => SameInput(d, s)
    BY <1>2, <1>4, <2>2 DEF SameInput, BufferTypes
  <2>12. \A d \in Clients, s \in Servers : out'[d][s] = out[d][s] /\ out_wr'[d][s] = out_wr[d][s]
    BY <1>4 DEF outwr
  <2>13. queue'[c][s0] = Tail(q) /\ local'[c][s0] = local[c][s0]
    BY <1>2, <1>4, <2>2 DEF BufferTypes
  <2>14. ASSUME NEW d \in Clients PROVE PairOK(d, s0)'
    <3>1. SameReader(d, s0) /\ SameClient(d) /\ PairOK(d, s0)
      BY <1>4 DEF SameReader, SameClient, outrd, pending, ctl, PipeInv
    <3>2. SameRequests(d, s0)
      BY <3>1, KeepRequests
    <3>3. Served(d, s0) = <<>> /\ Served(d, s0)' = IF d = c THEN b ELSE <<>>
      BY <1>3, <2>9 DEF Served
    <3>4. CASE d # c
      <4>1. SameInput(d, s0) /\ SameWriter(d, s0)
        BY <2>11, <2>12, <3>3, <3>4 DEF SameWriter
      <4> QED
        BY <3>1, <3>2, <4>1, KeepPair
    <3>5. CASE d = c
      <4>1. Flow(local_rd_index[c][s0], out_wr[c][s0], out[c][s0],
                 Lines(<<>>, q, local[c][s0]), Awaited(c, s0))
        BY <2>1, <3>1, <3>3, <3>5 DEF PairOK
      <4>2. /\ local_rd_index[c][s0] \in Nat /\ out_wr[c][s0] \in Nat /\ local[c][s0] \in Seq(Msgs)
        BY <1>2, PairTypes
      <4>3. Flow(local_rd_index[c][s0], out_wr[c][s0], out[c][s0],
                 Lines(b, Tail(q), local[c][s0]), Awaited(c, s0))
        BY <2>1, <2>3, <4>1, <4>2, FlowPoll
      <4> QED
        BY <2>12, <2>13, <3>1, <3>2, <3>3, <3>5, <4>3 DEF PairOK, SameReader, SameRequests
    <3> QED
      BY <3>4, <3>5
  <2> QED
    BY <1>4, <2>6, <2>7, <2>8, <2>10, <2>11, <2>12, <2>14, ServerFrame
<1> QED
  BY <1>5, <1>6

LEMMA ServeStep ==
  ASSUME PipeInv, NEW s0 \in Servers, Serve(s0)
  PROVE  PipeInv'
<1>1. PICK c, b : c = s_i[s0] /\ b = localbuf[s0]
  OBVIOUS
<1>2. /\ BufferTypes /\ ServerTypes /\ ServerOK(s0) /\ spc[s0] = "serve" /\ b \in Seq(Msgs)
      /\ s_i[s0] < s_nclients[s0] /\ s_nclients[s0] <= nclients
  BY <1>1, ServerFields DEF Serve, ServerOK
<1>3. c \in Clients
  BY <1>1, <1>2, ServerFields
<1>4. /\ local_rd_index[c][s0] \in Nat /\ out_wr[c][s0] \in Nat /\ local_wr_index[c][s0] \in Nat
      /\ queue[c][s0] \in Seq(Seq(Msgs)) /\ local[c][s0] \in Seq(Msgs)
  BY <1>2, <1>3, PairTypes
<1>5. PICK u : u = WithAnswers(out[c][s0], out_wr[c][s0], b)
  OBVIOUS
<1>6. Served(c, s0) = b /\ PairOK(c, s0)
  BY <1>1, <1>3 DEF Served, PipeInv
<1>7. /\ Stored(u, out_wr[c][s0], b)
      /\ Flow(local_rd_index[c][s0], out_wr[c][s0], u, Lines(b, queue[c][s0], local[c][s0]), Awaited(c, s0))
  <2>1. /\ Flow(local_rd_index[c][s0], out_wr[c][s0], out[c][s0],
                Lines(b, queue[c][s0], local[c][s0]), Awaited(c, s0))
        /\ Cardinality(Awaited(c, s0)) <= MAX_PENDING_PER_SERVER
        /\ local_rd_index[c][s0] <= local_wr_index[c][s0] /\ local_wr_index[c][s0] <= out_wr[c][s0]
    BY <1>6 DEF PairOK
  <2>2. /\ Awaited(c, s0) \in SUBSET Nat /\ IsFiniteSet(Awaited(c, s0))
        /\ Cardinality(Awaited(c, s0)) \in Nat
    BY <1>3, AwaitedFacts DEF PipeInv, Types
  <2>3. Cardinality(Awaited(c, s0)) <= OUTB_SIZE /\ local_rd_index[c][s0] <= out_wr[c][s0]
    <3>1. PICK a, x, y, z : /\ a = Cardinality(Awaited(c, s0)) /\ x = local_rd_index[c][s0]
                            /\ y = local_wr_index[c][s0] /\ z = out_wr[c][s0]
      OBVIOUS
    <3>2. /\ a \in Nat /\ x \in Nat /\ y \in Nat /\ z \in Nat
          /\ a <= MAX_PENDING_PER_SERVER /\ x <= y /\ y <= z
      BY <1>4, <2>1, <2>2, <3>1
    <3>3. a <= OUTB_SIZE /\ x <= z
      BY <3>2, Sizes
    <3> QED
      BY <3>1, <3>3
  <2> QED
    BY <1>2, <1>4, <1>5, <2>1, <2>2, <2>3, FlowServe
<1>8. /\ out' = [out EXCEPT ![c][s0] = u] /\ spc' = [spc EXCEPT ![s0] = "publish"]
      /\ UNCHANGED <<nclients, mainvars, inbufs, outrd, out_wr, pending, ctl,
                     s_quitting, s_nclients, s_i, localbuf>>
  BY <1>1, <1>5 DEF Serve, SGoto
<1>9. /\ Paired(out') /\ out'[c][s0] = u
      /\ \A d \in Clients, s \in Servers : d # c \/ s # s0 => out'[d][s] = out[d][s]
  <2>1. out = [d \in Clients |-> [s \in Servers |-> out[d][s]]]
    BY <1>2 DEF BufferTypes, Paired
  <2>2. out' = [d \in Clients |-> [s \in Servers |-> IF d = c /\ s = s0 THEN u ELSE out[d][s]]]
    BY <1>3, <1>8, <2>1
  <2> QED
    BY <1>3, <2>2 DEF Paired
<1>10. BufferTypes' /\ ServerTypes'
  BY <1>2, <1>8, <1>9 DEF BufferTypes, ServerTypes, inbufs, outrd, Paired
<1>11. \A s \in Servers : s # s0 => SameServer(s)
  BY <1>2, <1>8 DEF ServerTypes, SameServer
<1>12. ServerOK(s0)'
  BY <1>1, <1>2, <1>7, <1>8, <1>9 DEF ServerOK, ServerTypes
<1>13. ASSUME NEW d \in Clients PROVE PairOK(d, s0)'
  <2>1. SameReader(d, s0) /\ SameInput(d, s0) /\ SameClient(d) /\ PairOK(d, s0)
    BY <1>8 DEF SameReader, SameInput, SameClient, inbufs, outrd, pending, ctl, PipeInv
  <2>2. SameRequests(d, s0)
    BY <2>1, KeepRequests
  <2>3. Served(d, s0)' = Served(d, s0) /\ out_wr'[d][s0] = out_wr[d][s0]
    BY <1>8 DEF Served
  <2>4. CASE d # c
    BY <1>9, <2>1, <2>2, <2>3, <2>4, KeepPair DEF SameWriter
  <2>5. CASE d = c
    BY <1>6, <1>7, <1>9, <2>1, <2>2, <2>3, <2>5 DEF PairOK, SameReader, SameInput, SameRequests
  <2> QED
    BY <2>4, <2>5
<1>14. \A d \in Clients, s \in Servers : s # s0 =>
         SameInput(d, s) /\ out'[d][s] = out[d][s] /\ out_wr'[d][s] = out_wr[d][s]
  BY <1>8, <1>9 DEF SameInput, inbufs
<1> QED
  BY <1>8, <1>10, <1>11, <1>12, <1>13, <1>14, ServerFrame

LEMMA PublishStep ==
  ASSUME PipeInv, NEW s0 \in Servers, Publish(s0)
  PROVE  PipeInv'
<1>1. PICK c, b : c = s_i[s0] /\ b = localbuf[s0]
  OBVIOUS
<1>2. /\ BufferTypes /\ ServerTypes /\ ServerOK(s0) /\ spc[s0] = "publish" /\ b \in Seq(Msgs) /\ c \in Nat
      /\ s_i[s0] < s_nclients[s0] /\ s_nclients[s0] <= nclients
      /\ Stored(out[c][s0], out_wr[c][s0], b)
  BY <1>1, ServerFields DEF Publish, ServerOK
<1>3. c \in Clients
  BY <1>1, <1>2, ServerFields
<1>4. /\ local_rd_index[c][s0] \in Nat /\ out_wr[c][s0] \in Nat /\ local_wr_index[c][s0] \in Nat
      /\ queue[c][s0] \in Seq(Seq(Msgs)) /\ local[c][s0] \in Seq(Msgs)
  BY <1>2, <1>3, PairTypes
<1>5. PICK w \in Nat : w = out_wr[c][s0] + Cardinality(Asked(b)) /\ out_wr[c][s0] <= w
  <2>1. Cardinality(Asked(b)) \in Nat
    BY <1>2, AskedFacts
  <2>2. out_wr[c][s0] + Cardinality(Asked(b)) \in Nat /\ out_wr[c][s0] <= out_wr[c][s0] + Cardinality(Asked(b))
    BY <1>4, <2>1
  <2> QED
    BY <2>2
<1>6. Served(c, s0) = b /\ PairOK(c, s0)
  BY <1>1, <1>3 DEF Served, PipeInv
<1>7. /\ local_rd_index[c][s0] <= local_wr_index[c][s0] /\ local_wr_index[c][s0] <= w
      /\ Flow(local_rd_index[c][s0], w, out[c][s0], Lines(<<>>, queue[c][s0], local[c][s0]), Awaited(c, s0))
  <2>1. /\ Flow(local_rd_index[c][s0], out_wr[c][s0], out[c][s0],
                Lines(b, queue[c][s0], local[c][s0]), Awaited(c, s0))
        /\ local_rd_index[c][s0] <= local_wr_index[c][s0] /\ local_wr_index[c][s0] <= out_wr[c][s0]
    BY <1>6 DEF PairOK
  <2>2. local_rd_index[c][s0] <= out_wr[c][s0] /\ local_wr_index[c][s0] <= w
    BY <1>4, <1>5, <2>1
  <2> QED
    BY <1>2, <1>4, <1>5, <2>1, <2>2, FlowAnswer
<1>8. /\ out_wr' = [out_wr EXCEPT ![c][s0] = w] /\ localbuf' = [localbuf EXCEPT ![s0] = <<>>]
      /\ s_i' = [s_i EXCEPT ![s0] = c + 1] /\ spc' = [spc EXCEPT ![s0] = "poll"]
      /\ UNCHANGED <<nclients, mainvars, inbufs, outrd, out, pending, ctl, s_quitting, s_nclients>>
  BY <1>1, <1>5 DEF Publish, SGoto
<1>9. /\ out_wr' \in [Clients -> [Servers -> Nat]] /\ out_wr'[c][s0] = w
      /\ \A d \in Clients, s \in Servers : d # c \/ s # s0 => out_wr'[d][s] = out_wr[d][s]
  BY <1>2, <1>3, <1>8 DEF BufferTypes
<1>10. BufferTypes'
  BY <1>2, <1>8, <1>9 DEF BufferTypes, inbufs, outrd, Paired
<1>11. ServerTypes'
  BY <1>2, <1>8, EmptyBatch DEF ServerTypes
<1>12. \A s \in Servers : s # s0 => SameServer(s)
  BY <1>2, <1>8 DEF ServerTypes, SameServer
<1>13. spc'[s0] = "poll" /\ localbuf'[s0] = <<>> /\ s_nclients'[s0] = s_nclients[s0] /\ nclients' = nclients
  BY <1>2, <1>8 DEF ServerTypes
<1>14. ServerOK(s0)'
  BY <1>2, <1>13 DEF ServerOK
<1>15. ASSUME NEW d \in Clients PROVE PairOK(d, s0)'
  <2>1. SameReader(d, s0) /\ SameInput(d, s0) /\ SameClient(d) /\ PairOK(d, s0)
    BY <1>8 DEF SameReader, SameInput, SameClient, inbufs, outrd, pending, ctl, PipeInv
  <2>2. SameRequests(d, s0)
    BY <2>1, KeepRequests
  <2>3. Served(d, s0)' = <<>> /\ out'[d][s0] = out[d][s0]
    BY <1>8, <1>13 DEF Served
  <2>4. CASE d # c
    <3>1. Served(d, s0) = <<>>
      BY <1>1, <2>4 DEF Served
    <3> QED
      BY <1>9, <2>1, <2>2, <2>3, <2>4, <3>1, KeepPair DEF SameWriter
  <2>5. CASE d = c
    BY <1>6, <1>7, <1>9, <2>1, <2>2, <2>3, <2>5 DEF PairOK, SameReader, SameInput, SameRequests
  <2> QED
    BY <2>4, <2>5
<1>16. \A d \in Clients, s \in Servers : s # s0 =>
         SameInput(d, s) /\ out'[d][s] = out[d][s] /\ out_wr'[d][s] = out_wr[d][s]
  BY <1>8, <1>9 DEF SameInput, inbufs
<1> QED
  BY <1>8, <1>10, <1>11, <1>12, <1>14, <1>15, <1>16, ServerFrame


-----------------------------------------------------------------------------
(* The steps of the main thread *)

LEMMA MainFrame ==
  ASSUME PipeInv, UNCHANGED <<inbufs, outrd, outwr, pending, ctl, srv>>, MainTypes', nclients' >= nclients
  PROVE  PipeInv'
<1>1. \A c \in Clients : SameClient(c)
  BY DEF SameClient, pending, ctl
<1>2. Types'
  <2>1. ClientTypes'
    BY DEF PipeInv, Types, ClientTypes, pending, ctl
  <2>2. BufferTypes'
    BY DEF PipeInv, Types, BufferTypes, Paired, inbufs, outrd, outwr
  <2>3. ServerTypes'
    BY DEF PipeInv, Types, ServerTypes, srv
  <2> QED
    BY <2>1, <2>2, <2>3 DEF Types
<1>3. ASSUME NEW c \in Clients PROVE ClientOK(c)'
  BY <1>1, KeepClient DEF PipeInv
<1>4. ASSUME NEW s \in Servers PROVE ServerOK(s)'
  <2>1. nclients \in Nat /\ nclients' \in Nat /\ s_nclients \in [Servers -> Nat] /\ ServerOK(s)
    BY SizesAssumption DEF PipeInv, Types, MainTypes, ServerTypes
  <2> QED
    BY <2>1, KeepServer
<1>5. ASSUME NEW c \in Clients, NEW s \in Servers PROVE PairOK(c, s)'
  <2>1. SameInput(c, s) /\ SameReader(c, s) /\ SameWriter(c, s)
    BY DEF SameInput, SameReader, SameWriter, inbufs, outrd, outwr, srv, Served
  <2> QED
    BY <1>1, <2>1, KeepRequests, KeepPair DEF PipeInv
<1> QED
  BY <1>2, <1>3, <1>4, <1>5 DEF PipeInv

\* The buffer that stop_hash_table_servers flushes next.
LEMMA NextFlushed ==
  ASSUME MainTypes, flushed < NSERVERS * nclients
  PROVE  flushed % nclients \in Clients /\ flushed \div nclients \in Servers
<1>1. /\ nclients \in 0..NCLIENTS /\ NCLIENTS \in Nat /\ NSERVERS \in Nat /\ flushed \in Nat
  BY SizesAssumption, Sizes DEF MainTypes
<1>2. nclients \in Nat \ {0}
  <2>1. CASE nclients = 0
    BY <1>1, <2>1
  <2> QED
    BY <1>1, <2>1
<1>3. flushed % nclients \in 0..nclients - 1
  BY <1>1, <1>2, RingSlots
<1>4. PICK d \in Nat, r \in Nat, n \in Nat \ {0} : d = flushed \div nclients /\ r = flushed % nclients /\ n = nclients
  <2>1. flushed \div nclients \in Nat
    BY <1>1, <1>2
  <2> QED
    BY <1>2, <1>3, <2>1
<1>5. (flushed \div nclients) * nclients + (flushed % nclients) = flushed
  BY <1>1, <1>2
<1>6. d * n + r < NSERVERS * n
  BY <1>4, <1>5
<1>7. ASSUME d >= NSERVERS PROVE FALSE
  <2>1. d * n >= NSERVERS * n
    BY <1>1, <1>7
  <2>2. d * n \in Nat /\ NSERVERS * n \in Nat
    BY <1>1
  <2> QED
    BY <1>6, <2>1, <2>2
<1>8. d < NSERVERS
  BY <1>1, <1>7
<1> QED
  BY <1>1, <1>3, <1>4, <1>8 DEF Clients, Servers

LEMMA StopFlushStep ==
  ASSUME PipeInv, StopFlush
  PROVE  PipeInv'
<1>1. PICK c \in Clients, s0 \in Servers : inpb_flush(c, s0)
  BY NextFlushed DEF StopFlush, PipeInv, Types
<1>2. UNCHANGED <<nclients, quitting, mpc, lines_at_quit, outrd, outwr, pending, ctl, srv>> /\ flushed' = flushed + 1
  BY DEF StopFlush
<1>3. /\ BufferTypes' /\ Flushed(c, s0)
      /\ \A d \in Clients, s \in Servers : d # c \/ s # s0 => SameInput(d, s)
  BY <1>1, <1>2, FlushEffect DEF PipeInv, Types
<1>4. \A d \in Clients : SameClient(d)
  BY <1>2 DEF SameClient, pending, ctl
<1>5. Types'
  <2>1. ClientTypes'
    BY <1>2 DEF PipeInv, Types, ClientTypes, pending, ctl
  <2>2. ServerTypes' /\ MainTypes'
    BY <1>2 DEF PipeInv, Types, ServerTypes, MainTypes, srv
  <2> QED
    BY <1>3, <2>1, <2>2 DEF Types
<1>6. ASSUME NEW d \in Clients PROVE ClientOK(d)'
  BY <1>4, KeepClient DEF PipeInv
<1>7. ASSUME NEW s \in Servers PROVE ServerOK(s)'
  <2>1. nclients \in Nat /\ nclients' = nclients /\ s_nclients \in [Servers -> Nat] /\ ServerOK(s)
    BY <1>2, SizesAssumption DEF PipeInv, Types, MainTypes, ServerTypes
  <2> QED
    BY <1>2, <2>1, KeepServer
<1>8. ASSUME NEW d \in Clients, NEW s \in Servers PROVE PairOK(d, s)'
  <2>1. SameReader(d, s) /\ SameWriter(d, s) /\ SameRequests(d, s)
    BY <1>2, <1>4, KeepRequests DEF SameReader, SameWriter, outrd, outwr, srv, Served
  <2>2. PairOK(d, s) /\ BufferTypes /\ ServerTypes
    BY DEF PipeInv, Types
  <2>3. CASE d = c /\ s = s0
    BY <1>3, <2>1, <2>2, <2>3, FlushPair
  <2>4. CASE d # c \/ s # s0
    BY <1>3, <2>1, <2>2, <2>4, KeepPair
  <2> QED
    BY <2>3, <2>4
<1> QED
  BY <1>5, <1>6, <1>7, <1>8 DEF PipeInv

-----------------------------------------------------------------------------
(* The invariant holds *)

LEMMA FlowNothing ==
  ASSUME NEW r
  PROVE  Flow(0, 0, r, Lines(<<>>, <<>>, <<>>), {})
<1>1. PICK bs : bs = Lines(<<>>, <<>>, <<>>)
  OBVIOUS
<1>2. <<>> \in Seq(Seq(Msgs)) /\ Len(<<>>) = 0
  OBVIOUS
<1>3. Pieces(bs, <<>>, <<>>, 0, <<>>)
  BY <1>1, <1>2, EmptyBatch, LinesPieces
<1>4. Len(bs) = 2 /\ bs[1] = <<>> /\ bs[2] = <<>>
  BY <1>3 DEF Pieces
<1>5. \A k \in 1..Len(bs) : Asked(bs[k]) = {}
  BY <1>4, EmptyBatch
<1>6. 0..0 - 1 = {}
  OBVIOUS
<1> QED
  BY <1>1, <1>5, <1>6 DEF Flow

LEMMA InitPipe == Init => PipeInv
<1> SUFFICES ASSUME Init PROVE PipeInv
  OBVIOUS
<1>1. ClientTypes
  <2>1. /\ cpc \in [Clients -> ClientStates] /\ call \in [Clients -> Calls]
        /\ batch \in [Clients -> BatchTypes] /\ held \in [Clients -> SUBSET Nat]
    BY NothingTyped DEF Init, ClientStates
  <2>2. req \in [Clients -> Seq(Queries)]
    BY DEF Init
  <2>3. /\ rd_index \in [Clients -> Nat] /\ wr_index \in [Clients -> Nat] /\ pending_index \in [Clients -> Nat]
        /\ pending_count \in [Clients -> [Servers -> Int]]
    BY DEF Init
  <2>4. /\ pending_servers \in [Clients -> [0..MAX_PENDING_SIZE - 1 -> Servers]]
        /\ pending_values \in [Clients -> [0..MAX_PENDING_SIZE - 1 -> Nat]]
    BY Sizes DEF Init
  <2> QED
    BY <2>1, <2>2, <2>3, <2>4 DEF ClientTypes
<1>2. BufferTypes
  <2>1. local \in [Clients -> [Servers -> Seq(Msgs)]] /\ queue \in [Clients -> [Servers -> Seq(Seq(Msgs))]]
    BY DEF Init
  <2>2. /\ out_wr \in [Clients -> [Servers -> Nat]] /\ local_rd_index \in [Clients -> [Servers -> Nat]]
        /\ local_wr_index \in [Clients -> [Servers -> Nat]]
    BY DEF Init
  <2>3. Paired(out)
    BY DEF Init, Paired
  <2> QED
    BY <2>1, <2>2, <2>3 DEF BufferTypes
<1>3. ServerTypes /\ MainTypes
  <2>1. /\ spc \in [Servers -> {"top", "count", "poll", "serve", "publish", "exit"}]
        /\ s_quitting \in [Servers -> BOOLEAN]
    BY DEF Init
  <2>2. /\ s_nclients \in [Servers -> Nat] /\ s_i \in [Servers -> Nat]
    BY DEF Init
  <2>3. localbuf \in [Servers -> Seq(Msgs)]
    BY DEF Init
  <2>4. MainTypes
    <3>1. nclients = 0 /\ quitting = FALSE /\ mpc = "run" /\ flushed = 0
      BY DEF Init
    <3>2. nclients \in 0..NCLIENTS
      BY <3>1, SizesAssumption
    <3>3. quitting \in BOOLEAN
      BY <3>1
    <3> QED
      BY <3>1, <3>2, <3>3 DEF MainTypes
  <2> QED
    BY <2>1, <2>2, <2>3, <2>4 DEF ServerTypes
<1>4. ASSUME NEW c \in Clients PROVE ClientOK(c)
  <2>1. /\ cpc[c] = "idle" /\ req[c] = <<>> /\ held[c] = {} /\ batch[c] = NoBatch
        /\ rd_index[c] = 0 /\ wr_index[c] = 0 /\ pending_index[c] = 0
        /\ \A s \in Servers : pending_count[c][s] = 0
    BY DEF Init
  <2>2. Len(req[c]) = 0 /\ Len(NoBatch.values) = 0 /\ Len(NoBatch.q) = 0
    BY <2>1, NothingTyped
  <2>3. DoallOK(c)
    BY <2>1, <2>2, NothingTyped DEF DoallOK, DoallStates, DoallWaits
  <2>4. PendingOK(c)
    BY <2>1, <2>2, Sizes DEF PendingOK, DoallStates, DoallWaits, WaitStates
  <2> QED
    BY <2>1, <2>3, <2>4 DEF ClientOK
<1>5. ASSUME NEW s \in Servers PROVE ServerOK(s)
  BY DEF Init, ServerOK
<1>6. ASSUME NEW c \in Clients, NEW s \in Servers PROVE PairOK(c, s)
  <2>1. /\ local[c][s] = <<>> /\ queue[c][s] = <<>> /\ out_wr[c][s] = 0 /\ local_rd_index[c][s] = 0
        /\ local_wr_index[c][s] = 0 /\ Served(c, s) = <<>>
    BY DEF Init, Served
  <2>2. Count(c, s) = 0
    BY NothingTyped DEF Init, Count
  <2>3. Awaited(c, s) = {}
    <3>1. req[c] = <<>> /\ batch[c] = NoBatch /\ wr_index[c] = 0 /\ pending_index[c] = 0
      BY DEF Init
    <3>2. Len(req[c]) = 0 /\ Len(NoBatch.values) = 0
      BY <3>1, NothingTyped
    <3>3. FirstAwaited(c) = 0 /\ NextRequest(c) = 0
      BY <3>1, <3>2, NothingTyped DEF FirstAwaited, NextRequest
    <3> QED
      BY <3>3 DEF Awaited
  <2>4. BatchWords(<<>>) = 0 /\ Cardinality({}) = 0
    BY FS_EmptySet DEF BatchWords
  <2>5. Flow(0, 0, out[c][s], Lines(<<>>, <<>>, <<>>), {})
    BY FlowNothing
  <2> QED
    BY <2>1, <2>2, <2>3, <2>4, <2>5, Sizes DEF PairOK
<1> QED
  BY <1>1, <1>2, <1>3, <1>4, <1>5, <1>6 DEF PipeInv, Types

LEMMA CallKeepsPipe ==
  ASSUME PipeInv, NEW c \in Clients, Call(c)
  PROVE  PipeInv'
<1>1. CASE \E op \in Ops, s \in Servers : smp_hash_request(c, op, s)
  BY <1>1, RequestStep
<1>2. CASE \E n \in held[c] : mp_send_release(c, n)
  BY <1>2, ReleaseCallStep
<1>3. CASE smp_get_next(c)
  BY <1>3, GetNextStep
<1>4. CASE TakeValue(c)
  BY <1>4, TakeStep
<1>5. CASE \E n \in 1..MaxRequests : \E q \in [1..n -> [op : Ops, s : Servers]] : smp_hash_doall(c, q)
  <2>1. PICK n \in 1..MaxRequests :
          \E q \in [1..n -> [op : Ops, s : Servers]] : smp_hash_doall(c, q)
    BY <1>5
  <2>2. n \in Nat
    BY SizesAssumption
  <2> QED
    BY <2>1, <2>2, DoallCallStep
<1> QED
  BY <1>1, <1>2, <1>3, <1>4, <1>5 DEF Call

LEMMA InCallKeepsPipe ==
  ASSUME PipeInv, NEW c \in Clients, InCall(c)
  PROVE  PipeInv'
<1>1. CASE BlockingRead(c)
  BY <1>1, ReadValueStep DEF BlockingRead, WaitStates
<1>2. CASE \/ LimitPending(c) \/ SendRequest(c) \/ SendRelease(c) \/ ForceFlush(c)
           \/ TryRead(c) \/ FlushBeforeBlock(c) \/ TakeValue(c)
  BY <1>2, LimitStep, SendRequestStep, SendReleaseStep, ForceFlushStep, TryReadStep,
     FlushBeforeBlockStep, TakeStep
<1>3. CASE \/ DoallLimit(c) \/ DoallRead(c) \/ DoallFlush(c) \/ DoallBlock(c) \/ DoallSend(c)
           \/ DoallFlushAll(c) \/ DoallDrain(c) \/ DoallReturn(c)
  BY <1>3, DoallLimitStep, DoallReadStep, DoallFlushStep, DoallBlockStep, DoallSendStep,
     DoallFlushAllStep, DoallDrainStep, DoallReturnStep
<1> QED
  BY <1>1, <1>2, <1>3 DEF InCall

LEMMA ServerKeepsPipe ==
  ASSUME PipeInv, NEW s \in Servers, hash_table_server(s)
  PROVE  PipeInv'
BY ReadQuittingStep, ReadNclientsStep, PollStep, ServeStep, PublishStep, EndPassStep DEF hash_table_server

LEMMA NextPipe == PipeInv /\ [Next]_vars => PipeInv'
<1> SUFFICES ASSUME PipeInv, [Next]_vars PROVE PipeInv'
  OBVIOUS
<1>1. MainTypes /\ nclients \in Nat /\ NCLIENTS \in Nat
  BY SizesAssumption DEF PipeInv, Types, MainTypes
<1>2. CASE UNCHANGED vars
  <2>1. UNCHANGED <<nclients, mainvars, inbufs, outrd, outwr, pending, ctl, srv>>
    BY <1>2 DEF vars
  <2> QED
    BY <1>1, <2>1, MainFrame DEF MainTypes, mainvars
<1>3. CASE create_hash_table_client
  BY <1>1, <1>3, MainFrame DEF create_hash_table_client, MainTypes, mainvars
<1>4. CASE \E c \in Clients : Call(c) \/ InCall(c)
  BY <1>4, CallKeepsPipe, InCallKeepsPipe
<1>5. CASE \E s \in Servers : hash_table_server(s)
  BY <1>5, ServerKeepsPipe
<1>6. CASE stop_hash_table_servers
  BY <1>1, <1>6, MainFrame DEF stop_hash_table_servers, MainTypes
<1>7. CASE StopFlush
  BY <1>7, StopFlushStep
<1>8. CASE SetQuitting
  BY <1>1, <1>8, MainFrame DEF SetQuitting, MainTypes
<1>9. CASE Join
  BY <1>1, <1>9, MainFrame DEF Join, MainTypes
<1>10. CASE Stopped
  BY <1>2, <1>10 DEF Stopped
<1> QED
  BY <1>2, <1>3, <1>4, <1>5, <1>6, <1>7, <1>8, <1>9, <1>10 DEF Next, InStop


-----------------------------------------------------------------------------
(* The servers' last pass *)

\* Before quitting is set no server is in its last pass.
LEMMA StopUnset ==
  ASSUME StopInv, ~quitting, UNCHANGED <<quitting, lines_at_quit, srv>>, Quiet'
  PROVE  StopInv'
<1>1. ASSUME NEW s \in Servers
      PROVE  ~s_quitting[s] /\ spc[s] # "exit" /\ (spc[s] \in {"top", "count"} => s_i[s] = 0)
  BY DEF StopInv, LastPass
<1>2. ASSUME NEW s \in Servers PROVE LastPass(s)'
  <2>1. ~s_quitting'[s] /\ spc'[s] # "exit" /\ (spc'[s] \in {"top", "count"} => s_i'[s] = 0)
    BY <1>1 DEF srv
  <2> QED
    BY <2>1 DEF LastPass
<1>3. LastPassServes'
  BY <1>1 DEF LastPassServes, srv
<1>4. ~quitting' /\ lines_at_quit' \in [Clients -> [Servers -> Nat]]
  BY DEF StopInv
<1> QED
  BY <1>2, <1>3, <1>4 DEF StopInv

\* A step of a client: where it can happen and what it leaves alone.
Alone(c) ==
  /\ UNCHANGED <<nclients, mainvars, srv>>
  /\ \A d \in Clients : d # c => cpc'[d] = cpc[d] /\ queue'[d] = queue[d]

LEMMA InputAlone ==
  ASSUME BufferTypes, NEW c \in Clients, NEW s, NEW m, inpb_flush(c, s) \/ inpb_write(c, s, m)
  PROVE  \A d \in Clients : d # c => queue'[d] = queue[d]
BY DEF BufferTypes, inpb_flush, inpb_write, inbufs

LEMMA GotoAlone ==
  ASSUME ClientTypes, NEW c \in Clients, NEW pc, Goto(c, pc)
  PROVE  \A d \in Clients : d # c => cpc'[d] = cpc[d]
BY DEF ClientTypes, Goto

LEMMA CallShape ==
  ASSUME Types, NEW c \in Clients, Call(c)
  PROVE  (MayCall(c) \/ cpc[c] # "idle") /\ Alone(c)
<1>1. ClientTypes /\ BufferTypes
  BY DEF Types
<1>2. CASE \E op \in Ops, s \in Servers : smp_hash_request(c, op, s)
  BY <1>1, <1>2, GotoAlone DEF smp_hash_request, Alone, inbufs
<1>3. CASE \E n \in held[c] : mp_send_release(c, n)
  BY <1>1, <1>3, GotoAlone DEF mp_send_release, Alone, inbufs
<1>4. CASE smp_get_next(c)
  BY <1>1, <1>4, GotoAlone DEF smp_get_next, Alone, inbufs
<1>5. CASE TakeValue(c)
  BY <1>1, <1>5, GotoAlone DEF TakeValue, Return, Alone, inbufs
<1>6. CASE \E n \in 1..MaxRequests : \E q \in [1..n -> [op : Ops, s : Servers]] : smp_hash_doall(c, q)
  BY <1>1, <1>6, GotoAlone DEF smp_hash_doall, Alone, inbufs
<1> QED
  BY <1>2, <1>3, <1>4, <1>5, <1>6 DEF Call

LEMMA InCallShape ==
  ASSUME Types, NEW c \in Clients, InCall(c)
  PROVE  cpc[c] # "idle" /\ Alone(c)
<1>1. ClientTypes /\ BufferTypes
  BY DEF Types
<1>2. CASE LimitPending(c)
  BY <1>1, <1>2, GotoAlone DEF LimitPending, Alone, inbufs
<1>3. CASE SendRequest(c)
  BY <1>1, <1>3, GotoAlone, InputAlone DEF SendRequest, Return, Alone
<1>4. CASE SendRelease(c)
  <2>1. \A d \in Clients : d # c => cpc'[d] = cpc[d]
    BY <1>1, <1>4, GotoAlone DEF SendRelease, Return
  <2> QED
    BY <1>1, <1>4, <2>1, InputAlone DEF SendRelease, Alone
<1>5. CASE ForceFlush(c)
  BY <1>1, <1>5, GotoAlone, InputAlone DEF ForceFlush, Return, Alone
<1>6. CASE TryRead(c)
  BY <1>1, <1>6, GotoAlone DEF TryRead, ReadValue, Alone, inbufs
<1>7. CASE FlushBeforeBlock(c)
  BY <1>1, <1>7, GotoAlone, InputAlone DEF FlushBeforeBlock, Alone
<1>8. CASE BlockingRead(c)
  BY <1>1, <1>8, GotoAlone DEF BlockingRead, ReadValue, Alone, inbufs
<1>9. CASE cpc[c] = "take" /\ TakeValue(c)
  BY <1>1, <1>9, GotoAlone DEF TakeValue, Return, Alone, inbufs
<1>10. CASE DoallLimit(c)
  BY <1>1, <1>10, GotoAlone DEF DoallLimit, Alone, inbufs
<1>11. CASE DoallRead(c)
  BY <1>1, <1>11, GotoAlone DEF DoallRead, DoallValue, Alone, inbufs
<1>12. CASE DoallFlush(c)
  BY <1>1, <1>12, GotoAlone, InputAlone DEF DoallFlush, Alone
<1>13. CASE DoallBlock(c)
  BY <1>1, <1>13, GotoAlone DEF DoallBlock, DoallValue, Alone, inbufs
<1>14. CASE DoallSend(c)
  BY <1>1, <1>14, GotoAlone, InputAlone DEF DoallSend, Alone
<1>15. CASE DoallFlushAll(c)
  BY <1>1, <1>15, InputAlone DEF DoallFlushAll, Alone
<1>16. CASE DoallDrain(c)
  BY <1>1, <1>16 DEF DoallDrain, DoallValue, Alone, inbufs
<1>17. CASE DoallReturn(c)
  BY <1>1, <1>17, GotoAlone DEF DoallReturn, Alone, inbufs
<1> QED
  BY <1>2, <1>3, <1>4, <1>5, <1>6, <1>7, <1>8, <1>9, <1>10, <1>11, <1>12, <1>13, <1>14, <1>15, <1>16, <1>17
     DEF InCall

LEMMA ClientStop ==
  ASSUME Types, StopInv, NEW c \in Clients, MayCall(c) \/ cpc[c] # "idle", Alone(c)
  PROVE  StopInv'
<1>1. mpc = "run" /\ c < nclients /\ ~quitting
  <2>1. /\ nclients \in Nat /\ c \in Nat
    BY SizesAssumption, Sizes DEF Types, MainTypes
  <2>2. mpc = "run" /\ c < nclients
    BY <2>1 DEF StopInv, Quiet, MayCall
  <2> QED
    BY <2>2 DEF StopInv, Quiet
<1>2. Quiet'
  <2>1. mpc' = mpc /\ quitting' = quitting /\ nclients' = nclients
    BY DEF Alone, mainvars
  <2>2. ASSUME NEW d \in Clients, d >= nclients PROVE cpc'[d] = "idle" /\ \A s \in Servers : queue'[d][s] = <<>>
    <3>1. d # c
      <4>1. nclients \in Nat /\ c \in Nat /\ d \in Nat
        BY Sizes DEF Types, MainTypes
      <4> QED
        BY <1>1, <2>2, <4>1
    <3>2. cpc'[d] = cpc[d] /\ queue'[d] = queue[d]
      BY <3>1, Zenon DEF Alone
    <3>3. cpc[d] = "idle" /\ \A s \in Servers : queue[d][s] = <<>>
      BY <2>2, Zenon DEF StopInv, Quiet
    <3> QED
      BY <3>2, <3>3, Zenon
  <2> QED
    BY <1>1, <2>1, <2>2 DEF Quiet
<1> QED
  BY <1>1, <1>2, StopUnset DEF Alone, mainvars


\* The server has taken a line of client c since quitting was set.
Taken(c, s) == lines_at_quit[c][s] > 0 => Len(queue[c][s]) < lines_at_quit[c][s]

\* Server s is where it was in its pass.
SamePass(s) ==
  /\ spc'[s] = spc[s] /\ s_quitting'[s] = s_quitting[s]
  /\ s_nclients'[s] = s_nclients[s] /\ s_i'[s] = s_i[s]

\* A step of server s0 that may take lines of its own.
LEMMA ServerStop ==
  ASSUME Types, StopInv, NEW s0 \in Servers, UNCHANGED <<nclients, mainvars, ctl>>,
         \A s \in Servers : s # s0 => SamePass(s),
         \A c \in Clients, s \in Servers : s # s0 => queue'[c][s] = queue[c][s],
         \A c \in Clients : \/ queue'[c][s0] = queue[c][s0]
                            \/ c < nclients /\ Len(queue'[c][s0]) < Len(queue[c][s0]),
         BufferTypes', LastPass(s0)', spc'[s0] = "exit" => \A c \in Clients : Taken(c, s0)'
  PROVE  StopInv'
<1>1. /\ mpc' = mpc /\ quitting' = quitting /\ lines_at_quit' = lines_at_quit /\ nclients' = nclients
      /\ cpc' = cpc
  BY DEF mainvars, ctl
<1>2. Quiet'
  <2>1. ASSUME NEW c \in Clients, c >= nclients, NEW s \in Servers PROVE queue'[c][s] = queue[c][s]
    <3>1. c \in Nat /\ nclients \in Nat
      BY SizesAssumption, Sizes DEF Types, MainTypes
    <3>2. ~(c < nclients)
      BY <2>1, <3>1
    <3> QED
      BY <3>2
  <2>2. Quiet
    BY DEF StopInv
  <2>3. (mpc' # "run" => \A c \in Clients : cpc'[c] = "idle") /\ (quitting' <=> mpc' \in {"join", "stopped"})
    BY <1>1, <2>2 DEF Quiet
  <2>4. \A c \in Clients : c >= nclients' => cpc'[c] = "idle" /\ \A s \in Servers : queue'[c][s] = <<>>
    BY <1>1, <2>1, <2>2 DEF Quiet
  <2> QED
    BY <2>3, <2>4 DEF Quiet
<1>3. ASSUME NEW s \in Servers PROVE LastPass(s)'
  <2>1. CASE s = s0
    BY <2>1
  <2>2. CASE s # s0
    <3>1. LastPass(s)
      BY DEF StopInv
    <3>2. /\ spc'[s] = spc[s] /\ s_quitting'[s] = s_quitting[s]
          /\ s_nclients'[s] = s_nclients[s] /\ s_i'[s] = s_i[s]
          /\ \A c \in Clients : queue'[c][s] = queue[c][s]
      BY <2>2 DEF SamePass
    <3> QED
      BY <1>1, <3>1, <3>2 DEF LastPass
  <2> QED
    BY <2>1, <2>2
<1>4. LastPassServes'
  <2> SUFFICES ASSUME NEW c \in Clients, NEW s \in Servers, spc'[s] = "exit", lines_at_quit'[c][s] > 0
               PROVE  Len(queue'[c][s]) < lines_at_quit'[c][s]
    BY DEF LastPassServes
  <2>1. CASE s = s0
    BY <2>1 DEF Taken
  <2>2. CASE s # s0
    BY <1>1, <2>2 DEF StopInv, LastPassServes, SamePass
  <2> QED
    BY <2>1, <2>2
<1>5. quitting' => \A c \in Clients, s \in Servers : Len(queue'[c][s]) <= lines_at_quit'[c][s]
  <2> SUFFICES ASSUME quitting', NEW c \in Clients, NEW s \in Servers
               PROVE  Len(queue'[c][s]) <= lines_at_quit'[c][s]
    OBVIOUS
  <2>1. Len(queue[c][s]) <= lines_at_quit[c][s]
    BY <1>1 DEF StopInv
  <2>2. queue'[c][s] \in Seq(Seq(Msgs)) /\ queue[c][s] \in Seq(Seq(Msgs))
    BY DEF Types, BufferTypes
  <2>3. Len(queue'[c][s]) \in Nat /\ Len(queue[c][s]) \in Nat /\ lines_at_quit[c][s] \in Nat
    BY <2>2 DEF StopInv
  <2>4. queue'[c][s] = queue[c][s] \/ Len(queue'[c][s]) < Len(queue[c][s])
    OBVIOUS
  <2> QED
    BY <1>1, <2>1, <2>3, <2>4
<1> QED
  BY <1>1, <1>2, <1>3, <1>4, <1>5 DEF StopInv

\* In its last pass a server has taken a line of the clients before its place.
LEMMA TakenFacts ==
  ASSUME StopInv, NEW s \in Servers, s_quitting[s], spc[s] \in {"poll", "serve", "publish"}
  PROVE  /\ quitting /\ s_nclients[s] = nclients
         /\ \A c \in Clients : c < s_i[s] \/ (c = s_i[s] /\ spc[s] # "poll") => Taken(c, s)
BY DEF StopInv, LastPass, Taken

LEMMA ServerKeepsStop ==
  ASSUME PipeInv, StopInv, NEW s0 \in Servers, hash_table_server(s0), BufferTypes'
  PROVE  StopInv'
<1>1. /\ Types /\ ServerTypes /\ BufferTypes /\ ServerOK(s0) /\ s_i[s0] \in Nat /\ s_nclients[s0] \in Nat
      /\ nclients \in Nat
  BY ServerFields DEF PipeInv, Types
<1>2. LastPass(s0)
  BY DEF StopInv
<1>3. CASE ReadQuitting(s0)
  <2>1. s_quitting'[s0] = quitting /\ spc'[s0] = "count" /\ s_i'[s0] = 0 /\ quitting' = quitting
    BY <1>1, <1>2, <1>3 DEF ReadQuitting, SGoto, ServerTypes, LastPass, mainvars
  <2>2. LastPass(s0)'
    BY <2>1 DEF LastPass
  <2>3. /\ UNCHANGED <<nclients, mainvars, ctl, queue>>
        /\ \A s \in Servers : s # s0 => SamePass(s)
    BY <1>1, <1>3 DEF ReadQuitting, SGoto, ServerTypes, inbufs, SamePass
  <2> QED
    BY <1>1, <2>1, <2>2, <2>3, ServerStop
<1>4. CASE ReadNclients(s0)
  <2>1. /\ s_quitting'[s0] = s_quitting[s0] /\ spc'[s0] = "poll" /\ s_i'[s0] = 0 /\ quitting' = quitting
        /\ s_nclients'[s0] = nclients /\ nclients' = nclients
    BY <1>1, <1>2, <1>4 DEF ReadNclients, SGoto, ServerTypes, LastPass, mainvars
  <2>2. LastPass(s0)'
    <3>1. \A c \in Clients : ~(c < 0)
      BY Sizes
    <3>2. s_quitting[s0] => quitting
      BY <1>2 DEF LastPass
    <3> QED
      BY <2>1, <3>1, <3>2 DEF LastPass
  <2>3. /\ UNCHANGED <<nclients, mainvars, ctl, queue>>
        /\ \A s \in Servers : s # s0 => SamePass(s)
    BY <1>1, <1>4 DEF ReadNclients, SGoto, ServerTypes, inbufs, SamePass
  <2> QED
    BY <1>1, <2>1, <2>2, <2>3, ServerStop
<1>5. CASE Poll(s0)
  <2>1. PICK c0 : c0 = s_i[s0]
    OBVIOUS
  <2>2. c0 \in Clients /\ c0 \in Nat /\ spc[s0] = "poll" /\ c0 < nclients
    BY <1>1, <1>5, <2>1, ServerFields DEF Poll, ServerOK
  <2>3. UNCHANGED <<nclients, mainvars, ctl, s_quitting, s_nclients>>
    BY <1>5 DEF Poll
  <2>4. \A c \in Clients, s \in Servers : queue'[c][s] \in Seq(Seq(Msgs)) /\ queue[c][s] \in Seq(Seq(Msgs))
    BY <1>1 DEF BufferTypes
  <2>5. ASSUME quitting PROVE Len(queue[c0][s0]) <= lines_at_quit[c0][s0] /\ lines_at_quit[c0][s0] \in Nat
    BY <2>2, <2>5 DEF StopInv
  <2>6. s_quitting[s0] => quitting /\ s_nclients[s0] = nclients /\ \A c \in Clients : c < c0 => Taken(c, s0)
    BY <2>1, <2>2, TakenFacts
  <2>7. CASE queue[c0][s0] = <<>>
    <3>1. s_i' = [s_i EXCEPT ![s0] = c0 + 1] /\ UNCHANGED <<spc, queue, localbuf>>
      BY <1>5, <2>1, <2>7 DEF Poll
    <3>2. spc'[s0] = "poll" /\ s_i'[s0] = c0 + 1 /\ s_quitting'[s0] = s_quitting[s0] /\ s_nclients'[s0] = s_nclients[s0]
      BY <1>1, <2>2, <2>3, <3>1 DEF ServerTypes
    <3>3. Taken(c0, s0)
      BY <2>7 DEF Taken
    <3>4. s_quitting[s0] => \A c \in Clients : c < c0 + 1 => Taken(c, s0)
      <4>1. \A c \in Clients : c < c0 + 1 => c < c0 \/ c = c0
        BY <2>2, Sizes
      <4> QED
        BY <2>6, <3>3, <4>1
    <3>5. quitting' = quitting /\ nclients' = nclients /\ lines_at_quit' = lines_at_quit /\ queue' = queue
      BY <2>3, <3>1 DEF mainvars
    <3>6. LastPass(s0)'
      BY <2>6, <3>2, <3>4, <3>5 DEF LastPass, Taken
    <3>7. \A s \in Servers : s # s0 => SamePass(s)
      BY <1>1, <2>3, <3>1 DEF ServerTypes, SamePass
    <3> QED
      BY <1>1, <2>3, <3>2, <3>5, <3>6, <3>7, ServerStop
  <2>8. CASE queue[c0][s0] # <<>>
    <3>1. /\ queue' = [queue EXCEPT ![c0][s0] = Tail(queue[c0][s0])]
          /\ spc' = [spc EXCEPT ![s0] = "serve"] /\ UNCHANGED s_i
      BY <1>5, <2>1, <2>8 DEF Poll, SGoto
    <3>2. spc'[s0] = "serve" /\ s_i'[s0] = c0 /\ s_quitting'[s0] = s_quitting[s0] /\ s_nclients'[s0] = s_nclients[s0]
      BY <1>1, <2>1, <2>3, <3>1 DEF ServerTypes
    <3>3. queue'[c0][s0] = Tail(queue[c0][s0])
      BY <1>1, <2>2, <3>1 DEF BufferTypes
    <3>4. Len(queue'[c0][s0]) = Len(queue[c0][s0]) - 1 /\ Len(queue[c0][s0]) \in Nat
      BY <2>2, <2>4, <2>8, <3>3
    <3>5. \A c \in Clients, s \in Servers : c # c0 \/ s # s0 => queue'[c][s] = queue[c][s]
      BY <1>1, <3>1 DEF BufferTypes
    <3>6. quitting' = quitting /\ nclients' = nclients /\ lines_at_quit' = lines_at_quit
      BY <2>3 DEF mainvars
    <3>7. s_quitting[s0] => Len(queue'[c0][s0]) < lines_at_quit[c0][s0]
      BY <2>5, <2>6, <3>4
    <3>8. LastPass(s0)'
      <4>1. s_quitting[s0] => \A c \in Clients : c < c0 => Taken(c, s0)'
        <5>1. \A c \in Clients : c < c0 => c # c0
          BY <2>2, Sizes
        <5> QED
          BY <2>6, <3>5, <3>6, <5>1 DEF Taken
      <4>2. s_quitting[s0] => Taken(c0, s0)'
        BY <3>6, <3>7 DEF Taken
      <4> QED
        BY <2>6, <3>2, <3>6, <4>1, <4>2 DEF LastPass, Taken
    <3>9. \A s \in Servers : s # s0 => SamePass(s)
      BY <1>1, <2>3, <3>1 DEF ServerTypes, SamePass
    <3>10. \A c \in Clients : \/ queue'[c][s0] = queue[c][s0]
                              \/ c < nclients /\ Len(queue'[c][s0]) < Len(queue[c][s0])
      BY <2>2, <3>4, <3>5
    <3> QED
      BY <1>1, <2>3, <3>2, <3>5, <3>8, <3>9, <3>10, ServerStop
  <2> QED
    BY <2>7, <2>8
<1>6. CASE Serve(s0)
  <2>1. /\ s_quitting'[s0] = s_quitting[s0] /\ spc'[s0] = "publish" /\ s_i'[s0] = s_i[s0] /\ spc[s0] = "serve"
        /\ s_nclients'[s0] = s_nclients[s0]
    BY <1>1, <1>6 DEF Serve, SGoto, ServerTypes
  <2>2. UNCHANGED <<nclients, mainvars, ctl, queue>> /\ nclients' = nclients
        /\ quitting' = quitting /\ lines_at_quit' = lines_at_quit /\ queue' = queue
    BY <1>6 DEF Serve, inbufs, mainvars
  <2>3. LastPass(s0)'
    BY <1>2, <2>1, <2>2 DEF LastPass
  <2>4. \A s \in Servers : s # s0 => SamePass(s)
    BY <1>1, <1>6 DEF Serve, SGoto, ServerTypes, SamePass
  <2> QED
    BY <1>1, <2>1, <2>2, <2>3, <2>4, ServerStop
<1>7. CASE Publish(s0)
  <2>1. /\ s_quitting'[s0] = s_quitting[s0] /\ spc'[s0] = "poll" /\ s_i'[s0] = s_i[s0] + 1 /\ spc[s0] = "publish"
        /\ s_nclients'[s0] = s_nclients[s0]
    BY <1>1, <1>7 DEF Publish, SGoto, ServerTypes
  <2>2. UNCHANGED <<nclients, mainvars, ctl, queue>> /\ nclients' = nclients
        /\ quitting' = quitting /\ lines_at_quit' = lines_at_quit /\ queue' = queue
    BY <1>7 DEF Publish, inbufs, mainvars
  <2>3. s_quitting[s0] => quitting /\ s_nclients[s0] = nclients /\ \A c \in Clients : c < s_i[s0] + 1 => Taken(c, s0)
    <3>1. \A c \in Clients : c < s_i[s0] + 1 => c < s_i[s0] \/ c = s_i[s0]
      BY <1>1, Sizes
    <3> QED
      BY <2>1, <3>1, TakenFacts
  <2>4. LastPass(s0)'
    BY <2>1, <2>2, <2>3 DEF LastPass, Taken
  <2>5. \A s \in Servers : s # s0 => SamePass(s)
    BY <1>1, <1>7 DEF Publish, SGoto, ServerTypes, SamePass
  <2> QED
    BY <1>1, <2>1, <2>2, <2>4, <2>5, ServerStop
<1>8. CASE EndPass(s0)
  <2>1. PICK pc : pc = IF s_quitting[s0] THEN "exit" ELSE "top"
    OBVIOUS
  <2>2. /\ s_quitting'[s0] = s_quitting[s0] /\ spc'[s0] = pc /\ s_i'[s0] = 0
        /\ spc[s0] = "poll" /\ s_i[s0] >= s_nclients[s0]
    BY <1>1, <1>8, <2>1 DEF EndPass, SGoto, ServerTypes
  <2>3. UNCHANGED <<nclients, mainvars, ctl, queue>> /\ nclients' = nclients
        /\ quitting' = quitting /\ lines_at_quit' = lines_at_quit /\ queue' = queue
    BY <1>8 DEF EndPass, inbufs, mainvars
  <2>4. (s_quitting[s0] => quitting) /\ (pc = "exit" => s_quitting[s0]) /\ pc \in {"exit", "top"}
    BY <1>2, <2>1 DEF LastPass
  <2>5. LastPass(s0)'
    BY <2>2, <2>3, <2>4 DEF LastPass
  <2>6. ASSUME pc = "exit", NEW c \in Clients PROVE Taken(c, s0)
    <3>1. s_quitting[s0] /\ s_nclients[s0] = nclients /\ (c < s_i[s0] => Taken(c, s0))
      BY <2>2, <2>4, <2>6, TakenFacts
    <3>2. CASE c < nclients
      BY <1>1, <2>2, <3>1, <3>2, Sizes
    <3>3. CASE ~(c < nclients)
      <4>1. queue[c][s0] = <<>>
        BY <1>1, <3>3, Sizes DEF StopInv, Quiet
      <4> QED
        BY <4>1 DEF Taken
    <3> QED
      BY <3>2, <3>3
  <2>7. \A s \in Servers : s # s0 => SamePass(s)
    BY <1>1, <1>8 DEF EndPass, SGoto, ServerTypes, SamePass
  <2>8. spc'[s0] = "exit" => \A c \in Clients : Taken(c, s0)'
    BY <2>2, <2>3, <2>6 DEF Taken
  <2> QED
    BY <1>1, <2>3, <2>5, <2>7, <2>8, ServerStop
<1> QED
  BY <1>3, <1>4, <1>5, <1>6, <1>7, <1>8 DEF hash_table_server


LEMMA InitStop == Init => StopInv
<1> SUFFICES ASSUME Init PROVE StopInv
  OBVIOUS
<1>1. Quiet
  BY DEF Init, Quiet
<1>2. ASSUME NEW s \in Servers PROVE LastPass(s) /\ ~s_quitting[s] /\ spc[s] = "top"
  <2>1. ~s_quitting[s] /\ spc[s] = "top" /\ s_i[s] = 0
    BY DEF Init
  <2> QED
    BY <2>1 DEF LastPass
<1>3. LastPassServes
  BY <1>2 DEF LastPassServes
<1>4. lines_at_quit \in [Clients -> [Servers -> Nat]]
  BY DEF Init
<1>5. ~quitting
  BY DEF Init
<1> QED
  BY <1>1, <1>2, <1>3, <1>4, <1>5 DEF StopInv

LEMMA NextStop == PipeInv /\ PipeInv' /\ StopInv /\ [Next]_vars => StopInv'
<1> SUFFICES ASSUME PipeInv, PipeInv', StopInv, [Next]_vars PROVE StopInv'
  OBVIOUS
<1>1. Types /\ BufferTypes /\ BufferTypes' /\ nclients \in Nat /\ NCLIENTS \in Nat /\ MainTypes
  BY SizesAssumption DEF PipeInv, Types, MainTypes
<1>2. CASE UNCHANGED vars
  BY <1>2 DEF vars, mainvars, inbufs, ctl, srv, StopInv, Quiet, LastPass, LastPassServes
<1>3. CASE create_hash_table_client
  <2>1. /\ mpc = "run" /\ nclients' = nclients + 1
        /\ UNCHANGED <<mpc, quitting, lines_at_quit, queue, cpc, srv>>
    BY <1>3 DEF create_hash_table_client, mainvars, inbufs, ctl
  <2>2. ~quitting
    BY <2>1 DEF StopInv, Quiet
  <2>3. \A c \in Clients : c >= nclients' => c >= nclients
    BY <1>1, <2>1, Sizes
  <2>4. Quiet'
    BY <2>1, <2>3 DEF StopInv, Quiet
  <2> QED
    BY <2>1, <2>2, <2>4, StopUnset
<1>4. CASE \E c \in Clients : Call(c) \/ InCall(c)
  <2>1. PICK c \in Clients : Call(c) \/ InCall(c)
    BY <1>4
  <2>2. (MayCall(c) \/ cpc[c] # "idle") /\ Alone(c)
    BY <1>1, <2>1, CallShape, InCallShape
  <2> QED
    BY <1>1, <2>2, ClientStop
<1>5. CASE \E s \in Servers : hash_table_server(s)
  BY <1>1, <1>5, ServerKeepsStop
<1>6. CASE stop_hash_table_servers
  <2>1. /\ mpc = "run" /\ mpc' = "flush" /\ (\A c \in Clients : cpc[c] = "idle")
        /\ UNCHANGED <<nclients, quitting, lines_at_quit, queue, cpc, srv>>
    BY <1>6 DEF stop_hash_table_servers, inbufs, ctl
  <2>2. ~quitting
    BY <2>1 DEF StopInv, Quiet
  <2>3. Quiet'
    BY <2>1, <2>2 DEF StopInv, Quiet
  <2> QED
    BY <2>1, <2>2, <2>3, StopUnset
<1>7. CASE StopFlush
  <2>1. /\ mpc = "flush" /\ flushed < NSERVERS * nclients
        /\ UNCHANGED <<nclients, mpc, quitting, lines_at_quit, cpc, srv>>
    BY <1>7 DEF StopFlush, ctl
  <2>2. ~quitting
    BY <2>1 DEF StopInv, Quiet
  <2>3. PICK c0 \in Clients : c0 < nclients /\ \A d \in Clients : d # c0 => queue'[d] = queue[d]
    <3>1. flushed % nclients \in Clients
      BY <1>1, <2>1, NextFlushed
    <3>2. flushed % nclients < nclients
      <4>1. nclients # 0
        <5>1. NSERVERS * 0 = 0 /\ ~(flushed < 0)
          BY <1>1, Sizes DEF MainTypes
        <5> QED
          BY <2>1, <5>1
      <4> QED
        BY <1>1, <4>1, RingSlots DEF MainTypes
    <3>3. \A d \in Clients : d # flushed % nclients => queue'[d] = queue[d]
      BY <1>1, <1>7, <3>1, InputAlone DEF StopFlush
    <3> QED
      BY <3>1, <3>2, <3>3
  <2>4. \A c \in Clients : c >= nclients => c # c0
    <3>1. nclients \in Nat /\ Clients \subseteq Nat
      BY <1>1, Sizes DEF MainTypes
    <3> QED
      BY <2>3, <3>1
  <2>5. Quiet'
    <3>1. Quiet
      BY DEF StopInv
    <3>2. \A c \in Clients : c >= nclients' => cpc'[c] = "idle" /\ \A s \in Servers : queue'[c][s] = <<>>
      BY <2>1, <2>3, <2>4, <3>1 DEF Quiet
    <3>3. (mpc' # "run" => \A c \in Clients : cpc'[c] = "idle") /\ (quitting' <=> mpc' \in {"join", "stopped"})
      BY <2>1, <3>1 DEF Quiet
    <3> QED
      BY <3>2, <3>3 DEF Quiet
  <2> QED
    BY <2>1, <2>2, <2>5, StopUnset
<1>8. CASE SetQuitting
  <2>1. /\ mpc = "flush" /\ mpc' = "join" /\ quitting'
        /\ lines_at_quit' = [c \in Clients |-> [s \in Servers |-> Len(queue[c][s])]]
        /\ UNCHANGED <<nclients, queue, cpc, srv>>
    BY <1>8 DEF SetQuitting, inbufs, ctl
  <2>2. ~quitting
    BY <2>1 DEF StopInv, Quiet
  <2>3. Quiet'
    BY <2>1 DEF StopInv, Quiet
  <2>4. ASSUME NEW s \in Servers
        PROVE  ~s_quitting'[s] /\ spc'[s] # "exit" /\ (spc'[s] \in {"top", "count"} => s_i'[s] = 0)
    BY <2>1, <2>2 DEF StopInv, LastPass, srv
  <2>5. ASSUME NEW s \in Servers PROVE LastPass(s)'
    BY <2>4 DEF LastPass
  <2>6. LastPassServes'
    BY <2>4 DEF LastPassServes
  <2>7. ASSUME NEW c \in Clients, NEW s \in Servers
        PROVE  Len(queue[c][s]) \in Nat /\ Len(queue'[c][s]) <= lines_at_quit'[c][s]
    <3>1. queue[c][s] \in Seq(Seq(Msgs))
      BY <1>1 DEF BufferTypes
    <3>2. Len(queue[c][s]) \in Nat
      BY <3>1
    <3> QED
      BY <2>1, <3>2
  <2>8. lines_at_quit' \in [Clients -> [Servers -> Nat]]
    BY <2>1, <2>7
  <2> QED
    BY <2>3, <2>5, <2>6, <2>7, <2>8 DEF StopInv
<1>9. CASE Join
  BY <1>9 DEF Join, inbufs, ctl, srv, StopInv, Quiet, LastPass, LastPassServes
<1>10. CASE Stopped
  BY <1>2, <1>10 DEF Stopped
<1> QED
  BY <1>2, <1>3, <1>4, <1>5, <1>6, <1>7, <1>8, <1>9, <1>10 DEF Next, InStop

-----------------------------------------------------------------------------
(* Theorems *)

\* The inductive invariants hold.
THEOREM PipelineInvariant == Spec => [](PipeInv /\ StopInv)
<1>1. Init => PipeInv /\ StopInv
  BY InitPipe, InitStop
<1>2. PipeInv /\ StopInv /\ [Next]_vars => (PipeInv /\ StopInv)'
  BY NextPipe, NextStop
<1> QED
  BY <1>1, <1>2, PTL DEF Spec

\* The threads are where they can be, no caller of the pending API has more
\* requests pending at a server than its ring has room for, and no batch is
\* larger than a line.
THEOREM TypesKept == Spec => []TypeOK
<1>1. PipeInv => TypeOK
  <2> SUFFICES ASSUME PipeInv PROVE TypeOK
    OBVIOUS
  <2>1. ClientTypes /\ ServerTypes /\ MainTypes
    BY DEF PipeInv, Types
  <2>2. ASSUME NEW c \in Clients, NEW s \in Servers
        PROVE  pending_count[c][s] \in 0..MAX_PENDING_PER_SERVER
    <3>1. CASE c \in DoAllClients
      BY <3>1, Sizes DEF PipeInv, ClientOK, DoallOK
    <3>2. CASE c \notin DoAllClients
      <4>1. Cardinality(Awaited(c, s)) = pending_count[c][s] /\ pending_count[c][s] <= MAX_PENDING_PER_SERVER
        BY <3>2 DEF PipeInv, PairOK, Count
      <4>2. Cardinality(Awaited(c, s)) \in Nat
        BY <2>1, AwaitedFacts DEF PipeInv
      <4> QED
        BY <4>1, <4>2, Sizes
    <3> QED
      BY <3>1, <3>2
  <2>3. pending_count \in [Clients -> [Servers -> 0..MAX_PENDING_PER_SERVER]]
    BY <2>1, <2>2 DEF ClientTypes
  <2>4. cpc \in [Clients -> {"idle", "limit", "send", "read", "flush", "block", "take", "force", "doall",
                         "doall_read", "doall_flush", "doall_block", "doall_send", "doall_end"}]
    BY <2>1 DEF ClientTypes, ClientStates, WaitStates, DoallStates, DoallWaits
  <2>5. \A c \in Clients, s \in Servers : BatchWords(local[c][s]) <= INPB_SIZE
    BY DEF PipeInv, PairOK
  <2> QED
    BY <2>1, <2>3, <2>4, <2>5 DEF TypeOK, ServerTypes, MainTypes
<1> QED
  BY <1>1, PipelineInvariant, PTL

\* The answers on their way from a server to a client are exactly those to the
\* requests the client awaits from it, in the order of the requests.
THEOREM AnswersKept == Spec => []AnswersConserved
<1>1. PipeInv => AnswersConserved
  <2> SUFFICES ASSUME PipeInv, NEW c \in Clients, NEW s \in Servers
               PROVE  /\ {Request(c, s, x) : x \in Coming(c, s)} = Awaited(c, s)
                      /\ \A x, y \in Coming(c, s) : Sooner(x, y) => Request(c, s, x) < Request(c, s, y)
    BY DEF AnswersConserved
  <2>1. PICK lo, hi, r, bs, A, C, R :
          /\ lo = local_rd_index[c][s] /\ hi = out_wr[c][s] /\ r = out[c][s] /\ bs = Batches(c, s)
          /\ A = Awaited(c, s) /\ C = Coming(c, s) /\ R = [x \in Coming(c, s) |-> Request(c, s, x)]
    OBVIOUS
  <2>2. lo \in Nat /\ hi \in Nat
    BY <2>1, PairTypes DEF PipeInv, Types
  <2>3. bs = Lines(Served(c, s), queue[c][s], local[c][s])
    BY <2>1 DEF Batches, Lines, Served
  <2>4. Flow(lo, hi, r, bs, A)
    BY <2>1, <2>3 DEF PipeInv, PairOK
  <2>5. Len(bs) \in Nat /\ DOMAIN bs = 1..Len(bs)
    <3>1. Pieces(bs, Served(c, s), queue[c][s], Len(queue[c][s]), local[c][s]) /\ Len(queue[c][s]) \in Nat
      BY <2>3, PairTypes, LinesPieces DEF PipeInv, Types
    <3>2. bs \in Seq(Seq(Msgs))
      BY <2>3, PairTypes DEF PipeInv, Types, Lines
    <3> QED
      BY <3>1, <3>2 DEF Pieces
  <2>6. C = ({0} \X (lo..hi - 1)) \cup UNION {{k} \X Asked(bs[k]) : k \in 1..Len(bs)}
    BY <2>1, <2>5 DEF Coming
  <2>7. C = Places(lo, hi, bs)
    BY <2>6 DEF Places
  <2>8. ASSUME NEW i \in lo..hi - 1 PROVE R[<<0, i>>] = Slot(r, i)
    <3>1. <<0, i>> \in C /\ <<0, i>>[1] = 0 /\ <<0, i>>[2] = i
      BY <2>6
    <3> QED
      BY <2>1, <3>1 DEF Request, Slot
  <2>9. ASSUME NEW k \in 1..Len(bs), NEW i \in Asked(bs[k]) PROVE R[<<k, i>>] = Id(bs, k, i)
    <3>1. <<k, i>> \in C /\ <<k, i>>[1] = k /\ <<k, i>>[2] = i /\ k # 0
      BY <2>5, <2>6
    <3> QED
      BY <2>1, <3>1 DEF Request, Id
  <2>10. AnswersAt(R, lo, hi, r, bs)
    BY <2>8, <2>9 DEF AnswersAt
  <2>11. OrderedOnto(R, C, A)
    BY <2>2, <2>4, <2>5, <2>7, <2>10, FlowConserved
  <2>12. \A x \in Coming(c, s) : R[x] = Request(c, s, x)
    BY <2>1
  <2> QED
    BY <2>1, <2>11, <2>12 DEF OrderedOnto
<1> QED
  BY <1>1, PipelineInvariant, PTL

\* A client gets the answers in the order of its requests.
THEOREM OrderKept == Spec => []AnswersInOrder
<1>1. PipeInv => AnswersInOrder
  <2> SUFFICES ASSUME PipeInv, NEW c \in Clients
               PROVE  /\ \A n \in rd_index[c]..wr_index[c] - 1 : pending_values[c][n % MAX_PENDING_SIZE] = n
                      /\ \A n \in 1..Len(batch[c].values) :
                           batch[c].values[n] = Len(req[c]) - batch[c].i + n - 1
    BY DEF AnswersInOrder
  <2>1. CASE c \in DoAllClients
    <3>1. DoallOK(c)
      BY <2>1 DEF PipeInv, ClientOK
    <3>2. rd_index[c]..wr_index[c] - 1 = {}
      BY <3>1 DEF DoallOK
    <3> QED
      BY <3>1, <3>2 DEF DoallOK
  <2>2. CASE c \notin DoAllClients
    <3>1. PendingOK(c)
      BY <2>2 DEF PipeInv, ClientOK
    <3>2. 1..Len(batch[c].values) = {}
      BY <3>1, NothingTyped DEF PendingOK
    <3> QED
      BY <3>1, <3>2 DEF PendingOK
  <2> QED
    BY <2>1, <2>2
<1> QED
  BY <1>1, PipelineInvariant, PTL

\* The counts of pending requests are exact.
THEOREM CountsKept == Spec => []PendingCountExact
<1>1. PipeInv => PendingCountExact
  BY DEF PipeInv, PairOK, PendingCountExact, Count
<1> QED
  BY <1>1, PipelineInvariant, PTL

\* A server that has exited has served a line of every client that had one
\* waiting when quitting was set.
THEOREM LastPassKept == Spec => []LastPassServes
<1>1. StopInv => LastPassServes
  BY DEF StopInv
<1> QED
  BY <1>1, PipelineInvariant, PTL
=============================================================================
