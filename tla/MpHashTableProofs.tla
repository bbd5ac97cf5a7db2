-------------------------- MODULE MpHashTableProofs --------------------------
(***************************************************************************)
(* Proofs about MpHashTable, for every set of clients, keys, elements and  *)
(* buckets and both eviction policies: reference counts are exact, and     *)
(* what a client has keeps its memory and its value.                       *)
(***************************************************************************)
EXTENDS MpHashTable, PartitionOpsProofs, FunctionTheorems

-----------------------------------------------------------------------------
(* The inductive invariant *)

Words == [key : Nat, size : Lines, ref : Int, mask : BOOLEAN]
Messages == [op : {"lookup"}, key : Keys] \cup [op : {"insert"}, key : Keys, size : Sizes]
              \cup [op : {"release"}, e : Elems]
Answers == [op : {"lookup", "insert"}, key : Keys, e : Elems \cup {NULL}]

MpTypes ==
  /\ Sound(p, el) /\ el \in [Elems -> Words]
  /\ live \subseteq Elems
  /\ data \in [Elems -> Keys \cup {NULL}]
  /\ pc \in {"idle", "evict", "abort", "destroyed"}
  /\ ins \in [c : Clients \cup {NULL}, key : Nat, size : Lines]
  /\ in \in [Clients -> Seq(Messages)] /\ out \in [Clients -> Seq(Answers)]
  /\ held \in [Clients -> [Handles -> Nat]] /\ filling \in [Clients -> SUBSET Handles]

\* The bytes in use are those of the elements in the table, and during an
\* insert those of the new element.
SizeCounted ==
  /\ IsFiniteSet(LinesIn(InTable(p), el))
  /\ p.size = TableSize(p, el) + ins.size

\* hash_insert has a client and a key, which the table does not have.
InsertBegun ==
  /\ pc \in {"idle", "destroyed"} => ins.size = 0
  /\ pc = "evict" => /\ ins.c \in Clients /\ ins.key \in Keys
                     /\ \A e \in InTable(p) : el[e].key # ins.key

\* The references to an element, each of which is counted.
RefsFinite ==
  \A e \in Elems : /\ IsFiniteSet(HeldRefs(e)) /\ IsFiniteSet(FillRefs(e))
                   /\ IsFiniteSet(AnswerRefs(e)) /\ IsFiniteSet(ReleaseRefs(e))

\* An element whose bit is set has two references at least, the table's and
\* that of the client that is to fill it.
MaskedReferred == \A e \in Elems : el[e].mask => el[e].ref >= 2

Written(e) == data[e] = el[e].key

\* References are to elements with the key that was asked for, and those of
\* lookups and the table's, once the bit is clear, to elements with a value.
ValuesRight ==
  \A c \in Clients, h \in Handles :
    /\ h \in filling[c] => el[h.e].key = h.key
    /\ held[c][h] > 0 => el[h.e].key = h.key /\ Written(h.e)
AnswersRight ==
  \A c \in Clients : \A i \in 1..Len(out[c]) :
    out[c][i].e # NULL =>
      /\ el[out[c][i].e].key = out[c][i].key
      /\ out[c][i].op = "lookup" => Written(out[c][i].e)
ReleasesRight ==
  \A c \in Clients : \A i \in 1..Len(in[c]) : in[c][i].op = "release" => Written(in[c][i].e)
TableRight == \A e \in InTable(p) : ~el[e].mask => Written(e)
RefsRight == ValuesRight /\ AnswersRight /\ ReleasesRight /\ TableRight

InsertAnswer(a, e) == a.op = "insert" /\ a.e = e

\* One client is to fill an element, and it has one answer that says so.
OneFiller ==
  \A e \in Elems, c \in Clients : \A i \in 1..Len(out[c]) :
    InsertAnswer(out[c][i], e) =>
      /\ \A d \in Clients : \A h \in filling[d] : h.e # e
      /\ \A d \in Clients : \A j \in 1..Len(out[d]) :
           InsertAnswer(out[d][j], e) => d = c /\ j = i

\* After destroy_hash_table nothing is left.
NothingLeft ==
  /\ live = {} /\ \A e \in Elems : el[e].ref \in Nat
  /\ \A c \in Clients : filling[c] = {} /\ \A h \in Handles : held[c][h] = 0

MpInv ==
  /\ MpTypes /\ SizeCounted /\ InsertBegun
  /\ pc # "destroyed" => /\ RefsFinite /\ RefCountExact /\ MaskedReferred
                         /\ RefsRight /\ OneFiller
  /\ pc = "destroyed" => NothingLeft


-----------------------------------------------------------------------------
(* Counting messages in queues *)

\* The queues t are the queues s after a message of c is taken, or m sent.
Taken(s, t, c) == s[c] # <<>> /\ t = [s EXCEPT ![c] = Tail(s[c])]
Added(s, t, c, m) == t = [s EXCEPT ![c] = Append(s[c], m)]

\* The places of messages, one by one.
LEMMA PlacesOf ==
  ASSUME NEW S, NEW s \in [Clients -> Seq(S)], NEW M
  PROVE  /\ \A x \in Places(s, M) : \E c \in Clients : \E i \in 1..Len(s[c]) :
              x = <<c, i>> /\ s[c][i] \in M
         /\ \A c \in Clients : \A i \in 1..Len(s[c]) : s[c][i] \in M => <<c, i>> \in Places(s, M)
<1>1. \A c \in Clients : DOMAIN s[c] = 1..Len(s[c])
  OBVIOUS
<1> QED
  BY <1>1 DEF Places

\* A message that is sent takes one place more.
LEMMA PlacesAppend ==
  ASSUME NEW S, NEW s \in [Clients -> Seq(S)], NEW c \in Clients, NEW m \in S, NEW M,
         NEW t, Added(s, t, c, m), IsFiniteSet(Places(s, M))
  PROVE  /\ IsFiniteSet(Places(t, M))
         /\ Cardinality(Places(t, M)) = Cardinality(Places(s, M)) + (IF m \in M THEN 1 ELSE 0)
<1> DEFINE n == Len(s[c]) + 1
           P == Places(s, M)
           Q == Places(t, M)
<1>1. /\ s[c] \in Seq(S) /\ Len(s[c]) \in Nat
      /\ Append(s[c], m) \in Seq(S) /\ Len(Append(s[c], m)) = n
      /\ \A i \in 1..n : Append(s[c], m)[i] = IF i = n THEN m ELSE s[c][i]
  OBVIOUS
<1>2. /\ t \in [Clients -> Seq(S)] /\ t[c] = Append(s[c], m)
      /\ \A d \in Clients : d # c => t[d] = s[d]
  BY <1>1 DEF Added
<1>3. /\ t[c] \in Seq(S) /\ Len(t[c]) = n /\ t[c][n] = m
      /\ \A i \in 1..Len(s[c]) : t[c][i] = s[c][i]
  BY <1>1, <1>2
<1>4. /\ \A x \in P : \E d \in Clients : \E i \in 1..Len(s[d]) : x = <<d, i>> /\ s[d][i] \in M
      /\ \A d \in Clients : \A i \in 1..Len(s[d]) : s[d][i] \in M => <<d, i>> \in P
  BY PlacesOf
<1>5. /\ \A x \in Q : \E d \in Clients : \E i \in 1..Len(t[d]) : x = <<d, i>> /\ t[d][i] \in M
      /\ \A d \in Clients : \A i \in 1..Len(t[d]) : t[d][i] \in M => <<d, i>> \in Q
  <2>1. \A u \in [Clients -> Seq(S)] :
          /\ \A x \in Places(u, M) : \E d \in Clients : \E i \in 1..Len(u[d]) :
               x = <<d, i>> /\ u[d][i] \in M
          /\ \A d \in Clients : \A i \in 1..Len(u[d]) : u[d][i] \in M => <<d, i>> \in Places(u, M)
    BY PlacesOf
  <2> QED
    BY <2>1, <1>2
<1>6. IsFiniteSet(P) /\ Cardinality(P) \in Nat
  BY FS_CardinalityType
<1> HIDE DEF P, Q
<1>7. ASSUME NEW x \in P PROVE x \in Q
  <2>1. PICK d \in Clients : \E i \in 1..Len(s[d]) : x = <<d, i>> /\ s[d][i] \in M
    BY <1>4
  <2>2. PICK i \in 1..Len(s[d]) : x = <<d, i>> /\ s[d][i] \in M
    BY <2>1
  <2>3. CASE d = c
    <3>1. i \in 1..Len(t[c]) /\ t[c][i] = s[c][i]
      BY <2>2, <2>3, <1>1, <1>3
    <3> QED
      BY <3>1, <2>2, <2>3, <1>5
  <2>4. CASE d # c
    BY <2>2, <2>4, <1>2, <1>5
  <2> QED
    BY <2>3, <2>4
<1>8. ASSUME NEW x \in Q PROVE x \in P \/ (x = <<c, n>> /\ m \in M)
  <2>1. PICK d \in Clients : \E i \in 1..Len(t[d]) : x = <<d, i>> /\ t[d][i] \in M
    BY <1>5
  <2>2. PICK i \in 1..Len(t[d]) : x = <<d, i>> /\ t[d][i] \in M
    BY <2>1
  <2>3. CASE d = c
    <3>1. i = n \/ i \in 1..Len(s[c])
      BY <2>2, <2>3, <1>1, <1>3
    <3> QED
      BY <3>1, <2>2, <2>3, <1>3, <1>4
  <2>4. CASE d # c
    BY <2>2, <2>4, <1>2, <1>4
  <2> QED
    BY <2>3, <2>4
<1>9. <<c, n>> \notin P
  BY <1>1, <1>4
<1>10. CASE m \in M
  <2>1. <<c, n>> \in Q
    BY <1>1, <1>3, <1>5, <1>10
  <2>2. Q = P \cup {<<c, n>>}
    BY <2>1, <1>7, <1>8
  <2>3. IsFiniteSet(Q) /\ Cardinality(Q) = Cardinality(P) + 1
    BY <2>2, <1>6, <1>9, FS_AddElement
  <2> QED
    BY <2>3, <1>2, <1>10 DEF P, Q, Bool
<1>11. CASE m \notin M
  <2>1. Q = P
    BY <1>7, <1>8, <1>11
  <2> QED
    BY <2>1, <1>2, <1>6, <1>11 DEF P, Q, Bool
<1> QED
  BY <1>10, <1>11

\* A message that is taken gives its place back; those behind it move up.
LEMMA PlacesTail ==
  ASSUME NEW S, NEW s \in [Clients -> Seq(S)], NEW c \in Clients, NEW M,
         NEW t, Taken(s, t, c), IsFiniteSet(Places(s, M))
  PROVE  /\ Head(s[c]) \in S
         /\ IsFiniteSet(Places(t, M))
         /\ Cardinality(Places(t, M)) = Cardinality(Places(s, M)) - (IF Head(s[c]) \in M THEN 1 ELSE 0)
<1> DEFINE n == Len(s[c])
           P == Places(s, M)
           Q == Places(t, M)
           R == P \ {<<c, 1>>}
           f == [x \in R |-> IF x[1] = c THEN <<c, x[2] - 1>> ELSE x]
<1>1. /\ s[c] \in Seq(S) /\ n \in Nat /\ n > 0
      /\ Tail(s[c]) \in Seq(S) /\ Len(Tail(s[c])) = n - 1
      /\ \A i \in 1..n - 1 : Tail(s[c])[i] = s[c][i + 1]
      /\ Head(s[c]) = s[c][1] /\ Head(s[c]) \in S
  BY DEF Taken
<1>2. /\ t \in [Clients -> Seq(S)] /\ t[c] = Tail(s[c])
      /\ \A d \in Clients : d # c => t[d] = s[d]
  BY <1>1 DEF Taken
<1>3. Len(t[c]) = n - 1 /\ \A i \in 1..n - 1 : t[c][i] = s[c][i + 1]
  BY <1>1, <1>2
<1>4. /\ \A x \in P : \E d \in Clients : \E i \in 1..Len(s[d]) : x = <<d, i>> /\ s[d][i] \in M
      /\ \A d \in Clients : \A i \in 1..Len(s[d]) : s[d][i] \in M => <<d, i>> \in P
  BY PlacesOf
<1>5. /\ \A x \in Q : \E d \in Clients : \E i \in 1..Len(t[d]) : x = <<d, i>> /\ t[d][i] \in M
      /\ \A d \in Clients : \A i \in 1..Len(t[d]) : t[d][i] \in M => <<d, i>> \in Q
  <2>1. \A u \in [Clients -> Seq(S)] :
          /\ \A x \in Places(u, M) : \E d \in Clients : \E i \in 1..Len(u[d]) :
               x = <<d, i>> /\ u[d][i] \in M
          /\ \A d \in Clients : \A i \in 1..Len(u[d]) : u[d][i] \in M => <<d, i>> \in Places(u, M)
    BY PlacesOf
  <2> QED
    BY <2>1, <1>2
<1>6. IsFiniteSet(P) /\ Cardinality(P) \in Nat
  BY FS_CardinalityType
<1> HIDE DEF P, Q
<1>7. <<c, 1>> \in P <=> Head(s[c]) \in M
  BY <1>1, <1>4
<1>8. IsFiniteSet(R) /\ Cardinality(R) = Cardinality(P) - (IF Head(s[c]) \in M THEN 1 ELSE 0)
  <2>1. /\ IsFiniteSet(R)
        /\ Cardinality(R) = IF <<c, 1>> \in P THEN Cardinality(P) - 1 ELSE Cardinality(P)
    BY <1>6, FS_RemoveElement
  <2> QED
    BY <2>1, <1>6, <1>7 DEF Bool
<1>9. \A x \in R : \E d \in Clients : \E i \in 1..Len(s[d]) :
        x = <<d, i>> /\ s[d][i] \in M /\ (d = c => i > 1)
  BY <1>4
<1> HIDE DEF R
<1>10. f \in [R -> Q]
  <2> SUFFICES ASSUME NEW x \in R PROVE (IF x[1] = c THEN <<c, x[2] - 1>> ELSE x) \in Q
    OBVIOUS
  <2>01. PICK d \in Clients : \E i \in 1..Len(s[d]) : x = <<d, i>> /\ s[d][i] \in M /\ (d = c => i > 1)
    BY <1>9
  <2>1. PICK i \in 1..Len(s[d]) : x = <<d, i>> /\ s[d][i] \in M /\ (d = c => i > 1)
    BY <2>01
  <2>2. CASE d = c
    <3>1. i - 1 \in 1..n - 1 /\ t[c][i - 1] = s[c][i]
      <4>1. n \in Nat /\ i \in 1..n /\ i > 1
        BY <2>1, <2>2, <1>1
      <4>2. i - 1 \in 1..n - 1 /\ i - 1 + 1 = i
        BY <4>1
      <4> QED
        BY <4>2, <1>3
    <3>2. <<c, i - 1>> \in Q
      BY <3>1, <2>1, <2>2, <1>3, <1>5
    <3> QED
      BY <3>2, <2>1, <2>2
  <2>3. CASE d # c
    BY <2>1, <2>3, <1>2, <1>5
  <2> QED
    BY <2>2, <2>3
<1>11. \A x, y \in R : f[x] = f[y] => x = y
  <2> SUFFICES ASSUME NEW x \in R, NEW y \in R, f[x] = f[y] PROVE x = y
    OBVIOUS
  <2>01. PICK d \in Clients : \E i \in 1..Len(s[d]) : x = <<d, i>>
    BY <1>9
  <2>1. PICK i \in 1..Len(s[d]) : x = <<d, i>>
    BY <2>01
  <2>02. PICK g \in Clients : \E j \in 1..Len(s[g]) : y = <<g, j>>
    BY <1>9
  <2>2. PICK j \in 1..Len(s[g]) : y = <<g, j>>
    BY <2>02
  <2>3. /\ f[x] = IF d = c THEN <<c, i - 1>> ELSE <<d, i>>
        /\ f[y] = IF g = c THEN <<c, j - 1>> ELSE <<g, j>>
    BY <2>1, <2>2
  <2> HIDE DEF f
  <2> QED
    BY <2>1, <2>2, <2>3
<1>12. \A y \in Q : \E x \in R : f[x] = y
  <2> SUFFICES ASSUME NEW y \in Q PROVE \E x \in R : f[x] = y
    OBVIOUS
  <2>01. PICK d \in Clients : \E i \in 1..Len(t[d]) : y = <<d, i>> /\ t[d][i] \in M
    BY <1>5
  <2>1. PICK i \in 1..Len(t[d]) : y = <<d, i>> /\ t[d][i] \in M
    BY <2>01
  <2>2. CASE d = c
    <3>1. i + 1 \in 1..n /\ s[c][i + 1] \in M /\ i \in Nat
      <4>1. n \in Nat /\ i \in 1..n - 1
        BY <2>1, <2>2, <1>1, <1>3
      <4>2. i + 1 \in 1..n /\ i \in Nat
        BY <4>1
      <4>3. t[c][i] = s[c][i + 1] /\ t[c][i] \in M
        BY <4>1, <2>1, <2>2, <1>3
      <4> QED
        BY <4>2, <4>3
    <3>2. <<c, i + 1>> \in R
      BY <3>1, <1>4, <2>1 DEF R
    <3>3. f[<<c, i + 1>>] = <<c, i + 1 - 1>> /\ i + 1 - 1 = i
      BY <3>1, <3>2
    <3> HIDE DEF f
    <3> QED
      BY <3>2, <3>3, <2>1, <2>2
  <2>3. CASE d # c
    <3>1. <<d, i>> \in R
      BY <2>1, <2>3, <1>2, <1>4 DEF R
    <3> QED
      BY <3>1, <2>1, <2>3
  <2> QED
    BY <2>2, <2>3
<1> HIDE DEF f
<1>13. f \in Bijection(R, Q)
  BY <1>10, <1>11, <1>12, Fun_IsBij
<1>14. IsFiniteSet(Q) /\ Cardinality(Q) = Cardinality(R)
  BY <1>8, <1>13, FS_Bijection DEF ExistsBijection
<1> QED
  BY <1>1, <1>2, <1>8, <1>14 DEF Q, P


-----------------------------------------------------------------------------
(* Counting values of clients *)

HeldOf(u, e) == UNION {{x} \X (1..u[x[1]][x[2]]) : x \in Clients \X [e : {e}, key : Keys]}
FillOf(u, e) == UNION {{c} \X (u[c] \cap [e : {e}, key : Keys]) : c \in Clients}

\* Two sets that differ by one element, or not at all.
LEMMA OneMore ==
  ASSUME NEW P, NEW Q, NEW x, NEW b \in BOOLEAN,
         Q = IF b THEN P \cup {x} ELSE P, x \notin P
  PROVE  /\ IsFiniteSet(P) => IsFiniteSet(Q)
         /\ IsFiniteSet(Q) => IsFiniteSet(P)
         /\ IsFiniteSet(P) => /\ Cardinality(Q) = Cardinality(P) + (IF b THEN 1 ELSE 0)
                              /\ Cardinality(P) \in Nat
<1>1. P \subseteq Q
  OBVIOUS
<1>2. IsFiniteSet(Q) => IsFiniteSet(P)
  BY <1>1, FS_Subset
<1>3. IsFiniteSet(P) => Cardinality(P) \in Nat
  BY FS_CardinalityType
<1>4. CASE b
  <2>1. IsFiniteSet(P) => IsFiniteSet(Q) /\ Cardinality(Q) = Cardinality(P) + 1
    BY <1>4, FS_AddElement
  <2> QED
    BY <2>1, <1>2, <1>3, <1>4 DEF Bool
<1>5. CASE ~b
  BY <1>2, <1>3, <1>5 DEF Bool
<1> QED
  BY <1>4, <1>5

\* The references of values held, one by one.
LEMMA HeldOfIn ==
  ASSUME NEW u, NEW e
  PROVE  /\ \A y \in HeldOf(u, e) : \E c \in Clients, h \in [e : {e}, key : Keys] :
              \E i \in 1..u[c][h] : y = <<<<c, h>>, i>>
         /\ \A c \in Clients, h \in [e : {e}, key : Keys] : \A i \in 1..u[c][h] :
              <<<<c, h>>, i>> \in HeldOf(u, e)
BY DEF HeldOf

\* A client that holds a value once more has one reference more.
LEMMA HeldOne ==
  ASSUME NEW u \in [Clients -> [Handles -> Nat]], NEW v \in [Clients -> [Handles -> Nat]],
         NEW c \in Clients, NEW h \in Handles, NEW e \in Elems,
         v[c][h] = u[c][h] + 1,
         \A d \in Clients, g \in Handles : d # c \/ g # h => v[d][g] = u[d][g]
  PROVE  /\ IsFiniteSet(HeldOf(u, e)) <=> IsFiniteSet(HeldOf(v, e))
         /\ IsFiniteSet(HeldOf(u, e)) =>
              /\ Cardinality(HeldOf(v, e)) = Cardinality(HeldOf(u, e)) + (IF h.e = e THEN 1 ELSE 0)
              /\ Cardinality(HeldOf(u, e)) \in Nat
<1> DEFINE x == <<<<c, h>>, u[c][h] + 1>>
           K == [e : {e}, key : Keys]
           P == HeldOf(u, e)
           Q == HeldOf(v, e)
<1>1. K \subseteq Handles /\ (h \in K <=> h.e = e)
  BY DEF Handles
<1>2. /\ \A y \in P : \E d \in Clients, g \in K : \E i \in 1..u[d][g] : y = <<<<d, g>>, i>>
      /\ \A d \in Clients, g \in K : \A i \in 1..u[d][g] : <<<<d, g>>, i>> \in P
  BY HeldOfIn
<1>3. /\ \A y \in Q : \E d \in Clients, g \in K : \E i \in 1..v[d][g] : y = <<<<d, g>>, i>>
      /\ \A d \in Clients, g \in K : \A i \in 1..v[d][g] : <<<<d, g>>, i>> \in Q
  BY HeldOfIn
<1>4. x \notin P
  BY <1>1, <1>2
<1>5. Q = IF h.e = e THEN P \cup {x} ELSE P
  <2> HIDE DEF P, Q, K
  <2>1. P \subseteq Q
    BY <1>1, <1>2, <1>3
  <2>2. ASSUME NEW y \in Q, y \notin P PROVE y = x /\ h.e = e
    <3>1. PICK d \in Clients, g \in K : \E i \in 1..v[d][g] : y = <<<<d, g>>, i>>
      BY <1>3
    <3>2. PICK i \in 1..v[d][g] : y = <<<<d, g>>, i>>
      BY <3>1
    <3>3. d = c /\ g = h
      BY <3>2, <2>2, <1>1, <1>2
    <3>4. i = u[c][h] + 1
      BY <3>2, <3>3, <2>2, <1>2
    <3> QED
      BY <3>2, <3>3, <3>4, <1>1
  <2>3. h.e = e => x \in Q
    <3>1. u[c][h] \in Nat
      OBVIOUS
    <3> QED
      BY <3>1, <1>1, <1>3
  <2> QED
    BY <2>1, <2>2, <2>3
<1> QED
  BY <1>4, <1>5, OneMore

\* A client that fills one value more has one reference more.
LEMMA FillOne ==
  ASSUME NEW u \in [Clients -> SUBSET Handles], NEW v \in [Clients -> SUBSET Handles],
         NEW c \in Clients, NEW h \in Handles, NEW e \in Elems,
         h \notin u[c], v[c] = u[c] \cup {h},
         \A d \in Clients : d # c => v[d] = u[d]
  PROVE  /\ IsFiniteSet(FillOf(u, e)) <=> IsFiniteSet(FillOf(v, e))
         /\ IsFiniteSet(FillOf(u, e)) =>
              /\ Cardinality(FillOf(v, e)) = Cardinality(FillOf(u, e)) + (IF h.e = e THEN 1 ELSE 0)
              /\ Cardinality(FillOf(u, e)) \in Nat
<1> DEFINE K == [e : {e}, key : Keys]
           P == FillOf(u, e)
           Q == FillOf(v, e)
<1>1. h \in K <=> h.e = e
  BY DEF Handles
<1>2. P = UNION {{d} \X (u[d] \cap K) : d \in Clients} /\ Q = UNION {{d} \X (v[d] \cap K) : d \in Clients}
  BY DEF FillOf
<1> HIDE DEF P, Q, K
<1>3. <<c, h>> \notin P
  BY <1>2
<1>4. Q = IF h.e = e THEN P \cup {<<c, h>>} ELSE P
  BY <1>1, <1>2
<1> QED
  BY <1>3, <1>4, OneMore DEF P, Q


-----------------------------------------------------------------------------
(* What the counts say *)

AnswersTo(e) == [op : {"lookup", "insert"}, key : Keys, e : {e}]
ReleasesOf(e) == [op : {"release"}, e : {e}]

\* Which messages and answers are references.
LEMMA MessageKinds ==
  ASSUME NEW e \in Elems
  PROVE  /\ \A a \in Answers : a \in AnswersTo(e) <=> a.e = e
         /\ \A m \in Messages : m \in ReleasesOf(e) <=> m.op = "release" /\ m.e = e
         /\ \A m \in Messages : /\ m.op \in {"lookup", "insert"} => m.key \in Keys
                                /\ m.op = "insert" => m.size \in Sizes
                                /\ m.op = "release" => m.e \in Elems
<1>1. \A a \in Answers : a \in AnswersTo(e) <=> a.e = e
  BY DEF Answers, AnswersTo
<1>2. ASSUME NEW m \in Messages
      PROVE  \/ m \in [op : {"lookup"}, key : Keys]
             \/ m \in [op : {"insert"}, key : Keys, size : Sizes]
             \/ m \in [op : {"release"}, e : Elems]
  BY DEF Messages
<1>3. ASSUME NEW m \in [op : {"lookup"}, key : Keys] PROVE m.op = "lookup" /\ m.key \in Keys
  OBVIOUS
<1>4. ASSUME NEW m \in [op : {"insert"}, key : Keys, size : Sizes]
      PROVE  m.op = "insert" /\ m.key \in Keys /\ m.size \in Sizes
  OBVIOUS
<1>5. ASSUME NEW m \in [op : {"release"}, e : Elems]
      PROVE  m.op = "release" /\ m.e \in Elems /\ (m \in ReleasesOf(e) <=> m.e = e)
  BY DEF ReleasesOf
<1>6. ASSUME NEW m \in ReleasesOf(e) PROVE m.op = "release" /\ m.e = e
  BY DEF ReleasesOf
<1> QED
  BY <1>1, <1>2, <1>3, <1>4, <1>5, <1>6, Zenon

\* The fields of a message.
LEMMA MessageFields ==
  \A m \in Messages : /\ m.op \in {"lookup", "insert"} => m.key \in Keys
                      /\ m.op = "insert" => m.size \in Sizes
                      /\ m.op = "release" => m.e \in Elems
<1>1. ASSUME NEW m \in Messages
      PROVE  \/ m \in [op : {"lookup"}, key : Keys]
             \/ m \in [op : {"insert"}, key : Keys, size : Sizes]
             \/ m \in [op : {"release"}, e : Elems]
  BY DEF Messages
<1>2. ASSUME NEW m \in [op : {"lookup"}, key : Keys] PROVE m.op = "lookup" /\ m.key \in Keys
  OBVIOUS
<1>3. ASSUME NEW m \in [op : {"insert"}, key : Keys, size : Sizes]
      PROVE  m.op = "insert" /\ m.key \in Keys /\ m.size \in Sizes
  OBVIOUS
<1>4. ASSUME NEW m \in [op : {"release"}, e : Elems] PROVE m.op = "release" /\ m.e \in Elems
  OBVIOUS
<1> QED
  BY <1>1, <1>2, <1>3, <1>4, Zenon

\* No references of a kind means that no client has one.
LEMMA NoneOf ==
  ASSUME NEW e \in Elems
  PROVE  /\ \A u \in [Clients -> [Handles -> Nat]] : IsFiniteSet(HeldOf(u, e)) =>
              /\ Cardinality(HeldOf(u, e)) \in Nat
              /\ Cardinality(HeldOf(u, e)) = 0 <=>
                   \A c \in Clients, h \in Handles : h.e = e => u[c][h] = 0
         /\ \A u \in [Clients -> SUBSET Handles] : IsFiniteSet(FillOf(u, e)) =>
              /\ Cardinality(FillOf(u, e)) \in Nat
              /\ Cardinality(FillOf(u, e)) = 0 <=> \A c \in Clients : \A h \in u[c] : h.e # e
<1>1. \A S : IsFiniteSet(S) => Cardinality(S) \in Nat /\ (Cardinality(S) = 0 <=> S = {})
  BY FS_CardinalityType, FS_EmptySet
<1>2. ASSUME NEW u \in [Clients -> [Handles -> Nat]]
      PROVE  HeldOf(u, e) = {} <=> \A c \in Clients, h \in Handles : h.e = e => u[c][h] = 0
  <2> DEFINE K == [e : {e}, key : Keys]
  <2>1. K \subseteq Handles /\ \A h \in Handles : h \in K <=> h.e = e
    BY DEF Handles
  <2>2. /\ \A y \in HeldOf(u, e) : \E c \in Clients, h \in K :
              \E i \in 1..u[c][h] : y = <<<<c, h>>, i>>
        /\ \A c \in Clients, h \in K : \A i \in 1..u[c][h] :
              <<<<c, h>>, i>> \in HeldOf(u, e)
    BY HeldOfIn
  <2>3. ASSUME NEW c \in Clients, NEW h \in K, u[c][h] # 0 PROVE <<<<c, h>>, 1>> \in HeldOf(u, e)
    <3>1. u[c][h] \in Nat
      BY <2>1
    <3> QED
      BY <3>1, <2>2, <2>3
  <2>4. ASSUME \A c \in Clients, h \in K : u[c][h] = 0 PROVE HeldOf(u, e) = {}
    BY <2>2, <2>4
  <2> HIDE DEF K
  <2> QED
    BY <2>1, <2>3, <2>4
<1>3. ASSUME NEW u \in [Clients -> SUBSET Handles]
      PROVE  FillOf(u, e) = {} <=> \A c \in Clients : \A h \in u[c] : h.e # e
  <2> DEFINE K == [e : {e}, key : Keys]
  <2>1. \A h \in Handles : h \in K <=> h.e = e
    BY DEF Handles
  <2>2. FillOf(u, e) = UNION {{c} \X (u[c] \cap K) : c \in Clients}
    BY DEF FillOf
  <2> HIDE DEF K
  <2>3. FillOf(u, e) = {} <=> \A c \in Clients : u[c] \cap K = {}
    <3>1. ASSUME NEW c \in Clients, NEW h \in u[c] \cap K PROVE <<c, h>> \in FillOf(u, e)
      BY <2>2
    <3>2. ASSUME \A c \in Clients : u[c] \cap K = {} PROVE FillOf(u, e) = {}
      BY <3>2, <2>2
    <3> QED
      BY <3>1, <3>2
  <2> QED
    BY <2>1, <2>3
<1> QED
  BY <1>1, <1>2, <1>3

\* No place means no message.
LEMMA NoPlaces ==
  ASSUME NEW S, NEW s \in [Clients -> Seq(S)], NEW M, IsFiniteSet(Places(s, M))
  PROVE  /\ Cardinality(Places(s, M)) \in Nat
         /\ Cardinality(Places(s, M)) = 0 <=>
              \A c \in Clients : \A i \in 1..Len(s[c]) : s[c][i] \notin M
<1>1. Cardinality(Places(s, M)) \in Nat /\ (Cardinality(Places(s, M)) = 0 <=> Places(s, M) = {})
  BY FS_CardinalityType, FS_EmptySet
<1> QED
  BY <1>1, PlacesOf

\* The references that clients have, are given or give back.
RefFacts(e, u, v, t, s) ==
  /\ Cardinality(HeldOf(u, e)) \in Nat /\ Cardinality(FillOf(v, e)) \in Nat
  /\ Cardinality(Places(t, AnswersTo(e))) \in Nat /\ Cardinality(Places(s, ReleasesOf(e))) \in Nat
  /\ Cardinality(HeldOf(u, e)) = 0 <=> \A c \in Clients, h \in Handles : h.e = e => u[c][h] = 0
  /\ Cardinality(FillOf(v, e)) = 0 <=> \A c \in Clients : \A h \in v[c] : h.e # e
  /\ Cardinality(Places(t, AnswersTo(e))) = 0 <=>
       \A c \in Clients : \A i \in 1..Len(t[c]) : t[c][i].e # e
  /\ Cardinality(Places(s, ReleasesOf(e))) = 0 <=>
       \A c \in Clients : \A i \in 1..Len(s[c]) : s[c][i].op = "release" => s[c][i].e # e

\* The counts of the references to an element, and what it means that one is 0.
LEMMA RefsOf ==
  ASSUME NEW u \in [Clients -> [Handles -> Nat]], NEW v \in [Clients -> SUBSET Handles],
         NEW t \in [Clients -> Seq(Answers)], NEW s \in [Clients -> Seq(Messages)],
         NEW e \in Elems, IsFiniteSet(HeldOf(u, e)), IsFiniteSet(FillOf(v, e)),
         IsFiniteSet(Places(t, AnswersTo(e))), IsFiniteSet(Places(s, ReleasesOf(e)))
  PROVE  RefFacts(e, u, v, t, s)
<1>1. \A c \in Clients : /\ \A i \in 1..Len(t[c]) : t[c][i] \in Answers
                         /\ \A i \in 1..Len(s[c]) : s[c][i] \in Messages
  OBVIOUS
<1>2. /\ Cardinality(HeldOf(u, e)) \in Nat /\ Cardinality(FillOf(v, e)) \in Nat
      /\ Cardinality(HeldOf(u, e)) = 0 <=> \A c \in Clients, h \in Handles : h.e = e => u[c][h] = 0
      /\ Cardinality(FillOf(v, e)) = 0 <=> \A c \in Clients : \A h \in v[c] : h.e # e
  BY NoneOf
<1>3. /\ Cardinality(Places(t, AnswersTo(e))) \in Nat
      /\ Cardinality(Places(t, AnswersTo(e))) = 0 <=>
           \A c \in Clients : \A i \in 1..Len(t[c]) : t[c][i] \notin AnswersTo(e)
  BY NoPlaces
<1>4. /\ Cardinality(Places(s, ReleasesOf(e))) \in Nat
      /\ Cardinality(Places(s, ReleasesOf(e))) = 0 <=>
           \A c \in Clients : \A i \in 1..Len(s[c]) : s[c][i] \notin ReleasesOf(e)
  BY NoPlaces
<1>5. \A a \in Answers : a \in AnswersTo(e) <=> a.e = e
  BY MessageKinds
<1>6. \A m \in Messages : m \in ReleasesOf(e) <=> m.op = "release" /\ m.e = e
  BY MessageKinds
<1>7. Cardinality(Places(t, AnswersTo(e))) = 0 <=>
        \A c \in Clients : \A i \in 1..Len(t[c]) : t[c][i].e # e
  BY <1>1, <1>3, <1>5
<1>8. Cardinality(Places(s, ReleasesOf(e))) = 0 <=>
        \A c \in Clients : \A i \in 1..Len(s[c]) : s[c][i].op = "release" => s[c][i].e # e
  BY <1>1, <1>4, <1>6
<1> QED
  BY <1>2, <1>3, <1>4, <1>7, <1>8 DEF RefFacts


FiniteRefs(e, u, v, t, s) ==
  /\ IsFiniteSet(HeldOf(u, e)) /\ IsFiniteSet(FillOf(v, e))
  /\ IsFiniteSet(Places(t, AnswersTo(e))) /\ IsFiniteSet(Places(s, ReleasesOf(e)))

Sum(e, q, u, v, t, s) ==
  Bool(e \in InTable(q)) + Cardinality(HeldOf(u, e)) + Cardinality(FillOf(v, e))
    + Cardinality(Places(t, AnswersTo(e))) + Cardinality(Places(s, ReleasesOf(e)))

\* The references as functions of the state, before and after a step.
LEMMA RefsDef ==
  /\ \A e : /\ Refs(e) = Sum(e, p, held, filling, out, in)
            /\ Refs(e)' = Sum(e, p', held', filling', out', in')
  /\ RefsFinite <=> \A e \in Elems : FiniteRefs(e, held, filling, out, in)
  /\ RefsFinite' <=> \A e \in Elems : FiniteRefs(e, held', filling', out', in')
<1>1. \A e : /\ Refs(e) = Sum(e, p, held, filling, out, in)
             /\ Refs(e)' = Sum(e, p', held', filling', out', in')
  BY DEF Refs, Sum, HeldRefs, FillRefs, AnswerRefs, ReleaseRefs, HeldOf, FillOf, AnswersTo, ReleasesOf
<1>2. RefsFinite <=> \A e \in Elems : FiniteRefs(e, held, filling, out, in)
  BY DEF RefsFinite, FiniteRefs, HeldRefs, FillRefs, AnswerRefs, ReleaseRefs, HeldOf, FillOf,
         AnswersTo, ReleasesOf
<1>3. RefsFinite' <=> \A e \in Elems : FiniteRefs(e, held', filling', out', in')
  BY DEF RefsFinite, FiniteRefs, HeldRefs, FillRefs, AnswerRefs, ReleaseRefs, HeldOf, FillOf,
         AnswersTo, ReleasesOf
<1> QED
  BY <1>1, <1>2, <1>3

\* An element without references is in no table, hand or queue.
LEMMA SumFacts ==
  ASSUME NEW u \in [Clients -> [Handles -> Nat]], NEW v \in [Clients -> SUBSET Handles],
         NEW t \in [Clients -> Seq(Answers)], NEW s \in [Clients -> Seq(Messages)],
         NEW e \in Elems, FiniteRefs(e, u, v, t, s), NEW q
  PROVE  /\ Sum(e, q, u, v, t, s) \in Nat
         /\ RefFacts(e, u, v, t, s)
         /\ e \in InTable(q) => Sum(e, q, u, v, t, s) > 0
         /\ \A c \in Clients, h \in Handles : h.e = e /\ u[c][h] > 0 => Sum(e, q, u, v, t, s) > 0
         /\ \A c \in Clients : \A h \in v[c] : h.e = e => Sum(e, q, u, v, t, s) > 0
         /\ \A c \in Clients : \A i \in 1..Len(t[c]) : t[c][i].e = e => Sum(e, q, u, v, t, s) > 0
         /\ \A c \in Clients : \A i \in 1..Len(s[c]) :
              s[c][i].op = "release" /\ s[c][i].e = e => Sum(e, q, u, v, t, s) > 0
<1>1. RefFacts(e, u, v, t, s)
  BY RefsOf DEF FiniteRefs
<1> DEFINE b == (IF e \in InTable(q) THEN 1 ELSE 0)
           n1 == Cardinality(HeldOf(u, e))
           n2 == Cardinality(FillOf(v, e))
           n3 == Cardinality(Places(t, AnswersTo(e)))
           n4 == Cardinality(Places(s, ReleasesOf(e)))
<1>2. /\ Sum(e, q, u, v, t, s) = b + n1 + n2 + n3 + n4
      /\ b \in {0, 1} /\ (e \in InTable(q) => b = 1)
  BY DEF Sum, Bool
<1>3. n1 \in Nat /\ n2 \in Nat /\ n3 \in Nat /\ n4 \in Nat
  BY <1>1 DEF RefFacts
<1>4. /\ n1 = 0 <=> \A c \in Clients, h \in Handles : h.e = e => u[c][h] = 0
      /\ n2 = 0 <=> \A c \in Clients : \A h \in v[c] : h.e # e
      /\ n3 = 0 <=> \A c \in Clients : \A i \in 1..Len(t[c]) : t[c][i].e # e
      /\ n4 = 0 <=> \A c \in Clients : \A i \in 1..Len(s[c]) : s[c][i].op = "release" => s[c][i].e # e
  BY <1>1 DEF RefFacts
<1> HIDE DEF b, n1, n2, n3, n4
<1>5. /\ Sum(e, q, u, v, t, s) \in Nat
      /\ b # 0 \/ n1 # 0 \/ n2 # 0 \/ n3 # 0 \/ n4 # 0 => Sum(e, q, u, v, t, s) > 0
  BY <1>2, <1>3
<1>6. \A c \in Clients, h \in Handles : h.e = e /\ u[c][h] > 0 => n1 # 0
  BY <1>4
<1> QED
  BY <1>1, <1>2, <1>4, <1>5, <1>6

\* What mp_release_value_ does to the element, and that it leaves others alone.
LEMMA ReleaseEffect ==
  ASSUME MpTypes, NEW e \in Elems, mp_release_value_(e)
  PROVE  /\ el' \in [Elems -> Words] /\ data' \in [Elems -> Keys \cup {NULL}] /\ live' \subseteq Elems
         /\ \A f \in Elems : f # e => /\ el'[f] = el[f] /\ data'[f] = data[f]
                                      /\ f \in live' <=> f \in live
         /\ ~el'[e].mask /\ el'[e].ref = el[e].ref - 1
         /\ el[e].ref = 1 => e \notin live'
         /\ el[e].ref # 1 => /\ el'[e].key = el[e].key /\ el'[e].size = el[e].size
                             /\ data' = data /\ live' = live
<1>1. /\ el \in [Elems -> Words] /\ data \in [Elems -> Keys \cup {NULL}] /\ live \subseteq Elems
      /\ el[e] \in Words
  BY DEF MpTypes
<1>2. el[e].ref \in Int
  BY <1>1 DEF Words
<1>3. /\ Released(e) \in Words /\ Released(e).ref = el[e].ref - 1 /\ Released(e).mask = FALSE
      /\ Released(e).key = el[e].key /\ Released(e).size = el[e].size
  <2>1. el[e].ref - 1 \in Int
    BY <1>2
  <2> QED
    BY <1>1, <2>1 DEF Released, Words
<1>4. NoElem \in Words /\ NoElem.ref = 0 /\ NoElem.mask = FALSE
  BY DEF NoElem, Words, Lines, CACHELINE
<1>5. CASE el[e].ref = 1
  <2>1. /\ live' = live \ {e} /\ el' = [el EXCEPT ![e] = NoElem]
        /\ data' = [data EXCEPT ![e] = NULL]
    BY <1>3, <1>5 DEF mp_release_value_
  <2> QED
    BY <2>1, <1>1, <1>4, <1>5
<1>6. CASE el[e].ref # 1
  <2>1. el' = [el EXCEPT ![e] = Released(e)] /\ live' = live /\ data' = data
    BY <1>2, <1>3, <1>6 DEF mp_release_value_
  <2> QED
    BY <2>1, <1>1, <1>3, <1>6
<1> QED
  BY <1>5, <1>6


Queues == /\ held \in [Clients -> [Handles -> Nat]] /\ filling \in [Clients -> SUBSET Handles]
          /\ out \in [Clients -> Seq(Answers)] /\ in \in [Clients -> Seq(Messages)]

RefInv == RefsFinite /\ RefCountExact /\ MaskedReferred /\ RefsRight /\ OneFiller

\* What the invariant says of one element.
LEMMA RefInvFacts ==
  ASSUME MpInv, pc # "destroyed"
  PROVE  /\ RefInv /\ MpTypes /\ Queues
         /\ \A e \in Elems :
              /\ el[e] \in Words /\ el[e].ref \in Int /\ el[e].key \in Nat /\ el[e].size \in Lines
              /\ FiniteRefs(e, held, filling, out, in)
              /\ Sum(e, p, held, filling, out, in) = el[e].ref /\ el[e].ref \in Nat
              /\ e \in live <=> el[e].ref > 0
              /\ e \in InTable(p) => e \in live /\ el[e].ref > 0
         /\ InTable(p) \subseteq Elems
<1>1. RefInv /\ MpTypes /\ Queues
  BY DEF MpInv, RefInv, MpTypes, Queues
<1>2. InTable(p) \subseteq Elems
  BY <1>1, TableFacts DEF MpTypes, Sound
<1>3. ASSUME NEW e \in Elems
      PROVE  /\ el[e] \in Words /\ el[e].ref \in Int /\ el[e].key \in Nat /\ el[e].size \in Lines
             /\ FiniteRefs(e, held, filling, out, in)
             /\ Sum(e, p, held, filling, out, in) = el[e].ref /\ el[e].ref \in Nat
             /\ e \in live <=> el[e].ref > 0
             /\ e \in InTable(p) => e \in live /\ el[e].ref > 0
  <2>1. el[e] \in Words /\ el[e].ref \in Int /\ el[e].key \in Nat /\ el[e].size \in Lines
    BY <1>1 DEF MpTypes, Words
  <2>2. FiniteRefs(e, held, filling, out, in)
    BY <1>1, RefsDef DEF RefInv
  <2>3. /\ Sum(e, p, held, filling, out, in) = el[e].ref
        /\ e \in live <=> Sum(e, p, held, filling, out, in) > 0
    BY <1>1, RefsDef DEF RefInv, RefCountExact
  <2>4. /\ Sum(e, p, held, filling, out, in) \in Nat
        /\ e \in InTable(p) => Sum(e, p, held, filling, out, in) > 0
    BY <2>2, <1>1, SumFacts DEF Queues
  <2> QED
    BY <2>1, <2>2, <2>3, <2>4
<1> QED
  BY <1>1, <1>2, <1>3

\* A step after which every count is right.
LEMMA CountsRight ==
  ASSUME \A f \in Elems : FiniteRefs(f, held', filling', out', in'),
         \A f \in Elems : /\ Sum(f, p', held', filling', out', in') = el'[f].ref
                          /\ f \in live' <=> Sum(f, p', held', filling', out', in') > 0
  PROVE  RefsFinite' /\ RefCountExact'
<1>1. RefsFinite'
  BY RefsDef
<1>2. \A f \in Elems : Refs(f)' = el'[f].ref /\ (f \in live' <=> Refs(f)' > 0)
  BY RefsDef
<1> QED
  BY <1>1, <1>2 DEF RefCountExact

\* A step after which e has one reference less.
OneLess(e) ==
  \A f \in Elems : /\ FiniteRefs(f, held', filling', out', in')
                   /\ Sum(f, p', held', filling', out', in')
                        = Sum(f, p, held, filling, out, in) - (IF f = e THEN 1 ELSE 0)

\* The server gives one reference of e back, the table's or one on its way.
LEMMA ReleaseKeeps ==
  ASSUME MpInv, pc # "destroyed", NEW e \in Elems, mp_release_value_(e),
         UNCHANGED <<held, filling, out>>, in' \in [Clients -> Seq(Messages)],
         \A c \in Clients : \A i \in 1..Len(in'[c]) : \E j \in 1..Len(in[c]) : in'[c][i] = in[c][j],
         InTable(p') \subseteq InTable(p), e \in InTable(p') => Written(e),
         OneLess(e)
  PROVE  /\ RefInv'
         /\ Sound(p', el) => Sound(p', el')
         /\ LinesIn(InTable(p'), el') = LinesIn(InTable(p'), el)
         /\ \A f \in InTable(p') : el'[f].key = el[f].key
<1> DEFINE sum(f) == Sum(f, p', held', filling', out', in')
<1>1. /\ RefInv /\ MpTypes /\ Queues /\ Queues'
      /\ \A f \in Elems : /\ el[f].ref \in Nat /\ (f \in live <=> el[f].ref > 0)
                          /\ sum(f) = el[f].ref - (IF f = e THEN 1 ELSE 0)
                          /\ FiniteRefs(f, held', filling', out', in')
  BY RefInvFacts DEF Queues, OneLess
<1>2. /\ \A f \in Elems : f # e => /\ el'[f] = el[f] /\ data'[f] = data[f]
                                   /\ f \in live' <=> f \in live
      /\ ~el'[e].mask /\ el'[e].ref = el[e].ref - 1
      /\ el[e].ref = 1 => e \notin live'
      /\ el[e].ref # 1 => /\ el'[e].key = el[e].key /\ el'[e].size = el[e].size
                          /\ data' = data /\ live' = live
  BY <1>1, ReleaseEffect
<1>3. \A f \in Elems : sum(f) \in Nat
  BY <1>1, SumFacts DEF Queues
<1>4. \A f \in Elems : (IF f = e THEN 1 ELSE 0) = IF f = e THEN 1 ELSE 0
  BY DEF Bool
<1> HIDE DEF sum
<1>5. \A f \in Elems : sum(f) = el'[f].ref /\ (f \in live' <=> sum(f) > 0)
  BY <1>1, <1>2, <1>3, <1>4
<1>6. RefsFinite' /\ RefCountExact'
  BY <1>1, <1>5, CountsRight DEF sum
<1>7. MaskedReferred'
  BY <1>1, <1>2 DEF RefInv, MaskedReferred
<1>8. \A f \in Elems : sum(f) > 0 => /\ el'[f].key = el[f].key /\ el'[f].size = el[f].size
                                     /\ data'[f] = data[f]
  BY <1>1, <1>2, <1>4
<1>9. RefsRight'
  <2>1. ASSUME NEW c \in Clients, NEW h \in Handles
        PROVE  /\ h \in filling'[c] => el'[h.e].key = h.key
               /\ held'[c][h] > 0 => el'[h.e].key = h.key /\ Written(h.e)'
    <3>1. h.e \in Elems
      BY DEF Handles
    <3>2. h \in filling'[c] \/ held'[c][h] > 0 => sum(h.e) > 0
      BY <3>1, <1>1, SumFacts DEF Queues, sum
    <3>3. /\ h \in filling[c] => el[h.e].key = h.key
          /\ held[c][h] > 0 => el[h.e].key = h.key /\ Written(h.e)
      BY <1>1 DEF RefInv, RefsRight, ValuesRight, AnswersRight, ReleasesRight, TableRight
    <3> QED
      BY <3>1, <3>2, <3>3, <1>8 DEF Written
  <2>2. ASSUME NEW c \in Clients, NEW i \in 1..Len(out'[c]), NEW a, a = out'[c][i], a.e # NULL
        PROVE  el'[a.e].key = a.key /\ (a.op = "lookup" => data'[a.e] = el'[a.e].key)
    <3>1. out' = out /\ out[c] \in Seq(Answers)
      BY <1>1 DEF Queues
    <3>2. a = out[c][i] /\ i \in 1..Len(out[c]) /\ a \in Answers
      BY <2>2, <3>1
    <3>3. a.e \in Elems
      BY <2>2, <3>2 DEF Answers
    <3>4. sum(a.e) > 0
      BY <2>2, <3>3, <1>1, SumFacts DEF Queues, sum
    <3>5. el[a.e].key = a.key /\ (a.op = "lookup" => data[a.e] = el[a.e].key)
      BY <2>2, <3>2, <1>1 DEF RefInv, RefsRight, ValuesRight, AnswersRight, ReleasesRight, TableRight, Written
    <3> QED
      BY <3>3, <3>4, <3>5, <1>8
  <2>3. ASSUME NEW c \in Clients, NEW i \in 1..Len(in'[c]), NEW m, m = in'[c][i], m.op = "release"
        PROVE  data'[m.e] = el'[m.e].key
    <3>1. PICK j \in 1..Len(in[c]) : m = in[c][j]
      BY <2>3
    <3>2. m \in Messages
      BY <2>3, <1>1 DEF Queues
    <3>3. m.e \in Elems
      BY <2>3, <3>2, MessageKinds
    <3>4. sum(m.e) > 0
      BY <2>3, <3>3, <1>1, SumFacts DEF Queues, sum
    <3>5. data[m.e] = el[m.e].key
      BY <2>3, <3>1, <1>1 DEF RefInv, RefsRight, ValuesRight, AnswersRight, ReleasesRight, TableRight, Written
    <3> QED
      BY <3>3, <3>4, <3>5, <1>8
  <2>4. ASSUME NEW f \in InTable(p'), ~el'[f].mask PROVE Written(f)'
    <3>1. f \in InTable(p) /\ f \in Elems
      BY RefInvFacts
    <3>2. sum(f) > 0
      BY <3>1, <1>1, SumFacts DEF Queues, sum
    <3>3. Written(f)
      BY <2>4, <3>1, <1>1, <1>2 DEF RefInv, RefsRight, ValuesRight, AnswersRight, ReleasesRight, TableRight
    <3> QED
      BY <3>1, <3>2, <3>3, <1>8 DEF Written
  <2>5. ValuesRight' /\ TableRight'
    BY <2>1, <2>4 DEF ValuesRight, TableRight
  <2>6. AnswersRight'
    BY <2>2 DEF AnswersRight, Written
  <2>7. ReleasesRight'
    BY <2>3 DEF ReleasesRight, Written
  <2> QED
    BY <2>5, <2>6, <2>7 DEF RefsRight
<1>10. OneFiller'
  BY <1>1 DEF RefInv, OneFiller
<1>11. \A f \in InTable(p') : el'[f].key = el[f].key /\ el'[f].size = el[f].size
  <2> SUFFICES ASSUME NEW f \in InTable(p') PROVE sum(f) > 0 /\ f \in Elems
    BY <1>8
  <2>1. f \in Elems
    BY RefInvFacts
  <2> QED
    BY <2>1, <1>1, SumFacts DEF Queues, sum
<1>12. \A f \in Elems : el'[f].key \in Nat
  <2>1. el' \in [Elems -> Words]
    BY <1>1, ReleaseEffect
  <2> QED
    BY <2>1 DEF Words
<1>13. ASSUME Sound(p', el) PROVE Sound(p', el')
  BY <1>11, <1>12, <1>13, SoundFrame
<1>14. LinesIn(InTable(p'), el') = LinesIn(InTable(p'), el)
  BY <1>11, LinesFrame
<1> QED
  BY <1>6, <1>7, <1>9, <1>10, <1>11, <1>13, <1>14 DEF RefInv


-----------------------------------------------------------------------------
(* Messages *)

\* What is left of the queues when the first message of one is taken.
LEMMA QueueTail ==
  ASSUME NEW S, NEW s \in [Clients -> Seq(S)], NEW c \in Clients, NEW t, Taken(s, t, c)
  PROVE  /\ Head(s[c]) = s[c][1] /\ 1 \in 1..Len(s[c])
         /\ \A d \in Clients : \A i \in 1..Len(t[d]) :
              /\ d # c => i \in 1..Len(s[d]) /\ t[d][i] = s[d][i]
              /\ d = c => i + 1 \in 1..Len(s[d]) /\ t[d][i] = s[d][i + 1]
<1>1. /\ s[c] \in Seq(S) /\ Len(s[c]) \in Nat /\ Len(s[c]) > 0
      /\ Len(Tail(s[c])) = Len(s[c]) - 1
      /\ \A i \in 1..Len(s[c]) - 1 : Tail(s[c])[i] = s[c][i + 1]
      /\ Head(s[c]) = s[c][1]
  BY DEF Taken
<1>2. t[c] = Tail(s[c]) /\ \A d \in Clients : d # c => t[d] = s[d]
  BY DEF Taken
<1>3. \A i \in 1..Len(t[c]) : i + 1 \in 1..Len(s[c]) /\ t[c][i] = s[c][i + 1]
  BY <1>1, <1>2
<1>4. ASSUME NEW d \in Clients, NEW i \in 1..Len(t[d]), d # c
      PROVE  i \in 1..Len(s[d]) /\ t[d][i] = s[d][i]
  BY <1>2, <1>4
<1>5. 1 \in 1..Len(s[c]) /\ Head(s[c]) = s[c][1]
  BY <1>1
<1> QED
  BY <1>3, <1>4, <1>5

\* The queues when a message is sent.
LEMMA QueueAppend ==
  ASSUME NEW S, NEW s \in [Clients -> Seq(S)], NEW c \in Clients, NEW m \in S,
         NEW t, Added(s, t, c, m)
  PROVE  \A d \in Clients : \A i \in 1..Len(t[d]) :
           \/ i \in 1..Len(s[d]) /\ t[d][i] = s[d][i]
           \/ d = c /\ i = Len(s[c]) + 1 /\ t[d][i] = m
<1>1. /\ s[c] \in Seq(S) /\ Len(s[c]) \in Nat
      /\ Len(Append(s[c], m)) = Len(s[c]) + 1
      /\ \A i \in 1..Len(s[c]) + 1 : Append(s[c], m)[i] = IF i = Len(s[c]) + 1 THEN m ELSE s[c][i]
  OBVIOUS
<1>2. t[c] = Append(s[c], m) /\ \A d \in Clients : d # c => t[d] = s[d]
  BY DEF Added
<1>3. \A i \in 1..Len(t[c]) : \/ i \in 1..Len(s[c]) /\ t[c][i] = s[c][i]
                              \/ i = Len(s[c]) + 1 /\ t[c][i] = m
  BY <1>1, <1>2
<1>4. ASSUME NEW d \in Clients, NEW i \in 1..Len(t[d]), d # c
      PROVE  i \in 1..Len(s[d]) /\ t[d][i] = s[d][i]
  BY <1>2, <1>4
<1> QED
  BY <1>3, <1>4

\* The server takes a message: a release on its way is one less.
LEMMA ReceiveFacts ==
  ASSUME Queues, NEW c \in Clients, NEW op, Receive(c, op),
         \A f \in Elems : FiniteRefs(f, held, filling, out, in)
  PROVE  /\ in' \in [Clients -> Seq(Messages)]
         /\ Head(in[c]) \in Messages /\ Head(in[c]).op = op
         /\ Head(in[c]) = in[c][1] /\ 1 \in 1..Len(in[c])
         /\ \A d \in Clients : \A i \in 1..Len(in'[d]) : \E j \in 1..Len(in[d]) : in'[d][i] = in[d][j]
         /\ \A f \in Elems :
              /\ IsFiniteSet(Places(in', ReleasesOf(f)))
              /\ Cardinality(Places(in', ReleasesOf(f)))
                   = Cardinality(Places(in, ReleasesOf(f))) - (IF op = "release" /\ Head(in[c]).e = f THEN 1 ELSE 0)
<1>1. in \in [Clients -> Seq(Messages)] /\ in[c] # <<>> /\ Head(in[c]).op = op
  BY DEF Queues, Receive
<1>2. Taken(in, in', c)
  BY <1>1 DEF Receive, Taken
<1>3. ASSUME NEW f \in Elems
      PROVE  /\ IsFiniteSet(Places(in', ReleasesOf(f)))
             /\ Cardinality(Places(in', ReleasesOf(f)))
                  = Cardinality(Places(in, ReleasesOf(f))) - (IF Head(in[c]) \in ReleasesOf(f) THEN 1 ELSE 0)
  <2>1. IsFiniteSet(Places(in, ReleasesOf(f)))
    BY DEF FiniteRefs
  <2> QED
    BY <2>1, <1>1, <1>2, PlacesTail
<1>4. in' \in [Clients -> Seq(Messages)] /\ Head(in[c]) \in Messages
  BY <1>1, <1>2 DEF Taken
<1>5. \A f \in Elems : (Head(in[c]) \in ReleasesOf(f)) <=> (op = "release" /\ Head(in[c]).e = f)
  BY <1>1, <1>4, MessageKinds
<1>6. /\ Head(in[c]) = in[c][1] /\ 1 \in 1..Len(in[c])
      /\ \A d \in Clients : \A i \in 1..Len(in'[d]) :
           /\ d # c => i \in 1..Len(in[d]) /\ in'[d][i] = in[d][i]
           /\ d = c => i + 1 \in 1..Len(in[d]) /\ in'[d][i] = in[d][i + 1]
  BY <1>1, <1>2, QueueTail
<1>7. \A d \in Clients : \A i \in 1..Len(in'[d]) : \E j \in 1..Len(in[d]) : in'[d][i] = in[d][j]
  BY <1>6
<1>8. \A f \in Elems : (IF Head(in[c]) \in ReleasesOf(f) THEN 1 ELSE 0) = (IF op = "release" /\ Head(in[c]).e = f THEN 1 ELSE 0)
  BY <1>5 DEF Bool
<1> QED
  BY <1>1, <1>3, <1>4, <1>6, <1>7, <1>8

\* A client sends a message: a release on its way is one more.
LEMMA SendFacts ==
  ASSUME Queues, NEW c \in Clients, NEW m \in Messages, Send(c, m),
         \A f \in Elems : FiniteRefs(f, held, filling, out, in)
  PROVE  /\ in' \in [Clients -> Seq(Messages)]
         /\ \A d \in Clients : \A i \in 1..Len(in'[d]) :
              in'[d][i] = m \/ \E j \in 1..Len(in[d]) : in'[d][i] = in[d][j]
         /\ \A f \in Elems :
              /\ IsFiniteSet(Places(in', ReleasesOf(f)))
              /\ Cardinality(Places(in', ReleasesOf(f)))
                   = Cardinality(Places(in, ReleasesOf(f))) + (IF m.op = "release" /\ m.e = f THEN 1 ELSE 0)
<1>1. in \in [Clients -> Seq(Messages)]
  BY DEF Queues
<1>2. Added(in, in', c, m)
  BY <1>1 DEF Send, Added
<1>3. ASSUME NEW f \in Elems
      PROVE  /\ IsFiniteSet(Places(in', ReleasesOf(f)))
             /\ Cardinality(Places(in', ReleasesOf(f)))
                  = Cardinality(Places(in, ReleasesOf(f))) + (IF m \in ReleasesOf(f) THEN 1 ELSE 0)
  <2>1. IsFiniteSet(Places(in, ReleasesOf(f)))
    BY DEF FiniteRefs
  <2> QED
    BY <2>1, <1>1, <1>2, PlacesAppend
<1>4. in' \in [Clients -> Seq(Messages)]
  BY <1>1, <1>2 DEF Added
<1>5. \A d \in Clients : \A i \in 1..Len(in'[d]) :
        \/ i \in 1..Len(in[d]) /\ in'[d][i] = in[d][i]
        \/ d = c /\ i = Len(in[c]) + 1 /\ in'[d][i] = m
  BY <1>1, <1>2, QueueAppend
<1>6. \A f \in Elems : (m \in ReleasesOf(f)) <=> (m.op = "release" /\ m.e = f)
  BY MessageKinds
<1>7. \A f \in Elems : (IF m \in ReleasesOf(f) THEN 1 ELSE 0) = (IF m.op = "release" /\ m.e = f THEN 1 ELSE 0)
  BY <1>6 DEF Bool
<1> QED
  BY <1>3, <1>4, <1>5, <1>7

\* The server answers.
LEMMA AnswerFacts ==
  ASSUME Queues, NEW c \in Clients, NEW op, NEW k, NEW e, Answer(c, op, k, e),
         NEW a \in Answers, a = [op |-> op, key |-> k, e |-> e],
         \A f \in Elems : FiniteRefs(f, held, filling, out, in)
  PROVE  /\ out' \in [Clients -> Seq(Answers)]
         /\ \A d \in Clients : \A i \in 1..Len(out'[d]) :
              \/ i \in 1..Len(out[d]) /\ out'[d][i] = out[d][i]
              \/ d = c /\ i = Len(out[c]) + 1 /\ out'[d][i] = a
         /\ \A f \in Elems :
              /\ IsFiniteSet(Places(out', AnswersTo(f)))
              /\ Cardinality(Places(out', AnswersTo(f)))
                   = Cardinality(Places(out, AnswersTo(f))) + (IF e = f THEN 1 ELSE 0)
<1>1. out \in [Clients -> Seq(Answers)]
  BY DEF Queues
<1>2. Added(out, out', c, a)
  BY <1>1 DEF Answer, Added
<1>3. ASSUME NEW f \in Elems
      PROVE  /\ IsFiniteSet(Places(out', AnswersTo(f)))
             /\ Cardinality(Places(out', AnswersTo(f)))
                  = Cardinality(Places(out, AnswersTo(f))) + (IF a \in AnswersTo(f) THEN 1 ELSE 0)
  <2>1. IsFiniteSet(Places(out, AnswersTo(f)))
    BY DEF FiniteRefs
  <2> QED
    BY <2>1, <1>1, <1>2, PlacesAppend
<1>4. out' \in [Clients -> Seq(Answers)]
  BY <1>1, <1>2 DEF Added
<1>5. \A d \in Clients : \A i \in 1..Len(out'[d]) :
        \/ i \in 1..Len(out[d]) /\ out'[d][i] = out[d][i]
        \/ d = c /\ i = Len(out[c]) + 1 /\ out'[d][i] = a
  BY <1>1, <1>2, QueueAppend
<1>6. \A f \in Elems : a \in AnswersTo(f) <=> e = f
  BY MessageKinds
<1>7. \A f \in Elems : (IF a \in AnswersTo(f) THEN 1 ELSE 0) = (IF e = f THEN 1 ELSE 0)
  BY <1>6 DEF Bool
<1> QED
  BY <1>3, <1>4, <1>5, <1>7


-----------------------------------------------------------------------------
(* The server keeps the invariant *)

\* HASHOP_RELEASE: a value that was given back or marked ready is written, so
\* the bit may be cleared.
LEMMA ServeReleaseKeeps ==
  ASSUME MpInv, NEW c \in Clients, ServeRelease(c)
  PROVE  MpInv'
<1> DEFINE m == Head(in[c])
           e == m.e
<1>1. pc = "idle" /\ UNCHANGED <<p, pc, ins, out, held, filling>> /\ Receive(c, "release")
  BY DEF ServeRelease, Receive
<1>2. /\ MpTypes /\ RefInv /\ Queues
      /\ \A f \in Elems : FiniteRefs(f, held, filling, out, in)
  BY <1>1, RefInvFacts
<1>3. \A f \in Elems :
        /\ IsFiniteSet(Places(in', ReleasesOf(f)))
        /\ Cardinality(Places(in', ReleasesOf(f)))
             = Cardinality(Places(in, ReleasesOf(f)))
                 - (IF "release" = "release" /\ e = f THEN 1 ELSE 0)
  BY <1>1, <1>2, ReceiveFacts
<1>11. in' \in [Clients -> Seq(Messages)] /\ m \in Messages
  BY <1>1, <1>2, ReceiveFacts
<1>12. m.op = "release" /\ m = in[c][1] /\ 1 \in 1..Len(in[c])
  BY <1>1, <1>2, ReceiveFacts
<1>13. \A d \in Clients : \A i \in 1..Len(in'[d]) : \E j \in 1..Len(in[d]) : in'[d][i] = in[d][j]
  BY <1>1, <1>2, ReceiveFacts
<1>4. e \in Elems /\ Written(e)
  <2>1. Written(e)
    BY <1>2, <1>12 DEF RefInv, RefsRight, ReleasesRight
  <2> HIDE DEF m
  <2>2. e \in Elems
    BY <1>11, <1>12, MessageFields
  <2> QED
    BY <2>1, <2>2
<1>5. mp_release_value_(e)
  BY DEF ServeRelease
<1> HIDE DEF e
<1>6. ASSUME NEW f \in Elems
      PROVE  /\ FiniteRefs(f, held', filling', out', in')
             /\ Sum(f, p', held', filling', out', in')
                  = Sum(f, p, held, filling, out, in) - (IF f = e THEN 1 ELSE 0)
  <2>1. FiniteRefs(f, held', filling', out', in')
    BY <1>1, <1>2, <1>3 DEF FiniteRefs
  <2>2. RefFacts(f, held, filling, out, in)
    BY <1>2, SumFacts DEF Queues
  <2>3. Cardinality(Places(in', ReleasesOf(f)))
          = Cardinality(Places(in, ReleasesOf(f))) - (IF f = e THEN 1 ELSE 0)
    BY <1>3
  <2>4. /\ Sum(f, p, held, filling, out, in) \in Nat
        /\ Cardinality(Places(in, ReleasesOf(f))) \in Nat
    BY <2>2, <1>2, SumFacts DEF Queues, RefFacts
  <2> QED
    BY <2>1, <2>2, <2>3, <2>4, <1>1 DEF Sum, RefFacts, Bool
<1>7. /\ RefInv' /\ LinesIn(InTable(p'), el') = LinesIn(InTable(p'), el)
      /\ Sound(p', el) => Sound(p', el')
  <2>1. /\ pc # "destroyed" /\ UNCHANGED <<held, filling, out>>
        /\ InTable(p') \subseteq InTable(p)
    BY <1>1
  <2>2. OneLess(e)
    BY <1>6 DEF OneLess
  <2> QED
    BY <2>1, <2>2, <1>4, <1>5, <1>11, <1>13, ReleaseKeeps
<1>8. MpTypes'
  <2>1. /\ el' \in [Elems -> Words] /\ data' \in [Elems -> Keys \cup {NULL}] /\ live' \subseteq Elems
    BY <1>2, <1>4, <1>5, ReleaseEffect
  <2> QED
    BY <2>1, <1>1, <1>2, <1>11, <1>7 DEF MpTypes
<1>9. SizeCounted'
  BY <1>1, <1>7 DEF MpInv, SizeCounted, TableSize
<1>10. InsertBegun'
  BY <1>1 DEF MpInv, InsertBegun
<1> QED
  BY <1>1, <1>7, <1>8, <1>9, <1>10 DEF MpInv, RefInv


\* A step that changes no element and no number of references.
LEMMA SameKeeps ==
  ASSUME MpInv, pc # "destroyed", UNCHANGED <<el, live>>,
         \A f \in Elems : /\ FiniteRefs(f, held', filling', out', in')
                          /\ Sum(f, p', held', filling', out', in') = Sum(f, p, held, filling, out, in)
  PROVE  RefsFinite' /\ RefCountExact' /\ MaskedReferred'
<1>1. /\ RefInv
      /\ \A f \in Elems : /\ Sum(f, p, held, filling, out, in) = el[f].ref
                          /\ f \in live <=> el[f].ref > 0
  BY RefInvFacts
<1>2. RefsFinite' /\ RefCountExact'
  BY <1>1, CountsRight
<1>3. MaskedReferred'
  BY <1>1 DEF RefInv, MaskedReferred
<1> QED
  BY <1>2, <1>3

\* hash_insert, up to its loop: e is the old element of the key, r the
\* partition without it and q the one that counts the new element's bytes.
InsertStarts(e, r, q, k, n) ==
  /\ e = Find(p, el, k)
  /\ r = IF e # NULL THEN hash_remove(Touch(p, e), el, e) ELSE Touch(p, e)
  /\ q = [r EXCEPT !.size = r.size + n]

\* hash_insert, up to its loop, as far as the table is concerned.
LEMMA InsertTable ==
  ASSUME MpInv, pc = "idle", NEW k \in Nat, NEW n \in Lines, NEW e, NEW r, NEW q,
         InsertStarts(e, r, q, k, n)
  PROVE  /\ e = NULL \/ e \in InTable(p)
         /\ Sound(q, el) /\ InTable(q) = IF e = NULL THEN InTable(p) ELSE InTable(p) \ {e}
         /\ IsFiniteSet(LinesIn(InTable(q), el)) /\ q.size = TableSize(q, el) + n
         /\ \A f \in InTable(q) : el[f].key # k
<1> DEFINE o == Touch(p, e)
<1>0. /\ e = Find(p, el, k)
      /\ r = IF e # NULL THEN hash_remove(o, el, e) ELSE o
      /\ q = [r EXCEPT !.size = r.size + n]
  BY DEF InsertStarts
<1>1. /\ Sound(p, el) /\ ins.size = 0 /\ IsFiniteSet(LinesIn(InTable(p), el))
      /\ p.size = TableSize(p, el) + ins.size
      /\ NULL \notin InTable(p) /\ \A f \in InTable(p) : el[f].size \in Lines
  BY RefInvFacts, PartitionAssumption DEF MpInv, MpTypes, InsertBegun, SizeCounted
<1>2. TableSize(p, el) \in Nat
  BY <1>1, TableSizeType
<1>3. \/ e = NULL /\ \A f \in InTable(p) : el[f].key # k
      \/ e \in InTable(p) /\ e # NULL /\ el[e].key = k
  BY <1>0, <1>1, FindFacts
<1>4. Sound(o, el) /\ InTable(o) = InTable(p) /\ o.size = p.size
  BY <1>1, <1>3, TouchFacts
<1>5. TableSize(o, el) = TableSize(p, el) /\ IsFiniteSet(LinesIn(InTable(o), el))
  BY <1>1, <1>4 DEF TableSize
<1> HIDE DEF o
<1>6. /\ Sound(r, el) /\ IsFiniteSet(LinesIn(InTable(r), el))
      /\ r.size = TableSize(r, el) /\ r.size \in Nat
      /\ InTable(r) = IF e = NULL THEN InTable(p) ELSE InTable(p) \ {e}
      /\ \A f \in InTable(r) : el[f].key # k
  <2>1. CASE e = NULL
    <3>1. r = o /\ \A f \in InTable(p) : el[f].key # k
      BY <2>1, <1>0, <1>3
    <3> QED
      BY <3>1, <2>1, <1>1, <1>2, <1>4, <1>5
  <2>2. CASE e # NULL
    <3>1. r = hash_remove(o, el, e) /\ e \in InTable(o) /\ el[e].key = k /\ el[e].size \in Lines
      BY <2>2, <1>0, <1>1, <1>3, <1>4
    <3>2. /\ Sound(r, el) /\ InTable(r) = InTable(o) \ {e} /\ r.size = o.size - el[e].size
          /\ IsFiniteSet(LinesIn(InTable(r), el))
          /\ TableSize(r, el) \in Nat /\ TableSize(o, el) = TableSize(r, el) + el[e].size
      BY <3>1, <1>4, <1>5, RemoveSize
    <3>3. \A f \in InTable(r) : el[f].key # k
      BY <3>1, <3>2, <1>4 DEF Sound, WellLinked
    <3>4. r.size = TableSize(r, el)
      BY <3>1, <3>2, <1>1, <1>2, <1>4, <1>5 DEF Lines
    <3> QED
      BY <3>2, <3>3, <3>4, <2>2, <1>4
  <2> QED
    BY <2>1, <2>2
<1>7. Sound(q, el) /\ InTable(q) = InTable(r) /\ q.size = r.size + n
  <2>1. r.size + n \in Int /\ r \in Partitions
    BY <1>6 DEF Sound, Lines
  <2>2. q.size = r.size + n
    BY <2>1, <1>0 DEF Partitions
  <2> QED
    BY <2>1, <2>2, <1>0, <1>6, SoundSize
<1> QED
  BY <1>3, <1>6, <1>7 DEF TableSize

\* HASHOP_INSERT up to the loop: the table gives up its reference to an old
\* element of the key.
LEMMA ServeInsertKeeps ==
  ASSUME MpInv, NEW c \in Clients, ServeInsert(c)
  PROVE  MpInv'
<1> DEFINE m == Head(in[c])
           k == m.key
           n == elem_size(m.size)
           e == Find(p, el, k)
           r == IF e # NULL THEN hash_remove(Touch(p, e), el, e) ELSE Touch(p, e)
<1>1. /\ pc = "idle" /\ pc' = "evict" /\ UNCHANGED <<out, held, filling>> /\ Receive(c, "insert")
      /\ IF e # NULL THEN mp_release_value_(e) ELSE UNCHANGED <<el, live, data>>
  BY DEF ServeInsert, Receive
<1>2. p' = [r EXCEPT !.size = r.size + n] /\ ins' = [c |-> c, key |-> k, size |-> n]
  BY DEF ServeInsert
<1>3. /\ MpTypes /\ RefInv /\ Queues
      /\ \A f \in Elems : FiniteRefs(f, held, filling, out, in)
  BY <1>1, RefInvFacts
<1>4. in' \in [Clients -> Seq(Messages)] /\ m \in Messages /\ m.op = "insert"
  BY <1>1, <1>3, ReceiveFacts
<1>5. \A d \in Clients : \A i \in 1..Len(in'[d]) : \E j \in 1..Len(in[d]) : in'[d][i] = in[d][j]
  BY <1>1, <1>3, ReceiveFacts
<1>6. \A f \in Elems : /\ IsFiniteSet(Places(in', ReleasesOf(f)))
                       /\ Cardinality(Places(in', ReleasesOf(f)))
                            = Cardinality(Places(in, ReleasesOf(f)))
  <2>1. \A f \in Elems :
          /\ IsFiniteSet(Places(in', ReleasesOf(f)))
          /\ Cardinality(Places(in', ReleasesOf(f)))
               = Cardinality(Places(in, ReleasesOf(f)))
                   - (IF "insert" = "release" /\ m.e = f THEN 1 ELSE 0)
    BY <1>1, <1>3, ReceiveFacts
  <2>2. \A f \in Elems : Cardinality(Places(in, ReleasesOf(f))) \in Nat
    BY <1>3, SumFacts DEF RefFacts, Queues
  <2> QED
    BY <2>1, <2>2
<1>7. k \in Keys /\ k \in Nat /\ n \in Lines
  <2> HIDE DEF m
  <2>1. k \in Keys /\ m.size \in Sizes
    BY <1>4, MessageFields
  <2> QED
    BY <2>1, ValuesAssumption, ElemSizeFacts
<1>8. /\ e = NULL \/ e \in InTable(p)
      /\ Sound(p', el) /\ InTable(p') = IF e = NULL THEN InTable(p) ELSE InTable(p) \ {e}
      /\ IsFiniteSet(LinesIn(InTable(p'), el)) /\ p'.size = TableSize(p', el) + n
      /\ \A f \in InTable(p') : el[f].key # k
  <2>1. InsertStarts(e, r, p', k, n)
    BY <1>2 DEF InsertStarts
  <2>2. pc = "idle"
    BY <1>1
  <2> HIDE DEF k, n, e, r
  <2> QED
    BY <2>1, <2>2, <1>7, InsertTable
<1> HIDE DEF m, k, n, e, r
<1>9. ASSUME NEW f \in Elems
      PROVE  /\ FiniteRefs(f, held', filling', out', in')
             /\ Sum(f, p', held', filling', out', in')
                  = Sum(f, p, held, filling, out, in)
                      - (IF e # NULL /\ f = e THEN 1 ELSE 0)
  <2>1. FiniteRefs(f, held', filling', out', in')
    BY <1>1, <1>3, <1>6 DEF FiniteRefs
  <2>2. RefFacts(f, held, filling, out, in)
    BY <1>3, SumFacts DEF Queues
  <2>3. Bool(f \in InTable(p')) = Bool(f \in InTable(p)) - (IF e # NULL /\ f = e THEN 1 ELSE 0)
    BY <1>8 DEF Bool
  <2>4. Bool(f \in InTable(p)) \in Nat
    BY DEF Bool
  <2> QED
    BY <2>1, <2>2, <2>3, <2>4, <1>1, <1>6 DEF Sum, RefFacts
<1>10. /\ RefInv' /\ Sound(p', el') /\ LinesIn(InTable(p'), el') = LinesIn(InTable(p'), el)
       /\ \A f \in InTable(p') : el'[f].key = el[f].key
       /\ el' \in [Elems -> Words] /\ data' \in [Elems -> Keys \cup {NULL}] /\ live' \subseteq Elems
  <2>1. CASE e # NULL
    <3>1. e \in Elems /\ mp_release_value_(e) /\ pc # "destroyed" /\ UNCHANGED <<held, filling, out>>
      BY <2>1, <1>1, <1>8, RefInvFacts
    <3>2. InTable(p') \subseteq InTable(p) /\ (e \in InTable(p') => Written(e))
      BY <2>1, <1>8
    <3>3. OneLess(e)
      BY <2>1, <1>9 DEF OneLess
    <3>4. /\ RefInv' /\ LinesIn(InTable(p'), el') = LinesIn(InTable(p'), el)
          /\ Sound(p', el) => Sound(p', el')
          /\ \A f \in InTable(p') : el'[f].key = el[f].key
      BY <3>1, <3>2, <3>3, <1>4, <1>5, ReleaseKeeps
    <3> QED
      BY <3>1, <3>4, <1>3, <1>8, ReleaseEffect
  <2>2. CASE e = NULL
    <3>1. UNCHANGED <<el, live, data, held, filling, out>> /\ InTable(p') = InTable(p) /\ pc # "destroyed"
      BY <2>2, <1>1, <1>8
    <3>2. \A f \in Elems : Sum(f, p', held', filling', out', in') = Sum(f, p, held, filling, out, in)
      <4>1. \A f \in Elems : Sum(f, p, held, filling, out, in) \in Nat
        BY <1>3, SumFacts DEF Queues
      <4> QED
        BY <4>1, <2>2, <1>9
    <3>3. RefsFinite' /\ RefCountExact' /\ MaskedReferred'
      BY <3>1, <3>2, <1>9, SameKeeps
    <3>4. ValuesRight' /\ AnswersRight' /\ TableRight' /\ OneFiller'
      BY <3>1, <1>3 DEF RefInv, RefsRight, ValuesRight, AnswersRight, TableRight, OneFiller, Written
    <3>5. ReleasesRight'
      BY <3>1, <1>3, <1>5 DEF RefInv, RefsRight, ReleasesRight, Written
    <3> QED
      BY <3>1, <3>3, <3>4, <3>5, <1>3, <1>8 DEF RefInv, RefsRight, MpTypes
  <2> QED
    BY <2>1, <2>2
<1>11. ins' \in [c : Clients \cup {NULL}, key : Nat, size : Lines]
       /\ ins'.c = c /\ ins'.key = k /\ ins'.size = n
  BY <1>2, <1>7
<1>12. MpTypes'
  BY <1>1, <1>3, <1>4, <1>10, <1>11 DEF MpTypes
<1>13. SizeCounted'
  BY <1>8, <1>10, <1>11 DEF SizeCounted, TableSize
<1>14. InsertBegun'
  BY <1>1, <1>7, <1>8, <1>10, <1>11 DEF InsertBegun
<1> QED
  BY <1>1, <1>10, <1>12, <1>13, <1>14 DEF MpInv, RefInv


\* One turn of the eviction loop: the table gives up its reference to the
\* victim; clients that use it keep theirs.
LEMMA EvictKeeps ==
  ASSUME MpInv, Evict
  PROVE  MpInv'
<1>1. /\ pc = "evict" /\ UNCHANGED <<ins, out, in, held, filling>>
      /\ \/ /\ p.size > ins.size /\ pc' = pc
            /\ \E l \in Victims(p) : p' = hash_remove(p, el, l) /\ mp_release_value_(l)
         \/ pc' = "abort" /\ UNCHANGED <<p, el, live, data>>
  BY DEF Evict, clientvars
<1>2. /\ MpTypes /\ RefInv /\ Queues /\ InTable(p) \subseteq Elems
      /\ \A f \in Elems : el[f].size \in Lines /\ FiniteRefs(f, held, filling, out, in)
  BY <1>1, RefInvFacts
<1>3. CASE pc' = "abort" /\ UNCHANGED <<p, el, live, data>>
  <2>1. UNCHANGED <<p, el, live, data, ins, in, out, held, filling>>
    BY <1>1, <1>3
  <2>2. MpTypes' /\ SizeCounted'
    BY <2>1, <1>2, <1>3 DEF MpInv, MpTypes, SizeCounted
  <2>3. InsertBegun'
    BY <1>3 DEF InsertBegun
  <2>4. \A f \in Elems : /\ FiniteRefs(f, held', filling', out', in')
                         /\ Sum(f, p', held', filling', out', in') = Sum(f, p, held, filling, out, in)
    BY <2>1, <1>2
  <2>5. RefsFinite' /\ RefCountExact' /\ MaskedReferred'
    BY <2>1, <2>4, <1>1, SameKeeps
  <2>6. RefsRight' /\ OneFiller'
    BY <2>1, <1>2 DEF RefInv, RefsRight, ValuesRight, AnswersRight, ReleasesRight, TableRight,
                      OneFiller, Written
  <2> QED
    BY <2>2, <2>3, <2>5, <2>6, <1>3 DEF MpInv
<1>4. CASE /\ p.size > ins.size /\ pc' = pc
           /\ \E l \in Victims(p) : p' = hash_remove(p, el, l) /\ mp_release_value_(l)
  <2>1. PICK l \in Victims(p) : p' = hash_remove(p, el, l) /\ mp_release_value_(l)
    BY <1>4
  <2>2. /\ Sound(p, el) /\ IsFiniteSet(LinesIn(InTable(p), el))
        /\ p.size = TableSize(p, el) + ins.size /\ TableSize(p, el) \in Nat /\ ins.size \in Nat
    <3>1. Sound(p, el) /\ IsFiniteSet(LinesIn(InTable(p), el)) /\ ins.size \in Nat
      BY <1>2 DEF MpTypes, MpInv, SizeCounted, Lines
    <3> QED
      BY <3>1, TableSizeType DEF MpInv, SizeCounted
  <2>3. InTable(p) # {}
    <3>1. TableSize(p, el) # 0
      BY <2>2, <1>4
    <3> QED
      BY <3>1, LinesEmpty DEF TableSize
  <2>4. l \in InTable(p) /\ l \in Elems /\ el[l].size \in Lines
    BY <2>2, <2>3, <1>2, VictimFacts
  <2>5. /\ Sound(p', el) /\ InTable(p') = InTable(p) \ {l} /\ p'.size = p.size - el[l].size
        /\ IsFiniteSet(LinesIn(InTable(p'), el))
        /\ TableSize(p', el) \in Nat /\ TableSize(p, el) = TableSize(p', el) + el[l].size
    BY <2>1, <2>2, <2>4, RemoveSize
  <2>6. ASSUME NEW f \in Elems
        PROVE  /\ FiniteRefs(f, held', filling', out', in')
               /\ Sum(f, p', held', filling', out', in')
                    = Sum(f, p, held, filling, out, in) - (IF f = l THEN 1 ELSE 0)
    <3>1. FiniteRefs(f, held', filling', out', in')
      BY <1>1, <1>2
    <3>2. RefFacts(f, held, filling, out, in)
      BY <1>2, SumFacts DEF Queues
    <3>3. /\ Bool(f \in InTable(p')) = Bool(f \in InTable(p)) - (IF f = l THEN 1 ELSE 0)
          /\ Bool(f \in InTable(p)) \in Nat
      BY <2>4, <2>5 DEF Bool
    <3> QED
      BY <3>1, <3>2, <3>3, <1>1 DEF Sum, RefFacts
  <2>7. /\ RefInv' /\ Sound(p', el') /\ LinesIn(InTable(p'), el') = LinesIn(InTable(p'), el)
        /\ \A f \in InTable(p') : el'[f].key = el[f].key
    <3>1. /\ pc # "destroyed" /\ UNCHANGED <<held, filling, out>>
          /\ InTable(p') \subseteq InTable(p) /\ (l \in InTable(p') => Written(l))
      BY <1>1, <2>5
    <3>2. /\ in' \in [Clients -> Seq(Messages)]
          /\ \A c \in Clients : \A i \in 1..Len(in'[c]) : \E j \in 1..Len(in[c]) : in'[c][i] = in[c][j]
      BY <1>1, <1>2 DEF Queues
    <3>3. OneLess(l)
      BY <2>6 DEF OneLess
    <3>4. /\ RefInv' /\ LinesIn(InTable(p'), el') = LinesIn(InTable(p'), el)
          /\ Sound(p', el) => Sound(p', el')
          /\ \A f \in InTable(p') : el'[f].key = el[f].key
      BY <3>1, <3>2, <3>3, <2>1, <2>4, ReleaseKeeps
    <3> QED
      BY <3>4, <2>5
  <2>8. MpTypes'
    <3>1. /\ el' \in [Elems -> Words] /\ data' \in [Elems -> Keys \cup {NULL}] /\ live' \subseteq Elems
      BY <2>1, <2>4, <1>2, ReleaseEffect
    <3> QED
      BY <3>1, <2>7, <1>1, <1>2, <1>4 DEF MpTypes
  <2>9. SizeCounted'
    <3>1. p'.size = TableSize(p', el) + ins.size
      BY <2>2, <2>4, <2>5 DEF Lines
    <3> QED
      BY <3>1, <2>5, <2>7, <1>1 DEF SizeCounted, TableSize
  <2>10. InsertBegun'
    BY <2>5, <2>7, <1>1, <1>4 DEF MpInv, InsertBegun
  <2> QED
    BY <2>7, <2>8, <2>9, <2>10, <1>1, <1>4 DEF MpInv, RefInv
<1> QED
  BY <1>1, <1>3, <1>4


\* The end of hash_insert: the new element was free, so nobody refers to it
\* but the table and the client that is told to fill it.
LEMMA InsertLinkKeeps ==
  ASSUME MpInv, InsertLink
  PROVE  MpInv'
<1>1. /\ pc = "evict" /\ pc' = "idle" /\ ins' = NoInsert /\ UNCHANGED <<data, in, held, filling>>
      /\ \E e \in Elems \ live :
           /\ live' = live \cup {e}
           /\ el' = [el EXCEPT ![e] = [key |-> ins.key, size |-> ins.size, ref |-> 2, mask |-> TRUE]]
           /\ p' = Link(p, e, ins.key)
           /\ Answer(ins.c, "insert", ins.key, e)
  BY DEF InsertLink, clientvars
<1>2. PICK e \in Elems \ live :
           /\ live' = live \cup {e}
           /\ el' = [el EXCEPT ![e] = [key |-> ins.key, size |-> ins.size, ref |-> 2, mask |-> TRUE]]
           /\ p' = Link(p, e, ins.key)
           /\ Answer(ins.c, "insert", ins.key, e)
  BY <1>1
<1>3. /\ MpTypes /\ RefInv /\ Queues /\ InTable(p) \subseteq Elems
      /\ \A f \in Elems : /\ el[f].key \in Nat /\ FiniteRefs(f, held, filling, out, in)
                          /\ Sum(f, p, held, filling, out, in) = el[f].ref /\ el[f].ref \in Nat
                          /\ f \in live <=> el[f].ref > 0
  BY <1>1, RefInvFacts
<1>4. ins.c \in Clients /\ ins.key \in Keys /\ ins.key \in Nat /\ ins.size \in Lines
  BY <1>1, <1>3, ValuesAssumption DEF MpInv, InsertBegun, MpTypes
<1>5. el \in [Elems -> Words] /\ Sound(p, el)
  BY <1>3 DEF MpTypes
<1>6. /\ el' \in [Elems -> Words] /\ \A f \in Elems : f # e => el'[f] = el[f]
      /\ el'[e].key = ins.key /\ el'[e].size = ins.size /\ el'[e].ref = 2 /\ el'[e].mask
  <2>1. [key |-> ins.key, size |-> ins.size, ref |-> 2, mask |-> TRUE] \in Words
    BY <1>4 DEF Words
  <2> QED
    BY <2>1, <1>2, <1>5
<1> DEFINE a == [op |-> "insert", key |-> ins.key, e |-> e]
<1>7. a \in Answers /\ a.op = "insert" /\ a.key = ins.key /\ a.e = e
  BY <1>4 DEF Answers
<1> HIDE DEF a
<1>8. /\ out' \in [Clients -> Seq(Answers)]
      /\ \A d \in Clients : \A i \in 1..Len(out'[d]) :
           \/ i \in 1..Len(out[d]) /\ out'[d][i] = out[d][i]
           \/ d = ins.c /\ i = Len(out[ins.c]) + 1 /\ out'[d][i] = a
      /\ \A f \in Elems :
           /\ IsFiniteSet(Places(out', AnswersTo(f)))
           /\ Cardinality(Places(out', AnswersTo(f)))
                = Cardinality(Places(out, AnswersTo(f))) + (IF e = f THEN 1 ELSE 0)
  <2>1. a = [op |-> "insert", key |-> ins.key, e |-> e]
    BY DEF a
  <2> QED
    BY <2>1, <1>2, <1>3, <1>4, <1>7, AnswerFacts
\* Nobody refers to e.
<1>9. Sum(e, p, held, filling, out, in) = 0
  BY <1>3
<1>10. /\ e \notin InTable(p)
       /\ \A c \in Clients, h \in Handles : h.e = e => ~(held[c][h] > 0) /\ h \notin filling[c]
       /\ \A c \in Clients : \A i \in 1..Len(out[c]) : out[c][i].e # e
       /\ \A c \in Clients : \A i \in 1..Len(in[c]) : in[c][i].op = "release" => in[c][i].e # e
  <2>1. /\ e \in InTable(p) => Sum(e, p, held, filling, out, in) > 0
        /\ \A c \in Clients, h \in Handles : h.e = e /\ held[c][h] > 0 => Sum(e, p, held, filling, out, in) > 0
        /\ \A c \in Clients : \A h \in filling[c] : h.e = e => Sum(e, p, held, filling, out, in) > 0
        /\ \A c \in Clients : \A i \in 1..Len(out[c]) : out[c][i].e = e => Sum(e, p, held, filling, out, in) > 0
        /\ \A c \in Clients : \A i \in 1..Len(in[c]) :
             in[c][i].op = "release" /\ in[c][i].e = e => Sum(e, p, held, filling, out, in) > 0
    BY <1>3, SumFacts DEF Queues
  <2> QED
    BY <2>1, <1>9
\* The table.
<1>11. \A f \in InTable(p) : f # e /\ el'[f].key = el[f].key /\ el'[f].size = el[f].size
                               /\ el[f].key # ins.key
  BY <1>1, <1>3, <1>6, <1>10 DEF MpInv, InsertBegun
<1>12. /\ Sound(p', el') /\ InTable(p') = InTable(p) \cup {e} /\ p'.size = p.size
  <2>1. \A f \in Elems : el'[f].key \in Nat
    BY <1>3, <1>4, <1>6
  <2>2. Sound(p, el')
    BY <2>1, <1>5, <1>11, SoundFrame
  <2>3. \A f \in InTable(p) : el'[f].key # el'[e].key
    BY <1>6, <1>11
  <2>4. e \in Elems \ InTable(p) /\ el'[e].key \in Nat
    BY <2>1, <1>10
  <2>5. /\ Sound(Link(p, e, el'[e].key), el')
        /\ InTable(Link(p, e, el'[e].key)) = InTable(p) \cup {e}
        /\ Link(p, e, el'[e].key).size = p.size
    BY <2>2, <2>3, <2>4, LinkFacts
  <2> QED
    BY <2>5, <1>2, <1>6
<1>13. SizeCounted'
  <2>1. /\ LinesIn(InTable(p), el') = LinesIn(InTable(p), el)
        /\ IsFiniteSet(LinesIn(InTable(p), el))
        /\ p.size = TableSize(p, el) + ins.size
    BY <1>11, LinesFrame DEF MpInv, SizeCounted
  <2>2. /\ IsFiniteSet(LinesIn(InTable(p) \cup {e}, el'))
        /\ CACHELINE * Cardinality(LinesIn(InTable(p) \cup {e}, el'))
             = CACHELINE * Cardinality(LinesIn(InTable(p), el')) + el'[e].size
    BY <2>1, <1>4, <1>6, <1>10, LinesAdd
  <2>3. TableSize(p', el') = TableSize(p, el) + ins.size
    BY <2>1, <2>2, <1>6, <1>12 DEF TableSize
  <2>4. TableSize(p, el) \in Nat /\ ins.size \in Nat
    BY <2>1, <1>4, TableSizeType DEF Lines
  <2>5. ins'.size = 0
    BY <1>1 DEF NoInsert
  <2> QED
    BY <2>1, <2>2, <2>3, <2>4, <2>5, <1>12 DEF SizeCounted
\* The references.
<1>14. ASSUME NEW f \in Elems
       PROVE  /\ FiniteRefs(f, held', filling', out', in')
              /\ Sum(f, p', held', filling', out', in')
                   = Sum(f, p, held, filling, out, in) + (IF f = e THEN 2 ELSE 0)
  <2>1. FiniteRefs(f, held', filling', out', in')
    BY <1>1, <1>3, <1>8 DEF FiniteRefs
  <2>2. RefFacts(f, held, filling, out, in)
    BY <1>3, SumFacts DEF Queues
  <2>3. /\ Bool(f \in InTable(p')) = Bool(f \in InTable(p)) + (IF f = e THEN 1 ELSE 0)
        /\ Bool(f \in InTable(p)) \in Nat
    BY <1>10, <1>12 DEF Bool
  <2>4. Cardinality(Places(out', AnswersTo(f)))
           = Cardinality(Places(out, AnswersTo(f))) + (IF f = e THEN 1 ELSE 0)
    BY <1>8
  <2> QED
    BY <2>1, <2>2, <2>3, <2>4, <1>1 DEF Sum, RefFacts
<1>15. RefsFinite' /\ RefCountExact'
  <2>1. \A f \in Elems : Sum(f, p', held', filling', out', in') = el'[f].ref
    BY <1>3, <1>6, <1>9, <1>14
  <2>2. \A f \in Elems : f \in live' <=> Sum(f, p', held', filling', out', in') > 0
    BY <1>2, <1>3, <1>6, <1>9, <1>14
  <2> QED
    BY <2>1, <2>2, <1>14, CountsRight
<1>16. MaskedReferred'
  BY <1>3, <1>6 DEF RefInv, MaskedReferred
<1>17. ValuesRight'
  <2> SUFFICES ASSUME NEW c \in Clients, NEW h \in Handles
               PROVE  /\ h \in filling[c] => el'[h.e].key = h.key
                      /\ held[c][h] > 0 => el'[h.e].key = h.key /\ data[h.e] = el'[h.e].key
    BY <1>1 DEF ValuesRight, Written
  <2>1. h.e \in Elems
    BY DEF Handles
  <2>2. h \in filling[c] \/ held[c][h] > 0 => el'[h.e] = el[h.e]
    BY <2>1, <1>6, <1>10
  <2> QED
    BY <2>2, <1>3 DEF RefInv, RefsRight, ValuesRight, Written
<1>18. AnswersRight'
  <2>1. ASSUME NEW d \in Clients, NEW i \in 1..Len(out'[d]), NEW b, b = out'[d][i], b.e # NULL
        PROVE  el'[b.e].key = b.key /\ (b.op = "lookup" => data'[b.e] = el'[b.e].key)
    <3>1. CASE b = a
      BY <3>1, <1>6, <1>7
    <3>2. CASE i \in 1..Len(out[d]) /\ b = out[d][i]
      <4>1. b \in Answers
        BY <3>2, <1>3 DEF Queues
      <4>2. b.e \in Elems /\ b.e # e
        BY <4>1, <2>1, <3>2, <1>10 DEF Answers
      <4>3. el[b.e].key = b.key /\ (b.op = "lookup" => data[b.e] = el[b.e].key)
        BY <2>1, <3>2, <1>3 DEF RefInv, RefsRight, AnswersRight, Written
      <4> QED
        BY <4>2, <4>3, <1>1, <1>6
    <3> QED
      BY <3>1, <3>2, <2>1, <1>8
  <2> QED
    BY <2>1 DEF AnswersRight, Written
<1>19. ReleasesRight'
  <2>1. ASSUME NEW d \in Clients, NEW i \in 1..Len(in[d]), NEW m, m = in[d][i], m.op = "release"
        PROVE  data[m.e] = el'[m.e].key
    <3>1. m \in Messages
      BY <2>1, <1>3 DEF Queues
    <3>2. m.e \in Elems /\ m.e # e
      BY <3>1, <2>1, <1>10, MessageFields
    <3>3. data[m.e] = el[m.e].key
      BY <2>1, <1>3 DEF RefInv, RefsRight, ReleasesRight, Written
    <3> QED
      BY <3>2, <3>3, <1>6
  <2> QED
    BY <2>1, <1>1 DEF ReleasesRight, Written
<1>20. TableRight'
  BY <1>1, <1>3, <1>6, <1>11, <1>12 DEF RefInv, RefsRight, TableRight, Written
<1>21. OneFiller'
  <2>1. ASSUME NEW f \in Elems, NEW c \in Clients, NEW i \in 1..Len(out'[c]), NEW b,
               b = out'[c][i], InsertAnswer(b, f)
        PROVE  /\ \A d \in Clients : \A h \in filling[d] : h.e # f
               /\ \A d \in Clients : \A j \in 1..Len(out'[d]) :
                    InsertAnswer(out'[d][j], f) => d = c /\ j = i
    <3>1. CASE f = e
      <4>1. \A d \in Clients : \A j \in 1..Len(out'[d]) :
              InsertAnswer(out'[d][j], e) => d = ins.c /\ j = Len(out[ins.c]) + 1
        BY <1>8, <1>10 DEF InsertAnswer
      <4>2. \A d \in Clients : \A h \in filling[d] : h.e # e
        BY <1>3, <1>10 DEF Queues
      <4> QED
        BY <4>1, <4>2, <3>1, <2>1
    <3>2. CASE f # e
      <4>1. \A d \in Clients : \A j \in 1..Len(out'[d]) :
              InsertAnswer(out'[d][j], f) => j \in 1..Len(out[d]) /\ out'[d][j] = out[d][j]
        BY <3>2, <1>7, <1>8 DEF InsertAnswer
      <4>2. i \in 1..Len(out[c]) /\ InsertAnswer(out[c][i], f)
        BY <4>1, <2>1
      <4>3. /\ \A d \in Clients : \A h \in filling[d] : h.e # f
            /\ \A d \in Clients : \A j \in 1..Len(out[d]) :
                 InsertAnswer(out[d][j], f) => d = c /\ j = i
        BY <4>2, <1>3 DEF RefInv, OneFiller
      <4> QED
        BY <4>1, <4>3
    <3> QED
      BY <3>1, <3>2
  <2> QED
    BY <2>1, <1>1 DEF OneFiller
<1>22. MpTypes'
  <2>1. ins' \in [c : Clients \cup {NULL}, key : Nat, size : Lines]
    BY <1>1 DEF NoInsert, Lines, CACHELINE
  <2> QED
    BY <2>1, <1>1, <1>2, <1>3, <1>6, <1>8, <1>12 DEF MpTypes
<1>23. InsertBegun'
  BY <1>1 DEF InsertBegun, NoInsert
<1> QED
  BY <1>1, <1>13, <1>15, <1>16, <1>17, <1>18, <1>19, <1>20, <1>21, <1>22, <1>23 DEF MpInv, RefsRight


\* HASHOP_LOOKUP: the answer is a reference more, to an element with a value.
LEMMA ServeLookupKeeps ==
  ASSUME MpInv, NEW c \in Clients, ServeLookup(c)
  PROVE  MpInv'
<1> DEFINE k == Head(in[c]).key
           e == Find(p, el, k)
           g == IF e # NULL /\ is_value_ready(e) THEN e ELSE NULL
           a == [op |-> "lookup", key |-> k, e |-> g]
<1>1. /\ pc = "idle" /\ UNCHANGED <<live, data, pc, ins, held, filling>> /\ Receive(c, "lookup")
      /\ p' = Touch(p, e) /\ Answer(c, "lookup", k, g)
      /\ g # NULL => el' = [el EXCEPT ![g].ref = el[g].ref + 1]
      /\ g = NULL => el' = el
  BY DEF ServeLookup, Receive
<1>2. /\ MpTypes /\ RefInv /\ Queues /\ InTable(p) \subseteq Elems
      /\ \A f \in Elems : /\ el[f].key \in Nat /\ FiniteRefs(f, held, filling, out, in)
                          /\ Sum(f, p, held, filling, out, in) = el[f].ref /\ el[f].ref \in Nat
                          /\ f \in live <=> el[f].ref > 0
      /\ \A f \in InTable(p) : f \in live /\ el[f].ref > 0
  BY <1>1, RefInvFacts
<1>3. in' \in [Clients -> Seq(Messages)] /\ Head(in[c]) \in Messages /\ Head(in[c]).op = "lookup"
  BY <1>1, <1>2, ReceiveFacts
<1>4. \A d \in Clients : \A i \in 1..Len(in'[d]) : \E j \in 1..Len(in[d]) : in'[d][i] = in[d][j]
  BY <1>1, <1>2, ReceiveFacts
<1>5. \A f \in Elems : /\ IsFiniteSet(Places(in', ReleasesOf(f)))
                       /\ Cardinality(Places(in', ReleasesOf(f)))
                            = Cardinality(Places(in, ReleasesOf(f)))
  <2>1. \A f \in Elems :
          /\ IsFiniteSet(Places(in', ReleasesOf(f)))
          /\ Cardinality(Places(in', ReleasesOf(f)))
               = Cardinality(Places(in, ReleasesOf(f)))
                   - (IF "lookup" = "release" /\ Head(in[c]).e = f THEN 1 ELSE 0)
    BY <1>1, <1>2, ReceiveFacts
  <2>2. \A f \in Elems : Cardinality(Places(in, ReleasesOf(f))) \in Nat
    BY <1>2, SumFacts DEF RefFacts, Queues
  <2> QED
    BY <2>1, <2>2
<1>6. k \in Keys /\ k \in Nat
  BY <1>3, MessageFields, ValuesAssumption
<1>7. /\ e \in InTable(p) \cup {NULL}
      /\ g # NULL => g \in InTable(p) /\ g \in Elems /\ el[g].key = k /\ ~el[g].mask
  <2>1. \/ e = NULL
        \/ e \in InTable(p) /\ el[e].key = k
    BY <1>2, <1>6, FindFacts DEF MpTypes
  <2> QED
    BY <2>1, <1>2 DEF is_value_ready
<1>8. Sound(p', el) /\ InTable(p') = InTable(p) /\ p'.size = p.size
  BY <1>1, <1>2, <1>7, TouchFacts DEF MpTypes
<1> HIDE DEF k, e, g
<1>9. a \in Answers /\ a.op = "lookup" /\ a.key = k /\ a.e = g
  BY <1>6, <1>7 DEF Answers
<1>10. g # NULL => data[g] = el[g].key
  BY <1>2, <1>7 DEF RefInv, RefsRight, TableRight, Written
<1>11. a = [op |-> "lookup", key |-> k, e |-> g]
  OBVIOUS
<1> HIDE DEF a
<1>12. /\ out' \in [Clients -> Seq(Answers)]
       /\ \A d \in Clients : \A i \in 1..Len(out'[d]) :
            \/ i \in 1..Len(out[d]) /\ out'[d][i] = out[d][i]
            \/ d = c /\ i = Len(out[c]) + 1 /\ out'[d][i] = a
       /\ \A f \in Elems :
            /\ IsFiniteSet(Places(out', AnswersTo(f)))
            /\ Cardinality(Places(out', AnswersTo(f)))
                 = Cardinality(Places(out, AnswersTo(f))) + (IF g = f THEN 1 ELSE 0)
  BY <1>1, <1>2, <1>9, <1>11, AnswerFacts
<1>13. /\ el' \in [Elems -> Words]
       /\ \A f \in Elems : /\ el'[f].ref = el[f].ref + (IF g = f THEN 1 ELSE 0)
                           /\ el'[f].key = el[f].key /\ el'[f].size = el[f].size
                           /\ el'[f].mask = el[f].mask
  <2>0. el \in [Elems -> Words] /\ NULL \notin Elems
    BY <1>2, PartitionAssumption DEF MpTypes
  <2>1. CASE g = NULL
    <3>1. \A f \in Elems : el[f].ref \in Nat /\ g # f
      BY <2>0, <2>1, <1>2
    <3> QED
      BY <3>1, <2>0, <2>1, <1>1
  <2>2. CASE g # NULL
    <3>1. g \in Elems /\ el' = [el EXCEPT ![g].ref = el[g].ref + 1]
      BY <2>2, <1>1, <1>7
    <3>2. el[g] \in Words /\ el[g].ref \in Nat /\ el[g].ref + 1 \in Int
      BY <3>1, <2>0, <1>2
    <3>3. [el[g] EXCEPT !.ref = el[g].ref + 1] \in Words
      BY <3>2 DEF Words
    <3>4. /\ el' \in [Elems -> Words] /\ el'[g] = [el[g] EXCEPT !.ref = el[g].ref + 1]
          /\ \A f \in Elems : f # g => el'[f] = el[f]
      BY <3>1, <3>3, <2>0
    <3>5. /\ el'[g].ref = el[g].ref + 1 /\ el'[g].key = el[g].key /\ el'[g].size = el[g].size
          /\ el'[g].mask = el[g].mask
      BY <3>2, <3>4 DEF Words
    <3>6. \A f \in Elems : el[f].ref + 0 = el[f].ref
      BY <1>2
    <3> QED
      BY <3>1, <3>4, <3>5, <3>6
  <2> QED
    BY <2>1, <2>2
<1>14. Sound(p', el') /\ LinesIn(InTable(p'), el') = LinesIn(InTable(p), el)
  <2>1. Sound(p', el')
    <3>1. \A f \in Elems : el'[f].key \in Nat
      BY <1>2, <1>13
    <3>2. \A f \in InTable(p') : el'[f].key = el[f].key
      BY <1>2, <1>8, <1>13
    <3> QED
      BY <3>1, <3>2, <1>8, SoundFrame
  <2> QED
    BY <2>1, <1>2, <1>8, <1>13, LinesFrame
<1>15. SizeCounted'
  BY <1>1, <1>8, <1>14 DEF MpInv, SizeCounted, TableSize
<1>16. InsertBegun'
  BY <1>1 DEF MpInv, InsertBegun
<1>17. MpTypes'
  BY <1>1, <1>2, <1>3, <1>12, <1>13, <1>14 DEF MpTypes
<1>18. ASSUME NEW f \in Elems
       PROVE  /\ FiniteRefs(f, held', filling', out', in')
              /\ Sum(f, p', held', filling', out', in')
                   = Sum(f, p, held, filling, out, in) + (IF g = f THEN 1 ELSE 0)
  <2>1. FiniteRefs(f, held', filling', out', in')
    BY <1>1, <1>2, <1>5, <1>12 DEF FiniteRefs
  <2>2. RefFacts(f, held, filling, out, in)
    BY <1>2, SumFacts DEF Queues
  <2>3. /\ Bool(f \in InTable(p')) = Bool(f \in InTable(p))
        /\ Bool(f \in InTable(p)) \in Nat
    BY <1>8 DEF Bool
  <2>4. /\ Cardinality(Places(out', AnswersTo(f)))
             = Cardinality(Places(out, AnswersTo(f))) + (IF g = f THEN 1 ELSE 0)
        /\ Cardinality(Places(in', ReleasesOf(f))) = Cardinality(Places(in, ReleasesOf(f)))
        /\ held' = held /\ filling' = filling
    BY <1>1, <1>5, <1>12
  <2> QED
    BY <2>1, <2>2, <2>3, <2>4 DEF Sum, RefFacts
<1>19. RefsFinite' /\ RefCountExact'
  <2>1. \A f \in Elems : Sum(f, p', held', filling', out', in') = el'[f].ref
    BY <1>2, <1>13, <1>18
  <2>2. \A f \in Elems : f \in live' <=> Sum(f, p', held', filling', out', in') > 0
    <3>1. \A f \in Elems : g = f => f \in live
      BY <1>2, <1>7, PartitionAssumption
    <3> QED
      BY <3>1, <1>1, <1>2, <1>18
  <2> QED
    BY <2>1, <2>2, <1>18, CountsRight
<1>20. MaskedReferred'
  BY <1>2, <1>13 DEF RefInv, MaskedReferred
<1>21. ValuesRight'
  <2>1. \A h \in Handles : h.e \in Elems
    BY DEF Handles
  <2> QED
    BY <2>1, <1>1, <1>2, <1>13 DEF RefInv, RefsRight, ValuesRight, Written
<1>22. AnswersRight'
  <2>1. ASSUME NEW d \in Clients, NEW i \in 1..Len(out'[d]), NEW b, b = out'[d][i], b.e # NULL
        PROVE  el'[b.e].key = b.key /\ (b.op = "lookup" => data'[b.e] = el'[b.e].key)
    <3>1. CASE b = a
      <4>1. g \in Elems /\ el'[g].key = k /\ data[g] = el'[g].key
        BY <2>1, <3>1, <1>7, <1>9, <1>10, <1>13
      <4> QED
        BY <4>1, <3>1, <1>1, <1>9
    <3>2. CASE i \in 1..Len(out[d]) /\ b = out[d][i]
      <4>1. b \in Answers
        BY <3>2, <1>2 DEF Queues
      <4>2. b.e \in Elems
        BY <4>1, <2>1 DEF Answers
      <4>3. el[b.e].key = b.key /\ (b.op = "lookup" => data[b.e] = el[b.e].key)
        BY <2>1, <3>2, <1>2 DEF RefInv, RefsRight, AnswersRight, Written
      <4> QED
        BY <4>2, <4>3, <1>1, <1>13
    <3> QED
      BY <3>1, <3>2, <2>1, <1>12
  <2> QED
    BY <2>1 DEF AnswersRight, Written
<1>23. ReleasesRight'
  <2>1. ASSUME NEW d \in Clients, NEW i \in 1..Len(in'[d]), NEW m, m = in'[d][i], m.op = "release"
        PROVE  data[m.e] = el'[m.e].key
    <3>1. PICK j \in 1..Len(in[d]) : m = in[d][j]
      BY <2>1, <1>4
    <3>2. m \in Messages
      BY <3>1, <1>2 DEF Queues
    <3>3. m.e \in Elems
      BY <3>2, <2>1, MessageFields
    <3>4. data[m.e] = el[m.e].key
      BY <2>1, <3>1, <1>2 DEF RefInv, RefsRight, ReleasesRight, Written
    <3> QED
      BY <3>3, <3>4, <1>13
  <2> QED
    BY <2>1, <1>1 DEF ReleasesRight, Written
<1>24. TableRight'
  BY <1>1, <1>2, <1>8, <1>13 DEF RefInv, RefsRight, TableRight, Written
<1>25. OneFiller'
  <2>1. \A f \in Elems, d \in Clients : \A j \in 1..Len(out'[d]) :
          InsertAnswer(out'[d][j], f) => j \in 1..Len(out[d]) /\ InsertAnswer(out[d][j], f)
    BY <1>9, <1>12 DEF InsertAnswer
  <2>2. ASSUME NEW f \in Elems, NEW d \in Clients, NEW i \in 1..Len(out'[d]), NEW b,
               b = out'[d][i], InsertAnswer(b, f)
        PROVE  /\ \A x \in Clients : \A h \in filling[x] : h.e # f
               /\ \A x \in Clients : \A j \in 1..Len(out'[x]) :
                    InsertAnswer(out'[x][j], f) => x = d /\ j = i
    <3>1. i \in 1..Len(out[d]) /\ InsertAnswer(out[d][i], f)
      BY <2>1, <2>2
    <3>2. /\ \A x \in Clients : \A h \in filling[x] : h.e # f
          /\ \A x \in Clients : \A j \in 1..Len(out[x]) :
               InsertAnswer(out[x][j], f) => x = d /\ j = i
      BY <3>1, <1>2 DEF RefInv, OneFiller
    <3> QED
      BY <2>1, <3>2
  <2> QED
    BY <2>2, <1>1 DEF OneFiller
<1> QED
  BY <1>1, <1>15, <1>16, <1>17, <1>19, <1>20, <1>21, <1>22, <1>23, <1>24, <1>25 DEF MpInv, RefsRight



-----------------------------------------------------------------------------
(* Clients keep the invariant *)

\* A step of a client leaves the server alone and moves references about.
LEMMA ClientKeeps ==
  ASSUME MpInv, pc # "destroyed", UNCHANGED <<p, el, live, data, pc, ins>>, Queues',
         \A f \in Elems : /\ FiniteRefs(f, held', filling', out', in')
                          /\ Sum(f, p', held', filling', out', in') = Sum(f, p, held, filling, out, in),
         ValuesRight', AnswersRight', ReleasesRight', OneFiller'
  PROVE  MpInv'
<1>1. MpTypes /\ RefInv
  BY RefInvFacts
<1>2. MpTypes'
  BY <1>1 DEF MpTypes, Queues
<1>3. SizeCounted' /\ InsertBegun'
  BY DEF MpInv, SizeCounted, InsertBegun
<1>4. RefsFinite' /\ RefCountExact' /\ MaskedReferred'
  BY SameKeeps
<1>5. TableRight'
  BY <1>1 DEF RefInv, RefsRight, TableRight, Written
<1> QED
  BY <1>2, <1>3, <1>4, <1>5 DEF MpInv, RefsRight

\* A client makes a request, which refers to no element.
LEMMA RequestKeeps ==
  ASSUME MpInv, pc # "destroyed", NEW c \in Clients, Request(c)
  PROVE  MpInv'
<1>1. PICK m \in Messages : smp_hash_request(c, m) /\ m.op # "release"
  <2>1. CASE \E k \in Keys : smp_hash_request(c, [op |-> "lookup", key |-> k])
    <3>1. PICK k \in Keys : smp_hash_request(c, [op |-> "lookup", key |-> k])
      BY <2>1
    <3>2. [op |-> "lookup", key |-> k] \in Messages
      BY DEF Messages
    <3> QED
      BY <3>1, <3>2
  <2>2. CASE \E k \in Keys, sz \in Sizes :
               smp_hash_request(c, [op |-> "insert", key |-> k, size |-> sz])
    <3>1. PICK k \in Keys, sz \in Sizes :
            smp_hash_request(c, [op |-> "insert", key |-> k, size |-> sz])
      BY <2>2
    <3>2. [op |-> "insert", key |-> k, size |-> sz] \in Messages
      BY DEF Messages
    <3> QED
      BY <3>1, <3>2
  <2> QED
    BY <2>1, <2>2 DEF Request
<1>2. UNCHANGED <<p, el, live, data, pc, ins, out, held, filling>> /\ Send(c, m)
  BY <1>1 DEF smp_hash_request
<1>3. /\ RefInv /\ Queues
      /\ \A f \in Elems : FiniteRefs(f, held, filling, out, in)
  BY RefInvFacts
<1>4. /\ in' \in [Clients -> Seq(Messages)]
      /\ \A d \in Clients : \A i \in 1..Len(in'[d]) :
           in'[d][i] = m \/ \E j \in 1..Len(in[d]) : in'[d][i] = in[d][j]
      /\ \A f \in Elems :
           /\ IsFiniteSet(Places(in', ReleasesOf(f)))
           /\ Cardinality(Places(in', ReleasesOf(f)))
                = Cardinality(Places(in, ReleasesOf(f))) + (IF m.op = "release" /\ m.e = f THEN 1 ELSE 0)
  BY <1>2, <1>3, SendFacts
<1>5. ASSUME NEW f \in Elems
      PROVE  /\ FiniteRefs(f, held', filling', out', in')
             /\ Sum(f, p', held', filling', out', in') = Sum(f, p, held, filling, out, in)
  <2>1. FiniteRefs(f, held', filling', out', in')
    BY <1>2, <1>3, <1>4 DEF FiniteRefs
  <2>2. RefFacts(f, held, filling, out, in)
    BY <1>3, SumFacts DEF Queues
  <2>3. Cardinality(Places(in', ReleasesOf(f))) = Cardinality(Places(in, ReleasesOf(f)))
    BY <2>2, <1>1, <1>4 DEF RefFacts
  <2> QED
    BY <2>1, <2>3, <1>2 DEF Sum
<1>6. Queues' /\ ValuesRight' /\ AnswersRight' /\ OneFiller'
  BY <1>2, <1>3, <1>4 DEF Queues, RefInv, RefsRight, ValuesRight, AnswersRight, OneFiller, Written
<1>7. ReleasesRight'
  BY <1>1, <1>2, <1>3, <1>4 DEF RefInv, RefsRight, ReleasesRight, Written
<1> QED
  BY <1>2, <1>5, <1>6, <1>7, ClientKeeps

\* A client takes an answer: the reference was on its way, now the client has it.
LEMMA GetNextKeeps ==
  ASSUME MpInv, pc # "destroyed", NEW c \in Clients, smp_get_next(c)
  PROVE  MpInv'
<1> DEFINE a == Head(out[c])
           h == [e |-> a.e, key |-> a.key]
<1>1. /\ RefInv /\ Queues
      /\ \A f \in Elems : FiniteRefs(f, held, filling, out, in)
  BY RefInvFacts
<1>2. /\ UNCHANGED <<p, el, live, data, pc, ins, in>>
      /\ out[c] # <<>> /\ out' = [out EXCEPT ![c] = Tail(out[c])]
  BY DEF smp_get_next
<1>3. /\ a.e = NULL => UNCHANGED <<held, filling>>
      /\ a.e # NULL /\ a.op = "lookup" =>
           held' = [held EXCEPT ![c][h] = held[c][h] + 1] /\ UNCHANGED filling
      /\ a.e # NULL /\ a.op # "lookup" =>
           filling' = [filling EXCEPT ![c] = filling[c] \cup {h}] /\ UNCHANGED held
  BY DEF smp_get_next
<1>4. Taken(out, out', c) /\ out \in [Clients -> Seq(Answers)]
  BY <1>1, <1>2 DEF Taken, Queues
<1>5. out' \in [Clients -> Seq(Answers)] /\ a \in Answers
  BY <1>4 DEF Taken
<1>6. /\ a = out[c][1] /\ 1 \in 1..Len(out[c])
      /\ \A d \in Clients : \A i \in 1..Len(out'[d]) :
           /\ d # c => i \in 1..Len(out[d]) /\ out'[d][i] = out[d][i]
           /\ d = c => i + 1 \in 1..Len(out[d]) /\ out'[d][i] = out[d][i + 1]
  BY <1>4, QueueTail
<1>7. ASSUME NEW f \in Elems
      PROVE  /\ IsFiniteSet(Places(out', AnswersTo(f)))
             /\ Cardinality(Places(out', AnswersTo(f)))
                  = Cardinality(Places(out, AnswersTo(f))) - (IF a.e = f THEN 1 ELSE 0)
  <2>1. IsFiniteSet(Places(out, AnswersTo(f)))
    BY <1>1 DEF FiniteRefs
  <2>2. /\ IsFiniteSet(Places(out', AnswersTo(f)))
        /\ Cardinality(Places(out', AnswersTo(f)))
             = Cardinality(Places(out, AnswersTo(f))) - (IF a \in AnswersTo(f) THEN 1 ELSE 0)
    BY <2>1, <1>4, PlacesTail
  <2>3. a \in AnswersTo(f) <=> a.e = f
    BY <1>5, MessageKinds
  <2> QED
    BY <2>2, <2>3
<1>8. /\ a.key \in Keys /\ a.op \in {"lookup", "insert"} /\ a.e \in Elems \cup {NULL}
      /\ h.e = a.e /\ h.key = a.key /\ (a.e # NULL => h \in Handles)
  BY <1>5 DEF Answers, Handles
<1>9. a.e # NULL => el[a.e].key = a.key /\ (a.op = "lookup" => data[a.e] = el[a.e].key)
  BY <1>1, <1>6 DEF RefInv, RefsRight, AnswersRight, Written
<1>10. AnswersRight'
  <2>1. ASSUME NEW d \in Clients, NEW i \in 1..Len(out'[d]), NEW b, b = out'[d][i], b.e # NULL
        PROVE  el[b.e].key = b.key /\ (b.op = "lookup" => data[b.e] = el[b.e].key)
    <3>1. PICK j \in 1..Len(out[d]) : b = out[d][j]
      BY <2>1, <1>6
    <3> QED
      BY <2>1, <3>1, <1>1 DEF RefInv, RefsRight, AnswersRight, Written
  <2>2. el' = el /\ data' = data
    BY <1>2
  <2> QED
    BY <2>1, <2>2 DEF AnswersRight, Written
<1>11. ReleasesRight'
  BY <1>1, <1>2 DEF RefInv, RefsRight, ReleasesRight, Written
<1> HIDE DEF a, h
\* Answers that are left are to no element that the client now fills.
<1>12. ASSUME NEW f \in Elems, NEW d \in Clients, NEW i \in 1..Len(out'[d]), NEW b,
              b = out'[d][i], InsertAnswer(b, f)
       PROVE  /\ \A x \in Clients : \A g \in filling[x] : g.e # f
              /\ ~InsertAnswer(a, f)
              /\ \A x \in Clients : \A j \in 1..Len(out'[x]) :
                   InsertAnswer(out'[x][j], f) => x = d /\ j = i
  <2>1. CASE d # c
    <3>1. i \in 1..Len(out[d]) /\ out[d][i] = b
      BY <1>6, <1>12, <2>1
    <3>2. /\ \A x \in Clients : \A g \in filling[x] : g.e # f
          /\ \A x \in Clients : \A j \in 1..Len(out[x]) :
               InsertAnswer(out[x][j], f) => x = d /\ j = i
      BY <3>1, <1>1, <1>12 DEF RefInv, OneFiller
    <3> QED
      BY <3>2, <2>1, <1>6
  <2>2. CASE d = c
    <3>1. i + 1 \in 1..Len(out[c]) /\ out[c][i + 1] = b
      BY <1>6, <1>12, <2>2
    <3>2. /\ \A x \in Clients : \A g \in filling[x] : g.e # f
          /\ \A x \in Clients : \A j \in 1..Len(out[x]) :
               InsertAnswer(out[x][j], f) => x = c /\ j = i + 1
      BY <3>1, <1>1, <1>12 DEF RefInv, OneFiller
    <3>3. ~InsertAnswer(a, f)
      BY <3>2, <1>6, 1 # i + 1
    <3>4. ASSUME NEW x \in Clients, NEW j \in 1..Len(out'[x]), InsertAnswer(out'[x][j], f)
          PROVE  x = d /\ j = i
      <4>1. x = c
        BY <3>2, <3>4, <1>6
      <4>2. j + 1 \in 1..Len(out[c]) /\ InsertAnswer(out[c][j + 1], f)
        BY <4>1, <3>4, <1>6
      <4>3. j + 1 = i + 1
        BY <4>2, <3>2
      <4> QED
        BY <4>1, <4>3, <2>2
    <3> QED
      BY <3>2, <3>3, <3>4
  <2> QED
    BY <2>1, <2>2
<1>13. CASE a.e = NULL
  <2>1. held' = held /\ filling' = filling
    BY <1>3, <1>13
  <2>2. ASSUME NEW f \in Elems
        PROVE  /\ FiniteRefs(f, held', filling', out', in')
               /\ Sum(f, p', held', filling', out', in') = Sum(f, p, held, filling, out, in)
    <3>1. FiniteRefs(f, held', filling', out', in')
      BY <2>1, <1>1, <1>2, <1>7 DEF FiniteRefs
    <3>2. RefFacts(f, held, filling, out, in)
      BY <1>1, SumFacts DEF Queues
    <3>3. Cardinality(Places(out', AnswersTo(f))) = Cardinality(Places(out, AnswersTo(f)))
      BY <3>2, <1>7, <1>13, PartitionAssumption DEF RefFacts
    <3> QED
      BY <3>1, <3>3, <2>1, <1>2 DEF Sum
  <2>3. Queues' /\ ValuesRight'
    BY <2>1, <1>1, <1>2, <1>5 DEF Queues, RefInv, RefsRight, ValuesRight, Written
  <2>4. OneFiller'
    BY <2>1, <1>12 DEF OneFiller
  <2> QED
    BY <2>2, <2>3, <2>4, <1>2, <1>10, <1>11, ClientKeeps
<1>14. CASE a.e # NULL /\ a.op = "lookup"
  <2>1. held' = [held EXCEPT ![c][h] = held[c][h] + 1] /\ filling' = filling
    BY <1>3, <1>14
  <2>2. h \in Handles /\ h.e = a.e /\ h.key = a.key /\ a.e \in Elems
    BY <1>8, <1>14
  <2>3. /\ held \in [Clients -> [Handles -> Nat]] /\ held' \in [Clients -> [Handles -> Nat]]
        /\ held'[c][h] = held[c][h] + 1
        /\ \A d \in Clients, g \in Handles : d # c \/ g # h => held'[d][g] = held[d][g]
    BY <2>1, <2>2, <1>1 DEF Queues
  <2>4. ASSUME NEW f \in Elems
        PROVE  /\ FiniteRefs(f, held', filling', out', in')
               /\ Sum(f, p', held', filling', out', in') = Sum(f, p, held, filling, out, in)
    <3>1. /\ IsFiniteSet(HeldOf(held, f)) <=> IsFiniteSet(HeldOf(held', f))
          /\ IsFiniteSet(HeldOf(held, f)) =>
               /\ Cardinality(HeldOf(held', f)) = Cardinality(HeldOf(held, f)) + (IF h.e = f THEN 1 ELSE 0)
               /\ Cardinality(HeldOf(held, f)) \in Nat
      BY <2>2, <2>3, HeldOne, ZenonT(120)
    <3>2. FiniteRefs(f, held', filling', out', in')
      BY <3>1, <2>1, <1>1, <1>2, <1>7 DEF FiniteRefs
    <3>3. RefFacts(f, held, filling, out, in) /\ IsFiniteSet(HeldOf(held, f))
      BY <1>1, SumFacts DEF Queues, FiniteRefs
    <3>4. /\ Cardinality(HeldOf(held', f)) = Cardinality(HeldOf(held, f)) + (IF a.e = f THEN 1 ELSE 0)
          /\ Cardinality(Places(out', AnswersTo(f)))
               = Cardinality(Places(out, AnswersTo(f))) - (IF a.e = f THEN 1 ELSE 0)
          /\ p' = p /\ filling' = filling /\ in' = in
      BY <3>1, <3>3, <2>1, <2>2, <1>2, <1>7
    <3>5. Bool(f \in InTable(p)) \in Nat
      BY DEF Bool
    <3> QED
      BY <3>2, <3>3, <3>4, <3>5 DEF Sum, RefFacts
  <2>5. Queues'
    BY <2>1, <2>3, <1>1, <1>2, <1>5 DEF Queues
  <2>6. ValuesRight'
    <3>1. ASSUME NEW d \in Clients, NEW g \in Handles
          PROVE  /\ g \in filling[d] => el[g.e].key = g.key
                 /\ held'[d][g] > 0 => el[g.e].key = g.key /\ data[g.e] = el[g.e].key
      <4>1. CASE d = c /\ g = h
        BY <4>1, <2>2, <1>1, <1>9, <1>14 DEF RefInv, RefsRight, ValuesRight
      <4>2. CASE d # c \/ g # h
        BY <4>2, <2>3, <1>1 DEF RefInv, RefsRight, ValuesRight, Written
      <4> QED
        BY <4>1, <4>2
    <3> QED
      BY <3>1, <2>1, <1>2 DEF ValuesRight, Written
  <2>7. OneFiller'
    BY <2>1, <1>12 DEF OneFiller
  <2> QED
    BY <2>4, <2>5, <2>6, <2>7, <1>2, <1>10, <1>11, ClientKeeps
<1>15. CASE a.e # NULL /\ a.op # "lookup"
  <2>1. filling' = [filling EXCEPT ![c] = filling[c] \cup {h}] /\ held' = held
    BY <1>3, <1>15
  <2>2. h \in Handles /\ h.e = a.e /\ h.key = a.key /\ a.e \in Elems /\ InsertAnswer(a, a.e)
    BY <1>8, <1>15 DEF InsertAnswer
  <2>3. \A d \in Clients : \A g \in filling[d] : g.e # a.e
    BY <2>2, <1>1, <1>6 DEF RefInv, OneFiller
  <2>4. /\ filling \in [Clients -> SUBSET Handles] /\ filling' \in [Clients -> SUBSET Handles]
        /\ h \notin filling[c] /\ filling'[c] = filling[c] \cup {h}
        /\ \A d \in Clients : d # c => filling'[d] = filling[d]
    BY <2>1, <2>2, <2>3, <1>1 DEF Queues
  <2>5. ASSUME NEW f \in Elems
        PROVE  /\ FiniteRefs(f, held', filling', out', in')
               /\ Sum(f, p', held', filling', out', in') = Sum(f, p, held, filling, out, in)
    <3>1. /\ IsFiniteSet(FillOf(filling, f)) <=> IsFiniteSet(FillOf(filling', f))
          /\ IsFiniteSet(FillOf(filling, f)) =>
               /\ Cardinality(FillOf(filling', f)) = Cardinality(FillOf(filling, f)) + (IF h.e = f THEN 1 ELSE 0)
               /\ Cardinality(FillOf(filling, f)) \in Nat
      BY <2>2, <2>4, FillOne
    <3>2. FiniteRefs(f, held', filling', out', in')
      BY <3>1, <2>1, <1>1, <1>2, <1>7 DEF FiniteRefs
    <3>3. RefFacts(f, held, filling, out, in) /\ IsFiniteSet(FillOf(filling, f))
      BY <1>1, SumFacts DEF Queues, FiniteRefs
    <3>4. /\ Cardinality(FillOf(filling', f)) = Cardinality(FillOf(filling, f)) + (IF a.e = f THEN 1 ELSE 0)
          /\ Cardinality(Places(out', AnswersTo(f)))
               = Cardinality(Places(out, AnswersTo(f))) - (IF a.e = f THEN 1 ELSE 0)
          /\ p' = p /\ held' = held /\ in' = in
      BY <3>1, <3>3, <2>1, <2>2, <1>2, <1>7
    <3>5. Bool(f \in InTable(p)) \in Nat
      BY DEF Bool
    <3> QED
      BY <3>2, <3>3, <3>4, <3>5 DEF Sum, RefFacts
  <2>6. Queues'
    BY <2>1, <2>4, <1>1, <1>2, <1>5 DEF Queues
  <2>7. ValuesRight'
    <3>1. \A d \in Clients : \A g \in filling'[d] : g = h \/ g \in filling[d]
      BY <2>4
    <3>2. el[h.e].key = h.key
      BY <2>2, <1>9, <1>15
    <3> QED
      BY <3>1, <3>2, <2>1, <1>1, <1>2 DEF RefInv, RefsRight, ValuesRight, Written
  <2>8. OneFiller'
    <3>1. \A d \in Clients : \A g \in filling'[d] : g.e = a.e \/ g \in filling[d]
      BY <2>2, <2>4
    <3>2. ASSUME NEW f \in Elems, NEW d \in Clients, NEW i \in 1..Len(out'[d]), NEW b,
                 b = out'[d][i], InsertAnswer(b, f)
          PROVE  \A x \in Clients : \A g \in filling'[x] : g.e # f
      <4>1. f # a.e
        BY <3>2, <2>2, <1>12
      <4> QED
        BY <4>1, <3>1, <3>2, <1>12
    <3> QED
      BY <3>2, <1>12 DEF OneFiller
  <2> QED
    BY <2>5, <2>6, <2>7, <2>8, <1>2, <1>10, <1>11, ClientKeeps
<1> QED
  BY <1>13, <1>14, <1>15


\* A client writes a value: it is the one its element is for.
LEMMA FillKeeps ==
  ASSUME MpInv, pc # "destroyed", NEW c \in Clients, NEW h \in filling[c], Fill(c, h)
  PROVE  MpInv'
<1>1. /\ UNCHANGED <<p, el, live, pc, ins, out, in, held, filling>>
      /\ data' = [data EXCEPT ![h.e] = h.key]
  BY DEF Fill, clientvars
<1>2. /\ RefInv /\ Queues /\ MpTypes /\ InTable(p) \subseteq Elems
      /\ \A f \in Elems : FiniteRefs(f, held, filling, out, in)
  BY RefInvFacts
<1>3. h \in Handles /\ h.e \in Elems /\ h.key \in Keys /\ el[h.e].key = h.key
  <2>1. h \in Handles
    BY <1>2 DEF Queues
  <2>2. el[h.e].key = h.key
    BY <2>1, <1>2 DEF RefInv, RefsRight, ValuesRight
  <2> QED
    BY <2>1, <2>2 DEF Handles
<1>4. /\ data' \in [Elems -> Keys \cup {NULL}]
      /\ \A f \in Elems : data[f] = el[f].key => data'[f] = el[f].key
  BY <1>1, <1>2, <1>3 DEF MpTypes
<1>5. UNCHANGED <<p, el, live, pc, ins, out, in, held, filling>>
  BY <1>1
<1>6. MpTypes' /\ SizeCounted' /\ InsertBegun'
  BY <1>2, <1>4, <1>5 DEF MpInv, MpTypes, SizeCounted, InsertBegun
<1>7. \A f \in Elems : /\ FiniteRefs(f, held', filling', out', in')
                       /\ Sum(f, p', held', filling', out', in') = Sum(f, p, held, filling, out, in)
  BY <1>2, <1>5
<1>8. RefsFinite' /\ RefCountExact' /\ MaskedReferred'
  BY <1>5, <1>7, SameKeeps
<1>9. ValuesRight'
  <2>1. \A g \in Handles : g.e \in Elems
    BY DEF Handles
  <2> QED
    BY <2>1, <1>2, <1>4, <1>5 DEF RefInv, RefsRight, ValuesRight, Written
<1>10. AnswersRight'
  <2>1. ASSUME NEW d \in Clients, NEW i \in 1..Len(out[d]), NEW b, b = out[d][i], b.e # NULL
        PROVE  el[b.e].key = b.key /\ (b.op = "lookup" => data'[b.e] = el[b.e].key)
    <3>1. b \in Answers
      BY <2>1, <1>2 DEF Queues
    <3>2. b.e \in Elems
      BY <3>1, <2>1 DEF Answers
    <3>3. el[b.e].key = b.key /\ (b.op = "lookup" => data[b.e] = el[b.e].key)
      BY <2>1, <1>2 DEF RefInv, RefsRight, AnswersRight, Written
    <3> QED
      BY <3>2, <3>3, <1>4
  <2> QED
    BY <2>1, <1>5 DEF AnswersRight, Written
<1>11. ReleasesRight'
  <2>1. ASSUME NEW d \in Clients, NEW i \in 1..Len(in[d]), NEW m, m = in[d][i], m.op = "release"
        PROVE  data'[m.e] = el[m.e].key
    <3>1. m \in Messages
      BY <2>1, <1>2 DEF Queues
    <3>2. m.e \in Elems
      BY <3>1, <2>1, MessageFields
    <3>3. data[m.e] = el[m.e].key
      BY <2>1, <1>2 DEF RefInv, RefsRight, ReleasesRight, Written
    <3> QED
      BY <3>2, <3>3, <1>4
  <2> QED
    BY <2>1, <1>5 DEF ReleasesRight, Written
<1>12. TableRight' /\ OneFiller'
  BY <1>2, <1>4, <1>5 DEF RefInv, RefsRight, TableRight, OneFiller, Written
<1> QED
  BY <1>5, <1>6, <1>8, <1>9, <1>10, <1>11, <1>12 DEF MpInv, RefsRight

\* What sending a release of e adds to the queues.
LEMMA SendRelease ==
  ASSUME RefInv, Queues, NEW c \in Clients, NEW e \in Elems, Written(e),
         UNCHANGED <<el, data>>, Send(c, [op |-> "release", e |-> e]),
         \A f \in Elems : FiniteRefs(f, held, filling, out, in)
  PROVE  /\ in' \in [Clients -> Seq(Messages)] /\ ReleasesRight'
         /\ \A f \in Elems :
              /\ IsFiniteSet(Places(in', ReleasesOf(f)))
              /\ Cardinality(Places(in', ReleasesOf(f)))
                   = Cardinality(Places(in, ReleasesOf(f))) + (IF e = f THEN 1 ELSE 0)
<1> DEFINE m == [op |-> "release", e |-> e]
<1>1. m \in Messages /\ m.op = "release" /\ m.e = e /\ Send(c, m)
  BY DEF Messages
<1> HIDE DEF m
<1>2. /\ in' \in [Clients -> Seq(Messages)]
      /\ \A d \in Clients : \A i \in 1..Len(in'[d]) :
           in'[d][i] = m \/ \E j \in 1..Len(in[d]) : in'[d][i] = in[d][j]
      /\ \A f \in Elems :
           /\ IsFiniteSet(Places(in', ReleasesOf(f)))
           /\ Cardinality(Places(in', ReleasesOf(f)))
                = Cardinality(Places(in, ReleasesOf(f))) + (IF m.op = "release" /\ m.e = f THEN 1 ELSE 0)
  BY <1>1, SendFacts
<1>3. ASSUME NEW d \in Clients, NEW i \in 1..Len(in'[d]), NEW b, b = in'[d][i], b.op = "release"
      PROVE  data[b.e] = el[b.e].key
  <2>1. CASE b = m
    BY <2>1, <1>1 DEF Written
  <2>2. CASE \E j \in 1..Len(in[d]) : b = in[d][j]
    BY <2>2, <1>3 DEF RefInv, RefsRight, ReleasesRight, Written
  <2> QED
    BY <2>1, <2>2, <1>2, <1>3
<1>4. ReleasesRight'
  BY <1>3 DEF ReleasesRight, Written
<1> QED
  BY <1>1, <1>2, <1>4

\* A client marks a value ready: its reference is on its way back.
LEMMA MarkReadyKeeps ==
  ASSUME MpInv, pc # "destroyed", NEW c \in Clients, NEW h \in filling[c], mp_mark_ready(c, h)
  PROVE  MpInv'
<1>1. /\ UNCHANGED <<p, el, live, data, pc, ins, out, held>> /\ data[h.e] = h.key
      /\ Send(c, [op |-> "release", e |-> h.e])
      /\ filling' = [filling EXCEPT ![c] = filling[c] \ {h}]
  BY DEF mp_mark_ready
<1>2. /\ RefInv /\ Queues
      /\ \A f \in Elems : FiniteRefs(f, held, filling, out, in)
  BY RefInvFacts
<1>3. h \in Handles /\ h.e \in Elems /\ Written(h.e)
  <2>1. h \in Handles
    BY <1>2 DEF Queues
  <2>2. el[h.e].key = h.key
    BY <2>1, <1>2 DEF RefInv, RefsRight, ValuesRight
  <2> QED
    BY <2>1, <2>2, <1>1 DEF Handles, Written
<1>4. /\ in' \in [Clients -> Seq(Messages)] /\ ReleasesRight'
      /\ \A f \in Elems :
           /\ IsFiniteSet(Places(in', ReleasesOf(f)))
           /\ Cardinality(Places(in', ReleasesOf(f)))
                = Cardinality(Places(in, ReleasesOf(f))) + (IF h.e = f THEN 1 ELSE 0)
  BY <1>1, <1>2, <1>3, SendRelease
<1>5. /\ filling \in [Clients -> SUBSET Handles] /\ filling' \in [Clients -> SUBSET Handles]
      /\ h \notin filling'[c] /\ filling[c] = filling'[c] \cup {h}
      /\ \A d \in Clients : d # c => filling[d] = filling'[d]
  BY <1>1, <1>2 DEF Queues
<1>6. UNCHANGED <<p, el, live, data, pc, ins, out, held>>
  BY <1>1
<1>7. ASSUME NEW f \in Elems
      PROVE  /\ FiniteRefs(f, held', filling', out', in')
             /\ Sum(f, p', held', filling', out', in') = Sum(f, p, held, filling, out, in)
  <2>1. /\ IsFiniteSet(FillOf(filling', f)) <=> IsFiniteSet(FillOf(filling, f))
        /\ IsFiniteSet(FillOf(filling', f)) =>
             /\ Cardinality(FillOf(filling, f)) = Cardinality(FillOf(filling', f)) + (IF h.e = f THEN 1 ELSE 0)
             /\ Cardinality(FillOf(filling', f)) \in Nat
    BY <1>3, <1>5, FillOne, ZenonT(120)
  <2>2. FiniteRefs(f, held', filling', out', in')
    BY <2>1, <1>2, <1>4, <1>6 DEF FiniteRefs
  <2>3. RefFacts(f, held, filling, out, in) /\ IsFiniteSet(FillOf(filling', f))
    BY <2>2, <1>2, SumFacts DEF Queues, FiniteRefs
  <2>4. /\ Cardinality(FillOf(filling, f)) = Cardinality(FillOf(filling', f)) + (IF h.e = f THEN 1 ELSE 0)
        /\ Cardinality(FillOf(filling', f)) \in Nat
        /\ Cardinality(Places(in', ReleasesOf(f)))
             = Cardinality(Places(in, ReleasesOf(f))) + (IF h.e = f THEN 1 ELSE 0)
        /\ p' = p /\ held' = held /\ out' = out
    BY <2>1, <2>3, <1>4, <1>6
  <2>5. Bool(f \in InTable(p)) \in Nat
    BY DEF Bool
  <2> QED
    BY <2>2, <2>3, <2>4, <2>5 DEF Sum, RefFacts
<1>8. Queues'
  BY <1>2, <1>4, <1>5, <1>6 DEF Queues
<1>9. \A d \in Clients : filling'[d] \subseteq filling[d]
  BY <1>5
<1>10. ValuesRight' /\ AnswersRight'
  BY <1>2, <1>6, <1>9 DEF RefInv, RefsRight, ValuesRight, AnswersRight, Written
<1>11. OneFiller'
  <2>1. ASSUME NEW f \in Elems, NEW d \in Clients, NEW i \in 1..Len(out[d]), InsertAnswer(out[d][i], f)
        PROVE  /\ \A x \in Clients : \A g \in filling'[x] : g.e # f
               /\ \A x \in Clients : \A j \in 1..Len(out[x]) :
                    InsertAnswer(out[x][j], f) => x = d /\ j = i
    BY <2>1, <1>2, <1>9 DEF RefInv, OneFiller
  <2> QED
    BY <2>1, <1>6 DEF OneFiller
<1> QED
  BY <1>4, <1>6, <1>7, <1>8, <1>10, <1>11, ClientKeeps

\* A client releases a value: its reference is on its way back.
LEMMA ReleaseValueKeeps ==
  ASSUME MpInv, pc # "destroyed", NEW c \in Clients, NEW h \in Handles, mp_release_value(c, h)
  PROVE  MpInv'
<1>1. /\ UNCHANGED <<p, el, live, data, pc, ins, out, filling>> /\ held[c][h] > 0
      /\ Send(c, [op |-> "release", e |-> h.e])
      /\ held' = [held EXCEPT ![c][h] = held[c][h] - 1]
  BY DEF mp_release_value
<1>2. /\ RefInv /\ Queues
      /\ \A f \in Elems : FiniteRefs(f, held, filling, out, in)
  BY RefInvFacts
<1>3. h.e \in Elems /\ Written(h.e)
  BY <1>1, <1>2 DEF RefInv, RefsRight, ValuesRight, Handles
<1>4. /\ in' \in [Clients -> Seq(Messages)] /\ ReleasesRight'
      /\ \A f \in Elems :
           /\ IsFiniteSet(Places(in', ReleasesOf(f)))
           /\ Cardinality(Places(in', ReleasesOf(f)))
                = Cardinality(Places(in, ReleasesOf(f))) + (IF h.e = f THEN 1 ELSE 0)
  BY <1>1, <1>2, <1>3, SendRelease
<1>5. /\ held \in [Clients -> [Handles -> Nat]] /\ held' \in [Clients -> [Handles -> Nat]]
      /\ held[c][h] = held'[c][h] + 1
      /\ \A d \in Clients, g \in Handles : d # c \/ g # h => held[d][g] = held'[d][g]
  <2>1. held[c][h] \in Nat /\ held \in [Clients -> [Handles -> Nat]]
    BY <1>2 DEF Queues
  <2>2. held[c][h] - 1 \in Nat /\ held[c][h] = held[c][h] - 1 + 1
    BY <2>1, <1>1
  <2>3. held'[c][h] = held[c][h] - 1
    BY <2>1, <1>1
  <2>4. /\ held' \in [Clients -> [Handles -> Nat]]
        /\ \A d \in Clients, g \in Handles : d # c \/ g # h => held[d][g] = held'[d][g]
    BY <2>1, <2>2, <1>1
  <2> QED
    BY <2>1, <2>2, <2>3, <2>4
<1>6. UNCHANGED <<p, el, live, data, pc, ins, out, filling>>
  BY <1>1
<1>7. ASSUME NEW f \in Elems
      PROVE  /\ FiniteRefs(f, held', filling', out', in')
             /\ Sum(f, p', held', filling', out', in') = Sum(f, p, held, filling, out, in)
  <2>1. /\ IsFiniteSet(HeldOf(held', f)) <=> IsFiniteSet(HeldOf(held, f))
        /\ IsFiniteSet(HeldOf(held', f)) =>
             /\ Cardinality(HeldOf(held, f)) = Cardinality(HeldOf(held', f)) + (IF h.e = f THEN 1 ELSE 0)
             /\ Cardinality(HeldOf(held', f)) \in Nat
    BY <1>5, HeldOne, ZenonT(120)
  <2>2. FiniteRefs(f, held', filling', out', in')
    BY <2>1, <1>2, <1>4, <1>6 DEF FiniteRefs
  <2>3. RefFacts(f, held, filling, out, in) /\ IsFiniteSet(HeldOf(held', f))
    BY <2>2, <1>2, SumFacts DEF Queues, FiniteRefs
  <2>4. /\ Cardinality(HeldOf(held, f)) = Cardinality(HeldOf(held', f)) + (IF h.e = f THEN 1 ELSE 0)
        /\ Cardinality(HeldOf(held', f)) \in Nat
        /\ Cardinality(Places(in', ReleasesOf(f)))
             = Cardinality(Places(in, ReleasesOf(f))) + (IF h.e = f THEN 1 ELSE 0)
        /\ p' = p /\ filling' = filling /\ out' = out
    BY <2>1, <2>3, <1>4, <1>6
  <2>5. Bool(f \in InTable(p)) \in Nat
    BY DEF Bool
  <2> QED
    BY <2>2, <2>3, <2>4, <2>5 DEF Sum, RefFacts
<1>8. Queues'
  BY <1>2, <1>4, <1>5, <1>6 DEF Queues
<1>9. \A d \in Clients, g \in Handles : held'[d][g] > 0 => held[d][g] > 0
  <2>1. ASSUME NEW d \in Clients, NEW g \in Handles, held'[d][g] > 0 PROVE held[d][g] > 0
    <3>1. CASE d = c /\ g = h
      BY <3>1, <1>1
    <3>2. CASE d # c \/ g # h
      BY <2>1, <3>2, <1>5
    <3> QED
      BY <3>1, <3>2
  <2> QED
    BY <2>1
<1>10. ValuesRight' /\ AnswersRight' /\ OneFiller'
  BY <1>2, <1>6, <1>9 DEF RefInv, RefsRight, ValuesRight, AnswersRight, OneFiller, Written
<1> QED
  BY <1>4, <1>6, <1>7, <1>8, <1>10, ClientKeeps



-----------------------------------------------------------------------------
(* The invariant holds *)

\* When no client has anything, the references left are the table's, one for
\* each element in it, and destroy_hash_table drops them all.
LEMMA DestroyKeeps ==
  ASSUME MpInv, destroy_hash_table
  PROVE  MpInv'
<1>1. /\ pc = "idle" /\ pc' = "destroyed" /\ p' = EmptyPartition
      /\ live' = live \ {e \in InTable(p) : el[e].ref = 1 /\ ~el[e].mask}
      /\ UNCHANGED <<el, data, ins, out, in, held, filling>>
      /\ \A c \in Clients : /\ in[c] = <<>> /\ out[c] = <<>> /\ filling[c] = {}
                            /\ \A h \in Handles : held[c][h] = 0
  BY DEF destroy_hash_table, Quiet, clientvars
<1>2. /\ RefInv /\ Queues /\ MpTypes
      /\ \A f \in Elems : /\ FiniteRefs(f, held, filling, out, in) /\ el[f].key \in Nat
                          /\ Sum(f, p, held, filling, out, in) = el[f].ref /\ el[f].ref \in Nat
                          /\ f \in live <=> el[f].ref > 0
  BY <1>1, RefInvFacts
<1>3. ASSUME NEW f \in live PROVE f \in InTable(p) /\ el[f].ref = 1 /\ ~el[f].mask
  <2>1. f \in Elems
    BY <1>2 DEF MpTypes
  <2>2. RefFacts(f, held, filling, out, in)
    BY <2>1, <1>2, SumFacts DEF Queues
  <2>3. \A c \in Clients : Len(in[c]) = 0 /\ Len(out[c]) = 0
    BY <1>1
  <2>4. /\ Cardinality(HeldOf(held, f)) = 0 /\ Cardinality(FillOf(filling, f)) = 0
    BY <2>2, <1>1 DEF RefFacts
  <2>5. /\ Cardinality(Places(out, AnswersTo(f))) = 0 /\ Cardinality(Places(in, ReleasesOf(f))) = 0
    BY <2>2, <2>3 DEF RefFacts
  <2>6. el[f].ref = IF f \in InTable(p) THEN 1 ELSE 0
    BY <2>1, <2>4, <2>5, <1>2 DEF Sum, Bool
  <2>7. el[f].ref > 0 /\ (el[f].mask => el[f].ref >= 2)
    BY <2>1, <1>2 DEF RefInv, MaskedReferred
  <2> QED
    BY <2>6, <2>7
<1>4. NothingLeft'
  <2>1. live' = {}
    BY <1>1, <1>3
  <2> QED
    BY <2>1, <1>1, <1>2 DEF NothingLeft
<1>5. Sound(p', el) /\ InTable(p') = {} /\ p'.size = 0
  BY <1>1, <1>2, EmptyFacts
<1>6. MpTypes'
  BY <1>1, <1>2, <1>4, <1>5 DEF MpTypes, NothingLeft
<1>7. InsertBegun' /\ ins.size = 0
  BY <1>1 DEF MpInv, InsertBegun
<1>8. SizeCounted'
  BY <1>1, <1>5, <1>7, LinesEmpty DEF SizeCounted, TableSize
<1> QED
  BY <1>1, <1>4, <1>6, <1>7, <1>8 DEF MpInv

\* Initially nobody has anything.
LEMMA InitMpInv == Init => MpInv
<1> SUFFICES ASSUME Init PROVE MpInv
  OBVIOUS
<1> USE DEF Init
<1>1. NoElem \in Words /\ NoInsert \in [c : Clients \cup {NULL}, key : Nat, size : Lines]
  BY DEF NoElem, NoInsert, Words, Lines, CACHELINE
<1>2. \A f \in Elems : el[f].key \in Nat /\ el[f].ref = 0 /\ ~el[f].mask
  BY DEF NoElem
<1>3. Sound(p, el) /\ InTable(p) = {} /\ p.size = 0
  BY <1>2, EmptyFacts
<1>4. Queues
  BY DEF Queues
<1>5. MpTypes
  BY <1>1, <1>3, <1>4 DEF MpTypes, Queues
<1>6. SizeCounted /\ InsertBegun
  BY <1>3, LinesEmpty DEF SizeCounted, InsertBegun, TableSize, NoInsert
<1>7. ASSUME NEW f \in Elems
      PROVE  FiniteRefs(f, held, filling, out, in) /\ Sum(f, p, held, filling, out, in) = 0
  <2>1. HeldOf(held, f) = {}
    <3>1. \A c \in Clients, h \in [e : {f}, key : Keys] : held[c][h] = 0
      BY DEF Handles
    <3>2. \A y \in HeldOf(held, f) : \E c \in Clients, h \in [e : {f}, key : Keys] :
             \E i \in 1..held[c][h] : y = <<<<c, h>>, i>>
      BY HeldOfIn
    <3>3. ASSUME NEW y \in HeldOf(held, f) PROVE FALSE
      <4>1. PICK c \in Clients, h \in [e : {f}, key : Keys] : \E i \in 1..held[c][h] : TRUE
        BY <3>2
      <4> HIDE DEF Init
      <4> QED
        BY <4>1, <3>1
    <3> QED
      BY <3>3
  <2>2. FillOf(filling, f) = {}
    BY DEF FillOf
  <2>3. Places(out, AnswersTo(f)) = {} /\ Places(in, ReleasesOf(f)) = {}
    BY DEF Places
  <2>4. IsFiniteSet({}) /\ Cardinality({}) = 0
    BY FS_EmptySet
  <2> HIDE DEF Init
  <2>5. FiniteRefs(f, held, filling, out, in)
    BY <2>1, <2>2, <2>3, <2>4 DEF FiniteRefs
  <2>6. Bool(f \in InTable(p)) = 0
    BY <1>3 DEF Bool
  <2>7. Sum(f, p, held, filling, out, in) = 0
    BY <2>1, <2>2, <2>3, <2>4, <2>6 DEF Sum
  <2> QED
    BY <2>5, <2>7
<1>8. RefsFinite /\ RefCountExact
  <2>1. \A f \in Elems : Refs(f) = 0
    BY <1>7, RefsDef
  <2>2. RefsFinite
    BY <1>7, RefsDef
  <2> QED
    BY <2>1, <2>2, <1>2 DEF RefCountExact
<1>9. MaskedReferred /\ ValuesRight /\ TableRight
  BY <1>2, <1>3 DEF MaskedReferred, ValuesRight, TableRight
<1>10. AnswersRight /\ ReleasesRight /\ OneFiller
  BY DEF AnswersRight, ReleasesRight, OneFiller
<1> QED
  BY <1>5, <1>6, <1>8, <1>9, <1>10 DEF MpInv, RefsRight

\* Every step of the system keeps the invariant.
LEMMA NextMpInv == MpInv /\ [Next]_vars => MpInv'
<1> SUFFICES ASSUME MpInv, [Next]_vars PROVE MpInv'
  OBVIOUS
<1>1. ASSUME pc \notin {"abort", "destroyed"}, NEW c \in Clients, Request(c) \/ Handle(c)
      PROVE  MpInv'
  <2>1. CASE Request(c)
    BY <1>1, <2>1, RequestKeeps
  <2>2. CASE smp_get_next(c)
    BY <1>1, <2>2, GetNextKeeps
  <2>3. ASSUME NEW h \in filling[c], Fill(c, h) PROVE MpInv'
    BY <1>1, <2>3, FillKeeps
  <2>4. ASSUME NEW h \in filling[c], mp_mark_ready(c, h) PROVE MpInv'
    BY <1>1, <2>4, MarkReadyKeeps
  <2>5. ASSUME NEW h \in Handles, mp_release_value(c, h) PROVE MpInv'
    BY <1>1, <2>5, ReleaseValueKeeps
  <2> QED
    BY <1>1, <2>1, <2>2, <2>3, <2>4, <2>5 DEF Handle
<1>2. CASE Server
  <2>1. ASSUME NEW c \in Clients, ServeLookup(c) \/ ServeInsert(c) \/ ServeRelease(c) PROVE MpInv'
    BY <2>1, ServeLookupKeeps, ServeInsertKeeps, ServeReleaseKeeps
  <2> QED
    BY <1>2, <2>1, EvictKeeps, InsertLinkKeeps DEF Server
<1>3. CASE destroy_hash_table
  BY <1>3, DestroyKeeps
<1>4. CASE UNCHANGED vars
  <2>1. UNCHANGED <<p, el, live, data, pc, ins, in, out, held, filling>>
    BY <1>4 DEF vars
  <2>2. MpTypes' /\ SizeCounted' /\ InsertBegun'
    BY <2>1 DEF MpInv, MpTypes, SizeCounted, InsertBegun
  <2>3. CASE pc = "destroyed"
    BY <2>1, <2>2, <2>3 DEF MpInv, NothingLeft
  <2>4. CASE pc # "destroyed"
    <3>1. RefInv /\ Queues /\ \A f \in Elems : FiniteRefs(f, held, filling, out, in)
      BY <2>4, RefInvFacts
    <3>2. UNCHANGED <<p, el, live, data, pc, ins>> /\ Queues'
      BY <3>1, <2>1 DEF Queues
    <3>3. \A f \in Elems : /\ FiniteRefs(f, held', filling', out', in')
                           /\ Sum(f, p', held', filling', out', in') = Sum(f, p, held, filling, out, in)
      BY <3>1, <2>1
    <3>4. ValuesRight' /\ AnswersRight' /\ ReleasesRight' /\ OneFiller'
      BY <3>1, <2>1 DEF RefInv, RefsRight, ValuesRight, AnswersRight, ReleasesRight, OneFiller, Written
    <3> QED
      BY <3>2, <3>3, <3>4, <2>4, ClientKeeps
  <2> QED
    BY <2>3, <2>4
<1> QED
  BY <1>1, <1>2, <1>3, <1>4 DEF Next, Stopped

\* The invariant of the elements' life holds in every reachable state.
THEOREM MpInvariant == Spec => []MpInv
BY InitMpInv, NextMpInv, PTL DEF Spec

\* The partition's size and all reference counts stay natural numbers:
\* hash_remove and mp_release_value_ never take them below 0.
THEOREM CountsStayNatural == Spec => []TypeOK
<1>1. MpInv => TypeOK
  <2> SUFFICES ASSUME MpInv PROVE TypeOK
    OBVIOUS
  <2>1. p.size \in Nat
    <3>1. TableSize(p, el) \in Nat /\ ins.size \in Nat
      BY TableSizeType DEF MpInv, SizeCounted, MpTypes, Lines
    <3> QED
      BY <3>1 DEF MpInv, SizeCounted
  <2>2. \A e \in Elems : el[e].ref \in Nat
    BY RefInvFacts DEF MpInv, NothingLeft
  <2>3. \A e \in Elems : el[e].mask \in BOOLEAN
    BY DEF MpInv, MpTypes, Words
  <2> QED
    BY <2>1, <2>2, <2>3 DEF TypeOK, MpInv, MpTypes
<1> QED
  BY <1>1, MpInvariant, PTL

\* A reference count is the number of references, the table's and those that
\* clients have or that are on their way, and an element is allocated exactly
\* while there is one: mp_release_value_ frees nothing early, twice or never.
THEOREM ReferencesAreCounted == Spec => []RefCountExact
<1>1. MpInv => RefCountExact
  BY DEF MpInv, RefCountExact
<1> QED
  BY <1>1, MpInvariant, PTL

\* An element that a client holds or fills keeps its memory and its key,
\* whatever hash_insert evicts or replaces meanwhile.
THEOREM HeldStaysAlive == Spec => []HeldAlive
<1>1. MpInv => HeldAlive
  <2> SUFFICES ASSUME MpInv, NEW c \in Clients, NEW h \in Handles, held[c][h] > 0 \/ h \in filling[c]
               PROVE  h.e \in live /\ el[h.e].key = h.key
    BY DEF HeldAlive
  <2>1. pc # "destroyed"
    BY DEF MpInv, NothingLeft
  <2>2. h.e \in Elems
    BY DEF Handles
  <2>3. Sum(h.e, p, held, filling, out, in) > 0
    BY <2>1, <2>2, RefInvFacts, SumFacts DEF Queues
  <2>4. h.e \in live
    BY <2>1, <2>2, <2>3, RefInvFacts
  <2>5. el[h.e].key = h.key
    BY <2>1, RefInvFacts DEF RefInv, RefsRight, ValuesRight
  <2> QED
    BY <2>4, <2>5
<1> QED
  BY <1>1, MpInvariant, PTL

\* A lookup returns only values that are completely written, and they stay
\* so while the client holds them.
THEOREM HeldStaysWritten == Spec => []HeldWritten
<1>1. MpInv => HeldWritten
  <2> SUFFICES ASSUME MpInv, NEW c \in Clients, NEW h \in Handles, held[c][h] > 0
               PROVE  data[h.e] = h.key
    BY DEF HeldWritten
  <2>1. pc # "destroyed"
    BY DEF MpInv, NothingLeft
  <2> QED
    BY <2>1, RefInvFacts DEF RefInv, RefsRight, ValuesRight, Written
<1> QED
  BY <1>1, MpInvariant, PTL

\* destroy_hash_table frees every element when clients have released theirs.
THEOREM NothingLeaks == Spec => []DestroyFreesAll
<1>1. MpInv => DestroyFreesAll
  BY DEF MpInv, NothingLeft, DestroyFreesAll
<1> QED
  BY <1>1, MpInvariant, PTL
=============================================================================
