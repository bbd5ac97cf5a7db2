-------------------------- MODULE HashServerProofs --------------------------
(***************************************************************************)
(* Theorems about HashServer: the counters of the connections, the pins of *)
(* values that are being written, the answers, and that the server does    *)
(* not drop a client that goes by the protocol.                            *)
(***************************************************************************)
EXTENDS HashServer, FiniteSetTheorems, WellFoundedInduction, TLAPS

-----------------------------------------------------------------------------
(* The inductive invariants. *)

Value == Keys \cup {NULL}
Request == [op : {"lookup", "insert", "insert0", "bad"}, key : Keys]
Object == {[op |-> "part"], [op |-> "value"]} \cup [op : {"lookup", "insert", "insert0", "bad"}, key : Keys, no : Nat]
Query == [op : {"lookup", "insert"}, key : Keys, no : Nat, sid : Slots, socket : Fds, from : Conns]
Unit == [v : Value, n : Nat, no : Nat]
Closing == {"close", "uncount", "clear"}
Label == {"gather", "rest", "value", "fclose", "inactive", "closed", "do", "handle", "write", "spin"} \cup Closing
Thread == [pc : Label, i : Slots, last : Slots, batch : Seq(Query), key : Value, values : Seq(Value),
           k : Nat, iov : [Slots -> Seq(Unit)], pins : [Keys -> Int]]

\* The kernel, the TCP clients, the acceptor and the slots have their types.
Types ==
  /\ fdt \in [Fds -> Conns \cup {NULL}] /\ backlog \in SUBSET Conns
  /\ rx \in [Conns -> Seq(Object)] /\ tx \in [Conns -> Seq(Unit)]
  /\ peer \in [Conns -> Up \cup {"new", "closed"}]
  /\ asked \in [Conns -> Seq(Request)] /\ got \in [Conns -> Nat]
  /\ apc \in {"accept", "choose", "wait", "open", "set", "count"}
  /\ s1 \in {0} \cup Fds /\ cid \in Threads /\ sid \in IF apc = "choose" THEN 1..nclients ELSE Slots
  /\ sockets \in [Threads -> [Slots -> {-1} \cup Fds]]
  /\ fin \in [Threads -> [Slots -> {0} \cup Fds]]
  /\ nsockets \in [Threads -> Int] /\ active_clients \in Int
  /\ ready \in SUBSET Keys /\ mixed \in BOOLEAN

\* Where a client thread is, by what it has: a batch with room while a query is
\* read, a value per query once they are performed, vectors for the values
\* handled, and a value partly written only at the head of the current slot.
Local(r) ==
  /\ Len(r.batch) <= batch_size /\ Len(r.values) <= Len(r.batch)
  /\ r.pc \in {"rest", "value"} => Len(r.batch) < batch_size
  /\ r.pc = "value" => r.key \in Keys
  /\ r.pc = "do" => Len(r.values) < Len(r.batch)
  /\ r.pc = "handle" => Len(r.values) = Len(r.batch) /\ r.k < Len(r.batch)
  /\ r.pc \notin {"do", "handle"} => r.values = <<>>
  /\ r.pc \notin {"handle", "write"} => r.k = 0 /\ \A s \in Slots : r.iov[s] = <<>>
  /\ r.pc = "write" => r.batch = <<>> /\ r.k \in Slots /\ \A s \in Slots : s < r.k => r.iov[s] = <<>>
  /\ \A j \in 1..Len(r.values) : r.values[j] \in {NULL, r.batch[j].key}
  /\ \A s \in Slots : \A j \in 1..Len(r.iov[s]) :
       \/ r.iov[s][j].n = 0
       \/ r.iov[s][j].n = 1 /\ r.iov[s][j].v # NULL /\ r.pc = "write" /\ s = r.k /\ j = 1

ThreadsOK == th \in [Threads -> Thread] /\ \A t \in Threads : Local(th[t])

\* A slot in use whose connection its thread is not closing.
Held(t, k) == sockets[t][k] # -1 /\ ~(th[t].i = k /\ th[t].pc \in Closing)

\* A stream has the descriptor of its slot until fclose, and the acceptor writes
\* only to a slot that is not in use.
SlotsOK ==
  /\ \A t \in Threads : th[t].pc \in {"rest", "value", "fclose"} \cup Closing => sockets[t][th[t].i] # -1
  /\ \A t \in Threads, k \in Slots : Held(t, k) => fin[t][k] = sockets[t][k]
  /\ apc # "accept" => s1 \in Fds
  /\ apc = "set" => sockets[cid][sid] = -1 /\ fin[cid][sid] = s1

\* A connection has one descriptor, from accept on.
KernelOK ==
  /\ \A f, g \in Fds : fdt[f] = fdt[g] /\ fdt[f] # NULL => f = g
  /\ \A c \in backlog : \A f \in Fds : fdt[f] # c
  /\ \A c \in Conns : peer[c] = "new" =>
       c \notin backlog /\ (\A f \in Fds : fdt[f] # c) /\ asked[c] = <<>> /\ rx[c] = <<>> /\ tx[c] = <<>>
  /\ \A c \in Conns : peer[c] = "closed" \/ c \in backlog => tx[c] = <<>>

ServerInv == Types /\ ThreadsOK /\ SlotsOK /\ KernelOK

-----------------------------------------------------------------------------
(* Facts about the constants, streams and descriptors. *)

\* What the assumption on the constants says of threads, slots and descriptors.
LEMMA ConstantFacts ==
  /\ nclients \in Nat /\ nclients > 0 /\ MAX_SOCKETS \in Nat /\ MAX_SOCKETS > 0
  /\ batch_size \in Nat /\ batch_size > 0 /\ Cardinality(Conns) \in Nat
  /\ Threads \subseteq Nat /\ Slots \subseteq Nat /\ 0 \in Threads /\ 0 \in Slots
  /\ -1 \notin Fds /\ 0 \notin Fds /\ Fds \subseteq Nat
  /\ NULL \notin Keys /\ NULL \notin Conns
<1>1. Cardinality(Conns) \in Nat
  BY ServerAssumption, FS_CardinalityType
<1> QED
  BY <1>1, ServerAssumption DEF Threads, Slots, Fds

\* Slot after slot, in a circle.
LEMMA NextSlot ==
  ASSUME NEW k \in Slots
  PROVE  (k + 1) % MAX_SOCKETS \in Slots
BY ConstantFacts DEF Slots

\* A connection that has not been accepted leaves a descriptor free.
LEMMA FreeDescriptor ==
  ASSUME Types, KernelOK, NEW c \in backlog
  PROVE  Min({f \in Fds : fdt[f] = NULL}) \in {f \in Fds : fdt[f] = NULL}
<1> DEFINE F == {f \in Fds : fdt[f] = NULL}
<1>1. F # {}
  <2> SUFFICES ASSUME F = {} PROVE FALSE
    OBVIOUS
  <2>1. fdt \in [Fds -> Conns \ {c}]
    BY DEF Types, KernelOK
  <2>2. \A f, g \in Fds : fdt[f] = fdt[g] => f = g
    BY <2>1, ConstantFacts DEF KernelOK
  <2>3. IsFiniteSet(Conns \ {c}) /\ Cardinality(Conns \ {c}) = Cardinality(Conns) - 1
    BY ServerAssumption, FS_RemoveElement DEF Types
  <2>4. IsFiniteSet(Fds) /\ Cardinality(Fds) = Cardinality(Conns)
    BY ConstantFacts, FS_Interval DEF Fds
  <2>5. fdt \in Injection(Fds, Conns \ {c})
    BY <2>1, <2>2 DEF Injection, IsInjective
  <2>6. Cardinality(Fds) <= Cardinality(Conns \ {c})
    BY <2>3, <2>5, FS_Injection DEF ExistsInjection
  <2> QED
    BY <2>3, <2>4, <2>6, ConstantFacts
<1>2. PICK f \in F : \A g \in F : ~(g < f)
  <2>1. IsWellFoundedOn(OpToRel(<, Nat), Nat)
    BY NatLessThanWellFounded
  <2>2. F \subseteq Nat
    BY ConstantFacts
  <2> HIDE DEF F
  <2>3. PICK f \in F : \A g \in F : ~ (<<g, f>> \in OpToRel(<, Nat))
    BY <1>1, <2>1, <2>2, WFMin
  <2> QED
    BY <2>2, <2>3 DEF OpToRel
<1>3. \A g \in F : f <= g
  BY <1>2, ConstantFacts
<1> QED
  BY <1>3 DEF Min

\* The kinds of objects on a stream.
LEMMA ObjectKinds ==
  ASSUME NEW q \in Object
  PROVE  /\ q.op \in {"part", "value", "lookup", "insert", "insert0", "bad"}
         /\ q.op \in {"lookup", "insert", "insert0", "bad"} => q.key \in Keys /\ q.no \in Nat
<1>1. CASE q \in {[op |-> "part"], [op |-> "value"]}
  BY <1>1
<1>2. CASE q \in [op : {"lookup", "insert", "insert0", "bad"}, key : Keys, no : Nat]
  BY <1>2
<1> QED
  BY <1>1, <1>2 DEF Object

\* What read_object finds on the stream of the current slot.
LEMMA StreamFacts ==
  ASSUME Types, ThreadsOK, NEW t \in Threads, NEW c, c = ConnOf(fin[t][th[t].i])
  PROVE  /\ c \in Conns \cup {NULL}
         /\ Stream(t) = "object" <=> c # NULL /\ rx[c] # <<>>
         /\ Stream(t) = "error" <=> c = NULL \/ (rx[c] = <<>> /\ peer[c] = "closed")
         /\ Stream(t) \in {"object", "error", "retry"}
<1>1. th[t].i \in Slots /\ fin[t][th[t].i] \in {0} \cup Fds
  BY DEF Types, ThreadsOK, Thread
<1>2. c \in Conns \cup {NULL}
  BY <1>1 DEF ConnOf, Types
<1> QED
  BY <1>2 DEF Stream

-----------------------------------------------------------------------------
(* ServerInv is inductive: the TCP clients. *)

\* A step that changes neither slots nor where a thread is keeps SlotsOK.
LEMMA SameSlots ==
  ASSUME ThreadsOK, SlotsOK, UNCHANGED <<acceptor, cdata, th>>
  PROVE  ThreadsOK' /\ SlotsOK'
BY DEF ThreadsOK, SlotsOK, Held, acceptor, cdata, Local

\* Whatever a TCP client does, the server's invariant stays.
LEMMA ClientKeepsServerInv ==
  ASSUME ServerInv, NEW c \in Conns, client_hashserver2(c)
  PROVE  ServerInv'
<1> USE DEF ServerInv
<1>1. UNCHANGED <<acceptor, cdata, th>>
  BY DEF client_hashserver2, Continue, openconn, SendPart, sendquery_, SendValue, Sent, readvalue,
         BatchDone, ReadFails, closeconn
<1>2. ThreadsOK' /\ SlotsOK'
  BY <1>1, SameSlots
<1> HIDE DEF ServerInv
<1>3. Types /\ KernelOK
  BY DEF ServerInv
<1>4. ASSUME Types', KernelOK' PROVE ServerInv'
  BY <1>2, <1>4 DEF ServerInv
<1>5. CASE openconn(c)
  <2>1. Types'
    BY <1>3, <1>5 DEF openconn, Types, Up, acceptor, cdata
  <2>2. KernelOK'
    BY <1>3, <1>5 DEF openconn, KernelOK, Types
  <2> QED
    BY <1>4, <2>1, <2>2
<1>6. ASSUME SendPart(c) \/ SendValue(c) PROVE ServerInv'
  <2>1. PICK x \in Object : rx' = [rx EXCEPT ![c] = Append(@, x)]
    BY <1>6 DEF SendPart, SendValue, Object
  <2>2. PICK l \in Up : peer' = [peer EXCEPT ![c] = l]
    BY <1>6 DEF SendPart, SendValue, Up
  <2>3. peer[c] \in Up /\ UNCHANGED <<fdt, tx, backlog, asked, got, acceptor, cdata, ready, mixed>>
    BY <1>6 DEF SendPart, SendValue, Up
  <2>4. Types'
    BY <1>3, <2>1, <2>2, <2>3 DEF Types, acceptor, cdata
  <2>5. KernelOK'
    BY <1>3, <2>1, <2>2, <2>3 DEF KernelOK, Types, Up
  <2> QED
    BY <1>4, <2>4, <2>5
<1>7. ASSUME NEW q \in Requests[c], sendquery_(c, q) PROVE ServerInv'
  <2>1. q \in Request
    BY ServerAssumption DEF Request
  <2>2. PICK x \in Object : rx' = [rx EXCEPT ![c] = Append(@, x)]
    <3>1. Len(asked[c]) + 1 \in Nat
      BY <1>3 DEF Types
    <3> QED
      BY <1>7, <2>1, <3>1 DEF sendquery_, Object, Request
  <2>3. PICK l \in Up : peer' = [peer EXCEPT ![c] = l]
    BY <1>7 DEF sendquery_, Up
  <2>4. /\ peer[c] \in Up /\ UNCHANGED <<fdt, tx, backlog, got, acceptor, cdata, ready, mixed>>
        /\ asked' = [asked EXCEPT ![c] = Append(@, q)]
    BY <1>7 DEF sendquery_, Up
  <2>5. Types'
    BY <1>3, <2>1, <2>2, <2>3, <2>4 DEF Types, acceptor, cdata
  <2>6. KernelOK'
    BY <1>3, <2>2, <2>3, <2>4 DEF KernelOK, Types, Up
  <2> QED
    BY <1>4, <2>5, <2>6
<1>8. ASSUME Sent(c) \/ BatchDone(c) PROVE ServerInv'
  <2>1. PICK l \in Up : peer' = [peer EXCEPT ![c] = l]
    BY <1>8 DEF Sent, BatchDone, Up
  <2>2. peer[c] \in Up /\ UNCHANGED <<kernel, asked, got, acceptor, cdata, ready, mixed>>
    BY <1>8 DEF Sent, BatchDone, Up
  <2>3. Types'
    BY <1>3, <2>1, <2>2 DEF Types, kernel, acceptor, cdata
  <2>4. KernelOK'
    BY <1>3, <2>1, <2>2 DEF KernelOK, Types, Up, kernel
  <2> QED
    BY <1>4, <2>3, <2>4
<1>9. CASE readvalue(c)
  <2>1. Types'
    BY <1>3, <1>9 DEF readvalue, Types, kernel, acceptor, cdata
  <2>2. KernelOK'
    BY <1>3, <1>9 DEF readvalue, KernelOK, kernel
  <2> QED
    BY <1>4, <2>1, <2>2
<1>10. ASSUME ReadFails(c) \/ closeconn(c) PROVE ServerInv'
  <2>1. /\ peer[c] \in Up /\ UNCHANGED <<fdt, backlog, asked, acceptor, cdata, ready, mixed>>
        /\ peer' = [peer EXCEPT ![c] = "closed"]
        /\ tx' = [tx EXCEPT ![c] = <<>>] /\ got' = [got EXCEPT ![c] = 0]
    BY <1>10 DEF ReadFails, closeconn, PeerGone, Up
  <2>2. PICK s \in Seq(Object) : rx' = [rx EXCEPT ![c] = s]
    <3>1. CASE ReadFails(c)
      <4>1. rx' = [rx EXCEPT ![c] = rx[c]] /\ rx[c] \in Seq(Object)
        BY <1>3, <3>1 DEF ReadFails, Types
      <4> QED
        BY <4>1
    <3>2. CASE closeconn(c)
      <4>1. PICK left \in {rx[c], <<>>} : rx' = [rx EXCEPT ![c] = left]
        BY <3>2 DEF closeconn
      <4>2. rx[c] \in Seq(Object) /\ <<>> \in Seq(Object)
        BY <1>3 DEF Types
      <4> QED
        BY <4>1, <4>2
    <3> QED
      BY <1>10, <3>1, <3>2
  <2>3. Types'
    BY <1>3, <2>1, <2>2 DEF Types, acceptor, cdata
  <2>4. KernelOK'
    BY <1>3, <2>1, <2>2 DEF KernelOK, Types, Up
  <2> QED
    BY <1>4, <2>3, <2>4
<1> QED
  BY <1>5, <1>6, <1>7, <1>8, <1>9, <1>10 DEF client_hashserver2, Continue

-----------------------------------------------------------------------------
(* ServerInv is inductive: the acceptor. *)

\* accept gives a waiting connection a descriptor that was free.
LEMMA AcceptEffect ==
  ASSUME ServerInv, Accept
  PROVE  \E c \in backlog, f \in Fds :
           /\ fdt[f] = NULL /\ fdt' = [fdt EXCEPT ![f] = c] /\ backlog' = backlog \ {c}
           /\ s1' = f /\ apc = "accept" /\ apc' = "choose" /\ cid' = 0 /\ sid' = 1
           /\ UNCHANGED <<rx, tx, peers, cdata, th, ready, mixed>>
<1>1. PICK c \in backlog : /\ backlog' = backlog \ {c}
                           /\ s1' = Min({f \in Fds : fdt[f] = NULL})
                           /\ fdt' = [fdt EXCEPT ![s1'] = c]
  BY DEF Accept
<1>2. s1' \in Fds /\ fdt[s1'] = NULL
  BY <1>1, FreeDescriptor DEF ServerInv
<1> QED
  BY <1>1, <1>2 DEF Accept

\* accept keeps one descriptor per connection.
LEMMA AcceptKeepsServerInv ==
  ASSUME ServerInv, Accept
  PROVE  ServerInv'
<1>1. PICK c \in backlog, f \in Fds :
           /\ fdt[f] = NULL /\ fdt' = [fdt EXCEPT ![f] = c] /\ backlog' = backlog \ {c}
           /\ s1' = f /\ apc = "accept" /\ apc' = "choose" /\ cid' = 0 /\ sid' = 1
           /\ UNCHANGED <<rx, tx, peers, cdata, th, ready, mixed>>
  BY AcceptEffect
<1>2. c \in Conns /\ c # NULL
  BY ConstantFacts DEF ServerInv, Types
<1>3. Types'
  BY <1>1, <1>2, ConstantFacts, SMTT(30) DEF ServerInv, Types, peers, cdata
<1>4. ThreadsOK' /\ SlotsOK'
  BY <1>1 DEF ServerInv, ThreadsOK, SlotsOK, Held, cdata, Local
<1>5. KernelOK'
  BY <1>1, <1>2 DEF ServerInv, KernelOK, Types, peers
<1> QED
  BY <1>3, <1>4, <1>5 DEF ServerInv

\* KernelOK is about the kernel and the clients alone.
LEMMA SameKernel ==
  ASSUME KernelOK, UNCHANGED <<kernel, peers>>
  PROVE  KernelOK'
BY DEF KernelOK, kernel, peers

\* Every step of tcpserver keeps the invariant.
LEMMA AcceptorKeepsServerInv ==
  ASSUME ServerInv, tcpserver
  PROVE  ServerInv'
<1>1. CASE Accept
  BY <1>1, AcceptKeepsServerInv
<1>2. ASSUME Types', SlotsOK', UNCHANGED <<kernel, peers, th>> PROVE ServerInv'
  BY <1>2, SameKernel DEF ServerInv, ThreadsOK, Local
<1>3. CASE Choose
  <2>1. Types'
    BY <1>3, ConstantFacts, SMTT(30) DEF ServerInv, Types, Choose, kernel, peers, cdata, Threads, Slots
  <2>2. SlotsOK'
    BY <1>3 DEF ServerInv, SlotsOK, Held, Choose, cdata
  <2> QED
    BY <1>2, <1>3, <2>1, <2>2 DEF Choose
<1>4. CASE WaitForRoom
  <2>1. Types'
    BY <1>4 DEF ServerInv, Types, WaitForRoom, kernel, peers, cdata
  <2>2. SlotsOK'
    BY <1>4 DEF ServerInv, SlotsOK, Held, WaitForRoom, cdata
  <2> QED
    BY <1>2, <1>4, <2>1, <2>2 DEF WaitForRoom
<1>5. CASE open_socket
  <2>1. sid \in Slots /\ s1 \in Fds /\ cid \in Threads
    BY <1>5 DEF open_socket, ServerInv, Types, SlotsOK
  <2>2. Types'
    <3>1. CASE apc' = "open"
      BY <1>5, <2>1, <3>1, NextSlot DEF ServerInv, Types, open_socket, kernel, peers
    <3>2. CASE apc' # "open"
      <4>1. /\ UNCHANGED <<kernel, peers, sockets, active_clients, ready, mixed>>
            /\ apc' \in {"set", "accept"} /\ s1' \in {0, s1} /\ cid' \in {0, cid} /\ sid' \in {0, sid}
            /\ nsockets' = nsockets \/ nsockets' = [nsockets EXCEPT ![cid] = @ + 1]
        BY <1>5, <3>2 DEF open_socket
      <4>2. PICK f \in {0} \cup Fds : fin' = [fin EXCEPT ![cid][sid] = f]
        BY <1>5, <2>1, <3>2 DEF open_socket
      <4>3. fin' \in [Threads -> [Slots -> {0} \cup Fds]] /\ nsockets' \in [Threads -> Int]
        BY <2>1, <4>1, <4>2 DEF ServerInv, Types
      <4> QED
        BY <2>1, <4>1, <4>3, ConstantFacts DEF ServerInv, Types, kernel, peers
    <3> QED
      BY <3>1, <3>2
  <2>3. SlotsOK'
    BY <1>5, <2>1 DEF ServerInv, Types, SlotsOK, Held, open_socket
  <2> QED
    BY <1>2, <1>5, <2>2, <2>3 DEF open_socket
<1>6. CASE SetSocket
  <2>1. sid \in Slots /\ s1 \in Fds /\ cid \in Threads /\ sockets[cid][sid] = -1 /\ fin[cid][sid] = s1
    BY <1>6 DEF SetSocket, ServerInv, Types, SlotsOK
  <2>2. Types'
    BY <1>6, <2>1 DEF ServerInv, Types, SetSocket, kernel, peers
  <2>3. SlotsOK'
    BY <1>6, <2>1, ConstantFacts DEF ServerInv, Types, SlotsOK, Held, SetSocket
  <2> QED
    BY <1>2, <1>6, <2>2, <2>3 DEF SetSocket
<1>7. CASE CountActive
  <2>1. Types'
    BY <1>7, ConstantFacts DEF ServerInv, Types, CountActive, kernel, peers
  <2>2. SlotsOK'
    BY <1>7 DEF ServerInv, SlotsOK, Held, CountActive
  <2> QED
    BY <1>2, <1>7, <2>1, <2>2 DEF CountActive
<1> QED
  BY <1>1, <1>3, <1>4, <1>5, <1>6, <1>7 DEF tcpserver

-----------------------------------------------------------------------------
(* ServerInv is inductive: the client threads. *)

\* A thread that stays well-formed keeps all of them so.
LEMMA StepOfThread ==
  ASSUME ThreadsOK, NEW t \in Threads, NEW r \in Thread, Local(r), th' = [th EXCEPT ![t] = r]
  PROVE  ThreadsOK'
<1>1. th' \in [Threads -> Thread] /\ th'[t] = r /\ \A u \in Threads \ {t} : th'[u] = th[u]
  BY DEF ThreadsOK
<1>2. ASSUME NEW u \in Threads PROVE Local(th'[u])
  BY <1>1 DEF ThreadsOK
<1>3. (\A u \in Threads : Local(th[u]))' <=> \A u \in Threads : Local(th'[u])
  BY DEF Local
<1> QED
  BY <1>1, <1>2, <1>3 DEF ThreadsOK

\* A step that neither begins nor ends the closing of a slot.
LEMMA StepKeepsSlots ==
  ASSUME ThreadsOK, SlotsOK, NEW t \in Threads, NEW r \in Thread, th' = [th EXCEPT ![t] = r],
         UNCHANGED <<acceptor, cdata>>,
         r.pc \in {"rest", "value", "fclose"} \cup Closing => sockets[t][r.i] # -1,
         th[t].pc \in Closing => r.pc \in Closing /\ r.i = th[t].i
  PROVE  SlotsOK'
<1>1. th'[t] = r /\ \A u \in Threads \ {t} : th'[u] = th[u]
  BY DEF ThreadsOK
<1> QED
  BY <1>1 DEF SlotsOK, Held, acceptor, cdata

\* The stream of a slot that is held has the slot's descriptor.
LEMMA HeldFacts ==
  ASSUME ServerInv, NEW t \in Threads, NEW k \in Slots, Held(t, k)
  PROVE  /\ fin[t][k] = sockets[t][k] /\ sockets[t][k] \in Fds
         /\ ConnOf(fin[t][k]) = fdt[sockets[t][k]] /\ fdt[sockets[t][k]] \in Conns \cup {NULL}
<1>1. fin[t][k] = sockets[t][k] /\ sockets[t][k] \in Fds
  BY DEF ServerInv, SlotsOK, Types, Held
<1> QED
  BY <1>1 DEF ConnOf, ServerInv, Types

\* A whole object is taken off the stream of the current slot.
LEMMA ObjectFacts ==
  ASSUME ServerInv, NEW t \in Threads, Held(t, th[t].i), Stream(t) = "object"
  PROVE  \E c \in Conns :
           /\ c = fdt[sockets[t][th[t].i]] /\ ConnOf(fin[t][th[t].i]) = c
           /\ rx[c] # <<>> /\ NextObject(t) = rx[c][1] /\ rx[c][1] \in Object
           /\ ReadObject(t) => rx' = [rx EXCEPT ![c] = Tail(@)] /\ rx' \in [Conns -> Seq(Object)]
<1>1. th[t].i \in Slots
  BY DEF ServerInv, ThreadsOK, Thread
<1>2. PICK c : c = ConnOf(fin[t][th[t].i])
  OBVIOUS
<1>3. c \in Conns /\ rx[c] # <<>>
  BY <1>2, StreamFacts DEF ServerInv
<1>4. c = fdt[sockets[t][th[t].i]]
  BY <1>1, <1>2, HeldFacts
<1>5. rx \in [Conns -> Seq(Object)]
  BY DEF ServerInv, Types
<1>6. rx[c] \in Seq(Object) /\ rx[c][1] \in Object /\ Head(rx[c]) = rx[c][1] /\ Tail(rx[c]) \in Seq(Object)
  BY <1>3, <1>5
<1> QED
  BY <1>2, <1>3, <1>4, <1>5, <1>6 DEF NextObject, ReadObject

\* A query that joins the batch.
Joined(t, op, k, no, c) ==
  [op |-> op, key |-> k, no |-> no, sid |-> th[t].i, socket |-> sockets[t][th[t].i], from |-> c]

\* What reading a query does.
ReadsQuery(t, c, r) ==
  \/ rx[c][1].op = "part" /\ r = [th[t] EXCEPT !.pc = "rest"]
  \/ /\ rx[c][1].op = "lookup"
     /\ r = [th[t] EXCEPT !.pc = "gather", !.last = th[t].i,
                          !.batch = Append(@, Joined(t, "lookup", rx[c][1].key, rx[c][1].no, c))]
  \/ rx[c][1].op = "insert" /\ r = [th[t] EXCEPT !.pc = "value", !.last = th[t].i, !.key = rx[c][1].key]
  \/ rx[c][1].op = "insert0" /\ r = [th[t] EXCEPT !.pc = "spin", !.last = th[t].i]
  \/ rx[c][1].op \in {"bad", "value"} /\ r = [th[t] EXCEPT !.pc = "fclose", !.last = th[t].i]

\* Local facts of a thread that gathers.
LEMMA Gathering ==
  ASSUME NEW r \in Thread, Local(r), r.pc \notin {"do", "handle", "write"}
  PROVE  /\ r.values = <<>> /\ r.k = 0 /\ (\A s \in Slots : r.iov[s] = <<>>)
         /\ Len(r.batch) \in Nat /\ Len(r.batch) <= batch_size
         /\ \A l \in Label \ {"do", "handle", "write", "rest", "value"} : \A i, last \in Slots : \A k \in Value :
              LET q == [r EXCEPT !.pc = l, !.i = i, !.last = last, !.key = k] IN q \in Thread /\ Local(q)
         /\ Len(r.batch) < batch_size =>
              \A l \in {"rest", "value"} : \A i, last \in Slots : \A k \in Keys :
                LET q == [r EXCEPT !.pc = l, !.i = i, !.last = last, !.key = k] IN q \in Thread /\ Local(q)
         /\ Len(r.batch) > 0 => LET q == [r EXCEPT !.pc = "do"] IN q \in Thread /\ Local(q)
         /\ Len(r.batch) < batch_size =>
              \A j \in Query : \A last \in Slots : \A k \in Value :
                LET q == [r EXCEPT !.pc = "gather", !.last = last, !.batch = Append(@, j), !.key = k]
                IN q \in Thread /\ Local(q)
<1>1. /\ r.values = <<>> /\ r.k = 0 /\ (\A s \in Slots : r.iov[s] = <<>>)
      /\ Len(r.batch) \in Nat /\ Len(r.batch) <= batch_size /\ r.batch \in Seq(Query)
  BY DEF Local, Thread, Label
<1>2. ASSUME NEW l \in Label \ {"do", "handle", "write", "rest", "value"}, NEW i \in Slots, NEW last \in Slots, NEW k \in Value
      PROVE  LET q == [r EXCEPT !.pc = l, !.i = i, !.last = last, !.key = k] IN q \in Thread /\ Local(q)
  BY <1>1 DEF Thread, Local, Label
<1>3. ASSUME Len(r.batch) < batch_size, NEW l \in {"rest", "value"}, NEW i \in Slots, NEW last \in Slots, NEW k \in Keys
      PROVE  LET q == [r EXCEPT !.pc = l, !.i = i, !.last = last, !.key = k] IN q \in Thread /\ Local(q)
  BY <1>1, <1>3 DEF Thread, Local, Label, Value
<1>4. ASSUME Len(r.batch) > 0
      PROVE  LET q == [r EXCEPT !.pc = "do"] IN q \in Thread /\ Local(q)
  BY <1>1, <1>4 DEF Thread, Local, Label
<1>5. ASSUME Len(r.batch) < batch_size, NEW j \in Query, NEW last \in Slots, NEW k \in Value
      PROVE  LET q == [r EXCEPT !.pc = "gather", !.last = last, !.batch = Append(@, j), !.key = k]
             IN q \in Thread /\ Local(q)
  <2>1. PICK b : b = Append(r.batch, j)
    OBVIOUS
  <2>2. b \in Seq(Query) /\ Len(b) = Len(r.batch) + 1
    BY <1>1, <2>1
  <2> QED
    <3>1. PICK q : q = [r EXCEPT !.pc = "gather", !.last = last, !.batch = b, !.key = k]
      OBVIOUS
    <3>2. q \in Thread
      BY <2>2, <3>1 DEF Thread, Label
    <3>3. /\ q.pc = "gather" /\ q.batch = b /\ q.values = <<>> /\ q.k = 0
          /\ \A s \in Slots : q.iov[s] = <<>>
      BY <1>1, <3>1 DEF Thread
    <3>4. Local(q)
      BY <1>1, <1>5, <2>2, <3>3, ConstantFacts DEF Local
    <3> QED
      BY <2>1, <3>1, <3>2, <3>4
<1> QED
  BY <1>1, <1>2, <1>3, <1>4, <1>5

\* A batch that is full has a query in it.
LEMMA FullIsNotEmpty ==
  ASSUME ThreadsOK, NEW t \in Threads, BatchFull(t)
  PROVE  Len(th[t].batch) > 0
<1>1. th[t].batch \in Seq(Query)
  BY DEF ThreadsOK, Thread
<1>2. ASSUME th[t].batch = <<>> PROVE FALSE
  <2>1. {j \in DOMAIN th[t].batch : th[t].batch[j].op = "insert"} = {}
    BY <1>2
  <2>2. Inserts(th[t].batch) = 0 /\ Len(th[t].batch) = 0
    BY <1>2, <2>1, FS_EmptySet DEF Inserts
  <2> QED
    BY <2>2, ServerAssumption DEF BatchFull
<1> QED
  BY <1>1, <1>2

\* A thread goes on in its scan, or ends its batch.
Moves(t, r) ==
  /\ th[t].pc \in {"gather", "closed"} /\ r.pc \in {"gather", "do"} /\ r.i \in Slots
  /\ r = [th[t] EXCEPT !.pc = r.pc, !.i = r.i]

\* The stream of the current slot has come to its end.
Breaks(t, r) ==
  /\ th[t].pc \in {"gather", "rest", "value"} /\ Held(t, th[t].i) /\ Stream(t) = "error"
  /\ r = [th[t] EXCEPT !.pc = "fclose", !.key = r.key]

\* What reading the value of an insert does.
ReadsValue(t, c, r) ==
  r = [th[t] EXCEPT !.pc = "gather", !.last = th[t].i, !.key = NULL,
                    !.batch = Append(@, Joined(t, "insert", th[t].key, 0, c))]

\* An object of connection c is read.
Reads(t, c, r) ==
  /\ Held(t, th[t].i) /\ c = fdt[sockets[t][th[t].i]] /\ rx[c] # <<>> /\ rx[c][1] \in Object
  /\ rx' = [rx EXCEPT ![c] = Tail(@)] /\ rx' \in [Conns -> Seq(Object)]
  /\ \/ th[t].pc \in {"gather", "rest"} /\ ReadsQuery(t, c, r)
     \/ th[t].pc = "value" /\ ReadsValue(t, c, r)

Gathers(t, r) ==
  /\ r \in Thread /\ Local(r) /\ th' = [th EXCEPT ![t] = r]
  /\ UNCHANGED <<fdt, tx, backlog, peers, acceptor, cdata, ready, mixed>>
  /\ \/ rx' = rx /\ (Moves(t, r) \/ Breaks(t, r))
     \/ \E c \in Conns : Reads(t, c, r)

\* Advance goes to the next slot, or ends the batch that is being gathered.
LEMMA AdvanceEffect ==
  ASSUME ThreadsOK, NEW t \in Threads, Advance(t), th[t].pc \in {"gather", "closed"}
  PROVE  \E r \in Thread : Local(r) /\ th' = [th EXCEPT ![t] = r] /\ Moves(t, r)
<1>1. PICK n : n = (th[t].i + 1) % MAX_SOCKETS
  OBVIOUS
<1>2. PICK r : r = [th[t] EXCEPT !.i = n,
                                 !.pc = IF th[t].batch # <<>> /\ n = th[t].last THEN "do" ELSE "gather"]
  OBVIOUS
<1>3. th[t] \in Thread /\ Local(th[t])
  BY DEF ThreadsOK
<1>4. n \in Slots
  BY <1>1, <1>3, NextSlot DEF Thread
<1>5. th' = [th EXCEPT ![t] = r]
  BY <1>1, <1>2 DEF Advance
<1>6. r \in Thread /\ r.pc \in {"gather", "do"} /\ r.i = n /\ r = [th[t] EXCEPT !.pc = r.pc, !.i = r.i]
  BY <1>2, <1>3, <1>4 DEF Thread, Label
<1>7. Local(r)
  <2>1. /\ th[t].values = <<>> /\ th[t].k = 0 /\ (\A s \in Slots : th[t].iov[s] = <<>>)
        /\ Len(th[t].batch) \in Nat /\ Len(th[t].batch) <= batch_size
    BY <1>3, Gathering
  <2>2. /\ r.values = <<>> /\ r.k = 0 /\ (\A s \in Slots : r.iov[s] = <<>>) /\ r.batch = th[t].batch
        /\ (r.pc = "do" => r.batch # <<>>)
    BY <1>2, <1>3, <2>1 DEF Thread
  <2>3. r.batch \in Seq(Query)
    BY <1>6 DEF Thread
  <2> QED
    BY <1>6, <2>1, <2>2, <2>3 DEF Local
<1> QED
  BY <1>4, <1>5, <1>6, <1>7 DEF Moves

\* A query or a value is taken off the stream of the slot that is scanned.
LEMMA ReadEffect ==
  ASSUME ServerInv, NEW t \in Threads, th[t].pc \in {"gather", "rest"}, Len(th[t].batch) < batch_size,
         Held(t, th[t].i), Stream(t) = "object", ReadQuery(t)
  PROVE  \E r \in Thread : Local(r) /\ th' = [th EXCEPT ![t] = r] /\ \E c \in Conns : Reads(t, c, r)
<1>1. PICK c \in Conns :
           /\ c = fdt[sockets[t][th[t].i]] /\ ConnOf(fin[t][th[t].i]) = c
           /\ rx[c] # <<>> /\ NextObject(t) = rx[c][1] /\ rx[c][1] \in Object
           /\ ReadObject(t) => rx' = [rx EXCEPT ![c] = Tail(@)] /\ rx' \in [Conns -> Seq(Object)]
  BY ObjectFacts
<1>2. PICK q : q = rx[c][1]
  OBVIOUS
<1>3. PICK r : r = CASE q.op = "part" -> [th[t] EXCEPT !.pc = "rest"]
                     [] q.op = "lookup" -> AddQuery(t, "lookup", q.key, q.no)
                     [] q.op = "insert" -> [th[t] EXCEPT !.pc = "value", !.last = th[t].i, !.key = q.key]
                     [] q.op = "insert0" -> [th[t] EXCEPT !.pc = "spin", !.last = th[t].i]
                     [] OTHER -> [th[t] EXCEPT !.pc = "fclose", !.last = th[t].i]
  OBVIOUS
<1>4. th' = [th EXCEPT ![t] = r] /\ ReadObject(t)
  BY <1>1, <1>2, <1>3 DEF ReadQuery
<1>5. th[t] \in Thread /\ Local(th[t]) /\ th[t].i \in Slots /\ th[t].last \in Slots /\ th[t].key \in Value
  BY DEF ServerInv, ThreadsOK, Thread
<1>6. sockets[t][th[t].i] \in Fds
  BY <1>5, HeldFacts
<1>7. r \in Thread /\ Local(r) /\ ReadsQuery(t, c, r)
  <2>1. CASE q.op = "part"
    <3>1. r = [th[t] EXCEPT !.pc = "rest"]
      BY <1>3, <2>1
    <3>2. r \in Thread
      BY <1>5, <3>1 DEF Thread, Label
    <3>3. /\ th[t].values = <<>> /\ th[t].k = 0 /\ (\A s \in Slots : th[t].iov[s] = <<>>)
          /\ Len(th[t].batch) \in Nat /\ Len(th[t].batch) <= batch_size
      BY <1>5, Gathering
    <3>4. Local(r)
      BY <1>5, <3>1, <3>3 DEF Local, Thread
    <3> QED
      BY <1>2, <2>1, <3>1, <3>2, <3>4 DEF ReadsQuery
  <2>2. CASE q.op = "lookup"
    <3>1. PICK j : j = Joined(t, "lookup", q.key, q.no, c)
      OBVIOUS
    <3>2. r = [th[t] EXCEPT !.pc = "gather", !.last = th[t].i, !.batch = Append(@, j)]
      BY <1>1, <1>3, <2>2, <3>1 DEF AddQuery, Joined
    <3>3. q.key \in Keys /\ q.no \in Nat
      BY <1>1, <1>2, <2>2, ObjectKinds
    <3>4. j \in Query
      BY <1>5, <1>6, <3>1, <3>3 DEF Joined, Query
    <3>5. r = [th[t] EXCEPT !.pc = "gather", !.last = th[t].i, !.batch = Append(@, j), !.key = th[t].key]
      BY <1>5, <3>2 DEF Thread
    <3>6. r \in Thread /\ Local(r)
      BY <1>5, <3>4, <3>5, Gathering
    <3> QED
      BY <1>2, <2>2, <3>1, <3>2, <3>6 DEF ReadsQuery
  <2>3. CASE q.op = "insert"
    <3>1. r = [th[t] EXCEPT !.pc = "value", !.last = th[t].i, !.key = q.key]
      BY <1>3, <2>3
    <3>2. q.key \in Keys
      BY <1>1, <1>2, <2>3, ObjectKinds
    <3>3. r = [th[t] EXCEPT !.pc = "value", !.i = th[t].i, !.last = th[t].i, !.key = q.key]
      BY <1>5, <3>1 DEF Thread
    <3>4. r \in Thread /\ Local(r)
      BY <1>5, <3>2, <3>3, Gathering
    <3> QED
      BY <1>2, <2>3, <3>1, <3>4 DEF ReadsQuery
  <2>4. CASE q.op = "insert0"
    <3>1. r = [th[t] EXCEPT !.pc = "spin", !.last = th[t].i]
      BY <1>3, <2>4
    <3>2. r = [th[t] EXCEPT !.pc = "spin", !.i = th[t].i, !.last = th[t].i, !.key = th[t].key]
      BY <1>5, <3>1 DEF Thread
    <3>3. r \in Thread /\ Local(r)
      BY <1>5, <3>2, Gathering DEF Label
    <3> QED
      BY <1>2, <2>4, <3>1, <3>3 DEF ReadsQuery
  <2>5. CASE q.op \notin {"part", "lookup", "insert", "insert0"}
    <3>1. r = [th[t] EXCEPT !.pc = "fclose", !.last = th[t].i]
      BY <1>3, <2>5
    <3>2. q.op \in {"bad", "value"}
      BY <1>1, <1>2, <2>5, ObjectKinds
    <3>3. r = [th[t] EXCEPT !.pc = "fclose", !.i = th[t].i, !.last = th[t].i, !.key = th[t].key]
      BY <1>5, <3>1 DEF Thread
    <3>4. r \in Thread /\ Local(r)
      BY <1>5, <3>3, Gathering DEF Label
    <3> QED
      BY <1>2, <3>1, <3>2, <3>4 DEF ReadsQuery
  <2> QED
    BY <2>1, <2>2, <2>3, <2>4, <2>5
<1> QED
  BY <1>1, <1>4, <1>7 DEF Reads

\* What the steps that gather a batch do, case by case.
LEMMA GatherEffect ==
  ASSUME ServerInv, NEW t \in Threads, Gather(t) \/ ReadRest(t) \/ ReadValue(t) \/ EndGather(t)
  PROVE  \E r \in Thread : Gathers(t, r)
<1>1. th[t] \in Thread /\ Local(th[t]) /\ th[t].i \in Slots /\ th[t].key \in Value /\ th[t].last \in Slots
  BY DEF ServerInv, ThreadsOK, Thread
<1>2. UNCHANGED <<fdt, tx, backlog, peers, acceptor, cdata, ready, mixed>>
  BY DEF Gather, ReadRest, ReadValue, EndGather, kernel
<1>3. ASSUME th[t].pc \in {"gather", "rest", "value"}, Held(t, th[t].i), Stream(t) = "error", rx' = rx,
             NEW k \in Value, th' = [th EXCEPT ![t] = [th[t] EXCEPT !.pc = "fclose", !.key = k]]
      PROVE  \E r \in Thread : Gathers(t, r)
  <2>1. PICK r : r = [th[t] EXCEPT !.pc = "fclose", !.key = k]
    OBVIOUS
  <2>2. r = [th[t] EXCEPT !.pc = "fclose", !.i = th[t].i, !.last = th[t].last, !.key = k]
    BY <1>1, <2>1 DEF Thread
  <2>3. r \in Thread /\ Local(r)
    BY <1>1, <1>3, <2>2, Gathering DEF Label
  <2>4. r.key = k
    BY <1>1, <2>1 DEF Thread
  <2> QED
    BY <1>2, <1>3, <2>1, <2>3, <2>4 DEF Gathers, Breaks
<1>4. CASE Gather(t)
  <2>1. th[t].pc = "gather" /\ Len(th[t].batch) < batch_size
    BY <1>1, <1>4, ConstantFacts DEF Gather, BatchFull, Thread
  <2>2. CASE Advance(t) /\ rx' = rx
    BY <1>2, <2>1, <2>2, AdvanceEffect DEF ServerInv, Gathers
  <2>3. CASE sockets[t][th[t].i] # -1 /\ Stream(t) = "object" /\ ReadQuery(t)
    <3>1. Held(t, th[t].i)
      BY <2>1, <2>3 DEF Held, Closing
    <3> QED
      BY <1>2, <2>1, <2>3, <3>1, ReadEffect DEF Gathers
  <2>4. CASE sockets[t][th[t].i] # -1 /\ Stream(t) = "error" /\ Goto(t, "fclose") /\ rx' = rx
    <3>1. Held(t, th[t].i)
      BY <2>1, <2>4 DEF Held, Closing
    <3>2. th' = [th EXCEPT ![t] = [th[t] EXCEPT !.pc = "fclose", !.key = th[t].key]]
      BY <1>1, <2>4 DEF Goto, Thread
    <3> QED
      BY <1>1, <1>3, <2>1, <2>4, <3>1, <3>2
  <2> QED
    BY <1>4, <2>2, <2>3, <2>4 DEF Gather
<1>5. CASE ReadRest(t)
  <2>1. th[t].pc = "rest" /\ Len(th[t].batch) < batch_size
    BY <1>1, <1>5 DEF ReadRest, Local
  <2>2. Held(t, th[t].i)
    BY <2>1 DEF Held, Closing, ServerInv, SlotsOK
  <2>3. CASE Stream(t) = "object" /\ ReadQuery(t)
    BY <1>2, <2>1, <2>2, <2>3, ReadEffect DEF Gathers
  <2>4. CASE Stream(t) = "error" /\ Goto(t, "fclose") /\ rx' = rx
    <3>1. th' = [th EXCEPT ![t] = [th[t] EXCEPT !.pc = "fclose", !.key = th[t].key]]
      BY <1>1, <2>4 DEF Goto, Thread
    <3> QED
      BY <1>1, <1>3, <2>1, <2>2, <2>4, <3>1
  <2> QED
    BY <1>5, <2>3, <2>4 DEF ReadRest
<1>6. CASE ReadValue(t)
  <2>1. th[t].pc = "value" /\ Len(th[t].batch) < batch_size /\ th[t].key \in Keys
    BY <1>1, <1>6 DEF ReadValue, Local
  <2>2. Held(t, th[t].i) /\ sockets[t][th[t].i] \in Fds
    BY <1>1, <2>1, HeldFacts DEF Held, Closing, ServerInv, SlotsOK
  <2>3. CASE /\ Stream(t) = "object" /\ ReadObject(t)
             /\ th' = [th EXCEPT ![t] = [AddQuery(t, "insert", th[t].key, 0) EXCEPT !.key = NULL]]
    <3>1. PICK c \in Conns :
             /\ c = fdt[sockets[t][th[t].i]] /\ ConnOf(fin[t][th[t].i]) = c
             /\ rx[c] # <<>> /\ NextObject(t) = rx[c][1] /\ rx[c][1] \in Object
             /\ ReadObject(t) => rx' = [rx EXCEPT ![c] = Tail(@)] /\ rx' \in [Conns -> Seq(Object)]
      BY <2>2, <2>3, ObjectFacts
    <3>2. PICK j : j = Joined(t, "insert", th[t].key, 0, c)
      OBVIOUS
    <3>3. j \in Query
      BY <1>1, <2>1, <2>2, <3>2 DEF Joined, Query
    <3>4. PICK r : r = [th[t] EXCEPT !.pc = "gather", !.last = th[t].i, !.batch = Append(@, j), !.key = NULL]
      OBVIOUS
    <3>5. th' = [th EXCEPT ![t] = r]
      BY <1>1, <2>3, <3>1, <3>2, <3>4 DEF AddQuery, Joined, Thread
    <3>6. r \in Thread /\ Local(r)
      <4>1. NULL \in Value
        BY DEF Value
      <4> QED
        BY <1>1, <2>1, <3>3, <3>4, <4>1, Gathering
    <3>7. ReadsValue(t, c, r)
      BY <1>1, <3>2, <3>4 DEF ReadsValue, Thread
    <3> QED
      BY <1>2, <2>1, <2>2, <2>3, <3>1, <3>5, <3>6, <3>7 DEF Gathers, Reads
  <2>4. CASE /\ Stream(t) = "error" /\ rx' = rx
             /\ th' = [th EXCEPT ![t].pc = "fclose", ![t].key = NULL]
    <3>1. th' = [th EXCEPT ![t] = [th[t] EXCEPT !.pc = "fclose", !.key = NULL]]
      BY <2>4 DEF ServerInv, ThreadsOK
    <3> QED
      BY <1>3, <2>1, <2>2, <2>4, <3>1 DEF Value
  <2> QED
    BY <1>6, <2>3, <2>4 DEF ReadValue
<1>7. CASE EndGather(t)
  <2>1. th[t].pc = "gather" /\ BatchFull(t) /\ Goto(t, "do") /\ rx' = rx
    BY <1>7 DEF EndGather, kernel
  <2>2. Len(th[t].batch) > 0
    BY <2>1, FullIsNotEmpty DEF ServerInv
  <2>3. PICK r : r = [th[t] EXCEPT !.pc = "do"]
    OBVIOUS
  <2>4. r \in Thread /\ Local(r)
    BY <1>1, <2>1, <2>2, <2>3, Gathering
  <2>5. Moves(t, r)
    BY <1>1, <2>1, <2>3 DEF Moves, Thread
  <2>6. th' = [th EXCEPT ![t] = r]
    BY <2>1, <2>3 DEF Goto
  <2> QED
    BY <1>2, <2>1, <2>4, <2>5, <2>6 DEF Gathers
<1> QED
  BY <1>4, <1>5, <1>6, <1>7

\* The steps that gather a batch keep the invariant.
LEMMA GatherKeepsServerInv ==
  ASSUME ServerInv, NEW t \in Threads, NEW r \in Thread, Gathers(t, r)
  PROVE  ServerInv'
<1>1. /\ Local(r) /\ th' = [th EXCEPT ![t] = r]
      /\ UNCHANGED <<fdt, tx, backlog, peers, acceptor, cdata, ready, mixed>>
  BY DEF Gathers
<1>2. ThreadsOK'
  BY <1>1, StepOfThread DEF ServerInv
<1>3. th[t] \in Thread /\ th[t].pc \notin Closing
  BY DEF Gathers, Moves, Breaks, Reads, Closing, ServerInv, ThreadsOK
<1>4. r.pc \in {"rest", "value", "fclose"} \cup Closing => r.i = th[t].i /\ sockets[t][th[t].i] # -1
  BY <1>3 DEF Gathers, Moves, Breaks, Reads, ReadsQuery, ReadsValue, Closing, Thread, Held
<1>5. SlotsOK'
  BY <1>1, <1>3, <1>4, StepKeepsSlots DEF ServerInv
<1>6. /\ rx' \in [Conns -> Seq(Object)]
      /\ \A c \in Conns : rx[c] = <<>> => rx'[c] = <<>>
  BY DEF Gathers, Reads, ServerInv, Types
<1>7. Types'
  BY <1>1, <1>6 DEF ServerInv, Types, peers, acceptor, cdata
<1>8. KernelOK'
  BY <1>1, <1>6 DEF ServerInv, KernelOK, peers
<1> QED
  BY <1>2, <1>5, <1>7, <1>8 DEF ServerInv

\* A step that only moves a thread to another label.
LEMMA GotoEffect ==
  ASSUME ThreadsOK, NEW t \in Threads, th[t].pc \notin {"do", "handle", "write"},
         NEW l \in Label \ {"do", "handle", "write", "rest", "value"}, Goto(t, l)
  PROVE  \E r \in Thread : Local(r) /\ r = [th[t] EXCEPT !.pc = l] /\ th' = [th EXCEPT ![t] = r]
<1>1. th[t] \in Thread /\ Local(th[t]) /\ th[t].i \in Slots /\ th[t].key \in Value /\ th[t].last \in Slots
  BY DEF ThreadsOK, Thread
<1>2. PICK r : r = [th[t] EXCEPT !.pc = l]
  OBVIOUS
<1>3. r = [th[t] EXCEPT !.pc = l, !.i = th[t].i, !.last = th[t].last, !.key = th[t].key]
  BY <1>1, <1>2 DEF Thread
<1>4. r \in Thread /\ Local(r)
  BY <1>1, <1>3, Gathering
<1> QED
  BY <1>2, <1>4 DEF Goto

\* After close_socket the thread is where a slot without requests leaves it.
LEMMA AfterCloseEffect ==
  ASSUME ServerInv, NEW t \in Threads, AfterClose(t)
  PROVE  \E r \in Thread : Gathers(t, r)
<1>1. th[t].pc = "closed" /\ UNCHANGED <<kernel, peers, acceptor, cdata, ready, mixed>>
  BY DEF AfterClose
<1>2. CASE Advance(t)
  BY <1>1, <1>2, AdvanceEffect DEF ServerInv, Gathers, kernel
<1>3. CASE Goto(t, "gather")
  <2>1. PICK r \in Thread : Local(r) /\ r = [th[t] EXCEPT !.pc = "gather"] /\ th' = [th EXCEPT ![t] = r]
    BY <1>1, <1>3, GotoEffect DEF ServerInv, Label
  <2>2. Moves(t, r)
    BY <1>1, <2>1 DEF Moves, Thread, ServerInv, ThreadsOK
  <2> QED
    BY <1>1, <2>1, <2>2 DEF Gathers, kernel
<1> QED
  BY <1>2, <1>3 DEF AfterClose

\* fclose: the descriptor of the slot is free, and the stream is gone.
LEMMA FcloseEffect ==
  ASSUME ServerInv, NEW t \in Threads, Fclose(t)
  PROVE  \E r \in Thread, f \in Fds :
           /\ Local(r) /\ r = [th[t] EXCEPT !.pc = "close"] /\ th' = [th EXCEPT ![t] = r]
           /\ th[t].pc = "fclose" /\ Held(t, th[t].i) /\ f = sockets[t][th[t].i] /\ f = fin[t][th[t].i]
           /\ fdt' = [fdt EXCEPT ![f] = NULL]
           /\ rx' = [c \in Conns |-> IF c = fdt[f] THEN <<>> ELSE rx[c]]
           /\ fin' = [fin EXCEPT ![t][th[t].i] = 0]
           /\ UNCHANGED <<tx, backlog, peers, acceptor, sockets, nsockets, active_clients, ready, mixed>>
<1>1. th[t].pc = "fclose" /\ Goto(t, "close") /\ th[t].i \in Slots
  BY DEF Fclose, ServerInv, ThreadsOK, Thread
<1>2. PICK r \in Thread : Local(r) /\ r = [th[t] EXCEPT !.pc = "close"] /\ th' = [th EXCEPT ![t] = r]
  BY <1>1, GotoEffect DEF ServerInv, Label, Closing
<1>3. Held(t, th[t].i)
  BY <1>1 DEF Held, Closing, ServerInv, SlotsOK
<1>4. fin[t][th[t].i] = sockets[t][th[t].i] /\ sockets[t][th[t].i] \in Fds
  BY <1>1, <1>3, HeldFacts
<1> QED
  BY <1>1, <1>2, <1>3, <1>4 DEF Fclose

\* fclose frees the descriptor of the slot and nothing else.
LEMMA FcloseKeepsServerInv ==
  ASSUME ServerInv, NEW t \in Threads, Fclose(t)
  PROVE  ServerInv'
<1>1. PICK r \in Thread, f \in Fds :
           /\ Local(r) /\ r = [th[t] EXCEPT !.pc = "close"] /\ th' = [th EXCEPT ![t] = r]
           /\ th[t].pc = "fclose" /\ Held(t, th[t].i) /\ f = sockets[t][th[t].i] /\ f = fin[t][th[t].i]
           /\ fdt' = [fdt EXCEPT ![f] = NULL]
           /\ rx' = [c \in Conns |-> IF c = fdt[f] THEN <<>> ELSE rx[c]]
           /\ fin' = [fin EXCEPT ![t][th[t].i] = 0]
           /\ UNCHANGED <<tx, backlog, peers, acceptor, sockets, nsockets, active_clients, ready, mixed>>
  BY FcloseEffect
<1>2. th[t] \in Thread /\ th \in [Threads -> Thread] /\ th[t].i \in Slots
  BY DEF ServerInv, ThreadsOK, Thread
<1>3. ThreadsOK'
  BY <1>1, StepOfThread DEF ServerInv
<1>4. r.pc = "close" /\ r.i = th[t].i
  BY <1>1, <1>2 DEF Thread
<1>5. th'[t] = r /\ \A u \in Threads \ {t} : th'[u] = th[u]
  BY <1>1, <1>2
<1>6. Types'
  BY <1>1, <1>2 DEF ServerInv, Types, peers, acceptor
<1>7. KernelOK'
  BY <1>1, ConstantFacts DEF ServerInv, KernelOK, Types, peers
<1>8. SlotsOK'
  <2>1. /\ \A u \in Threads \ {t} : fin'[u] = fin[u]
        /\ \A k \in Slots \ {th[t].i} : fin'[t][k] = fin[t][k]
    BY <1>1, <1>2 DEF ServerInv, Types
  <2>2. apc = "set" => ~(cid = t /\ sid = th[t].i)
    BY <1>1 DEF ServerInv, SlotsOK, Held
  <2>3. SlotsOK /\ Held(t, th[t].i) /\ cid \in Threads /\ (apc = "set" => sid \in Slots)
    BY <1>1 DEF ServerInv, Types
  <2>4. UNCHANGED <<apc, s1, cid, sid, sockets>>
    BY <1>1 DEF acceptor
  <2>5. \A u \in Threads : th'[u].pc \in {"rest", "value", "fclose"} \cup Closing => sockets'[u][th'[u].i] # -1
    BY <1>4, <1>5, <2>3, <2>4 DEF SlotsOK, Held
  <2>6. \A u \in Threads, k \in Slots : Held(u, k)' => fin'[u][k] = sockets'[u][k]
    <3> SUFFICES ASSUME NEW u \in Threads, NEW k \in Slots, Held(u, k)' PROVE fin'[u][k] = sockets[u][k]
      BY <2>4
    <3>1. ~(u = t /\ k = th[t].i)
      BY <1>4, <1>5 DEF Held, Closing
    <3>2. Held(u, k)
      <4>1. CASE u = t
        BY <2>4, <3>1, <4>1 DEF Held
      <4>2. CASE u # t
        BY <1>5, <2>4, <4>2 DEF Held
      <4> QED
        BY <4>1, <4>2
    <3>3. fin'[u][k] = fin[u][k]
      BY <2>1, <3>1
    <3> QED
      BY <2>3, <3>2, <3>3 DEF SlotsOK
  <2>7. apc' = "set" => sockets'[cid'][sid'] = -1 /\ fin'[cid'][sid'] = s1'
    BY <2>1, <2>2, <2>3, <2>4 DEF SlotsOK
  <2> QED
    BY <2>3, <2>4, <2>5, <2>6, <2>7 DEF SlotsOK
<1> QED
  BY <1>3, <1>6, <1>7, <1>8 DEF ServerInv

\* close: whatever has the number is closed.
LEMMA CloseEffect ==
  ASSUME ServerInv, NEW t \in Threads, Close(t)
  PROVE  \E r \in Thread, f \in Fds :
           /\ Local(r) /\ r = [th[t] EXCEPT !.pc = "uncount"] /\ th' = [th EXCEPT ![t] = r]
           /\ th[t].pc = "close" /\ f = sockets[t][th[t].i]
           /\ fdt' = [fdt EXCEPT ![f] = NULL] /\ mixed' = (mixed \/ fdt[f] # NULL)
           /\ UNCHANGED <<rx, tx, backlog, peers, acceptor, cdata, ready>>
<1>1. th[t].pc = "close" /\ Goto(t, "uncount") /\ th[t].i \in Slots
  BY DEF Close, ServerInv, ThreadsOK, Thread
<1>2. PICK r \in Thread : Local(r) /\ r = [th[t] EXCEPT !.pc = "uncount"] /\ th' = [th EXCEPT ![t] = r]
  BY <1>1, GotoEffect DEF ServerInv, Label, Closing
<1>3. sockets[t][th[t].i] \in Fds
  BY <1>1 DEF Closing, ServerInv, SlotsOK, Types
<1> QED
  BY <1>1, <1>2, <1>3 DEF Close

\* The second close keeps one descriptor per connection.
LEMMA CloseKeepsServerInv ==
  ASSUME ServerInv, NEW t \in Threads, Close(t)
  PROVE  ServerInv'
<1>1. PICK r \in Thread, f \in Fds :
           /\ Local(r) /\ r = [th[t] EXCEPT !.pc = "uncount"] /\ th' = [th EXCEPT ![t] = r]
           /\ th[t].pc = "close" /\ f = sockets[t][th[t].i]
           /\ fdt' = [fdt EXCEPT ![f] = NULL] /\ mixed' = (mixed \/ fdt[f] # NULL)
           /\ UNCHANGED <<rx, tx, backlog, peers, acceptor, cdata, ready>>
  BY CloseEffect
<1>2. th[t] \in Thread /\ r.pc = "uncount" /\ r.i = th[t].i
  BY <1>1 DEF ServerInv, ThreadsOK, Thread
<1>3. ThreadsOK'
  BY <1>1, StepOfThread DEF ServerInv
<1>4. SlotsOK'
  BY <1>1, <1>2, ConstantFacts, StepKeepsSlots DEF ServerInv, Closing
<1>5. Types'
  BY <1>1 DEF ServerInv, Types, peers, acceptor, cdata
<1>6. KernelOK'
  BY <1>1, ConstantFacts DEF ServerInv, KernelOK, Types, peers
<1> QED
  BY <1>3, <1>4, <1>5, <1>6 DEF ServerInv

\* close_socket takes one off the thread's counter.
LEMMA UncountSocketEffect ==
  ASSUME ServerInv, NEW t \in Threads, UncountSocket(t)
  PROVE  \E r \in Thread :
           /\ Local(r) /\ r = [th[t] EXCEPT !.pc = "clear"] /\ th' = [th EXCEPT ![t] = r]
           /\ th[t].pc = "uncount" /\ nsockets' = [nsockets EXCEPT ![t] = @ - 1]
           /\ UNCHANGED <<kernel, peers, acceptor, sockets, fin, active_clients, ready, mixed>>
<1>1. th[t].pc = "uncount" /\ Goto(t, "clear")
  BY DEF UncountSocket
<1> QED
  BY <1>1, GotoEffect DEF ServerInv, Label, Closing, UncountSocket

\* close_socket gives the slot back.
LEMMA ClearSlotEffect ==
  ASSUME ServerInv, NEW t \in Threads, ClearSlot(t)
  PROVE  \E r \in Thread :
           /\ Local(r) /\ r = [th[t] EXCEPT !.pc = "inactive"] /\ th' = [th EXCEPT ![t] = r]
           /\ th[t].pc = "clear" /\ sockets[t][th[t].i] # -1 /\ sockets' = [sockets EXCEPT ![t][th[t].i] = -1]
           /\ UNCHANGED <<kernel, peers, acceptor, fin, nsockets, active_clients, ready, mixed>>
<1>1. th[t].pc = "clear" /\ Goto(t, "inactive")
  BY DEF ClearSlot
<1>2. sockets[t][th[t].i] # -1
  BY <1>1 DEF ServerInv, SlotsOK, Closing
<1> QED
  BY <1>1, <1>2, GotoEffect DEF ServerInv, Label, Closing, ClearSlot

\* close_socket takes one off the counter of all connections.
LEMMA UncountActiveEffect ==
  ASSUME ServerInv, NEW t \in Threads, UncountActive(t)
  PROVE  \E r \in Thread :
           /\ Local(r) /\ r = [th[t] EXCEPT !.pc = "closed"] /\ th' = [th EXCEPT ![t] = r]
           /\ th[t].pc = "inactive" /\ active_clients' = active_clients - 1
           /\ UNCHANGED <<kernel, peers, acceptor, sockets, fin, nsockets, ready, mixed>>
<1>1. th[t].pc = "inactive" /\ Goto(t, "closed")
  BY DEF UncountActive
<1> QED
  BY <1>1, GotoEffect DEF ServerInv, Label, Closing, UncountActive

\* The counters and the slot change in close_socket without harm to the rest.
LEMMA CountsKeepServerInv ==
  ASSUME ServerInv, NEW t \in Threads, UncountSocket(t) \/ ClearSlot(t) \/ UncountActive(t)
  PROVE  ServerInv'
<1>1. th \in [Threads -> Thread] /\ th[t] \in Thread /\ th[t].i \in Slots
  BY DEF ServerInv, ThreadsOK, Thread
<1>2. PICK r \in Thread :
        /\ Local(r) /\ r = [th[t] EXCEPT !.pc = r.pc] /\ th' = [th EXCEPT ![t] = r]
        /\ \/ th[t].pc = "uncount" /\ r.pc = "clear" /\ sockets' = sockets
           \/ /\ th[t].pc = "clear" /\ r.pc = "inactive" /\ sockets[t][th[t].i] # -1
              /\ sockets' = [sockets EXCEPT ![t][th[t].i] = -1]
           \/ th[t].pc = "inactive" /\ r.pc = "closed" /\ sockets' = sockets
        /\ UNCHANGED <<kernel, peers, acceptor, fin, ready, mixed>>
        /\ nsockets' \in [Threads -> Int] /\ active_clients' \in Int
  <2>0. nsockets \in [Threads -> Int] /\ active_clients \in Int
    BY DEF ServerInv, Types
  <2>1. CASE UncountSocket(t)
    <3>1. PICK r \in Thread :
             /\ Local(r) /\ r = [th[t] EXCEPT !.pc = "clear"] /\ th' = [th EXCEPT ![t] = r]
             /\ th[t].pc = "uncount" /\ nsockets' = [nsockets EXCEPT ![t] = @ - 1]
             /\ UNCHANGED <<kernel, peers, acceptor, sockets, fin, active_clients, ready, mixed>>
      BY <2>1, UncountSocketEffect
    <3>2. r.pc = "clear"
      BY <1>1, <3>1 DEF Thread
    <3>3. nsockets' \in [Threads -> Int] /\ active_clients' \in Int
      BY <2>0, <3>1
    <3> QED
      BY <3>1, <3>2, <3>3
  <2>2. CASE ClearSlot(t)
    <3>1. PICK r \in Thread :
             /\ Local(r) /\ r = [th[t] EXCEPT !.pc = "inactive"] /\ th' = [th EXCEPT ![t] = r]
             /\ th[t].pc = "clear" /\ sockets[t][th[t].i] # -1 /\ sockets' = [sockets EXCEPT ![t][th[t].i] = -1]
             /\ UNCHANGED <<kernel, peers, acceptor, fin, nsockets, active_clients, ready, mixed>>
      BY <2>2, ClearSlotEffect
    <3>2. r.pc = "inactive"
      BY <1>1, <3>1 DEF Thread
    <3> QED
      BY <2>0, <3>1, <3>2
  <2>3. CASE UncountActive(t)
    <3>1. PICK r \in Thread :
             /\ Local(r) /\ r = [th[t] EXCEPT !.pc = "closed"] /\ th' = [th EXCEPT ![t] = r]
             /\ th[t].pc = "inactive" /\ active_clients' = active_clients - 1
             /\ UNCHANGED <<kernel, peers, acceptor, sockets, fin, nsockets, ready, mixed>>
      BY <2>3, UncountActiveEffect
    <3>2. r.pc = "closed"
      BY <1>1, <3>1 DEF Thread
    <3>3. nsockets' \in [Threads -> Int] /\ active_clients' \in Int
      BY <2>0, <3>1
    <3> QED
      BY <3>1, <3>2, <3>3
  <2> QED
    BY <2>1, <2>2, <2>3
<1>3. ThreadsOK'
  BY <1>2, StepOfThread DEF ServerInv
<1>4. KernelOK'
  BY <1>2, SameKernel DEF ServerInv
<1>5. Types'
  <2>1. sockets' \in [Threads -> [Slots -> {-1} \cup Fds]]
    <3>1. sockets' = sockets \/ sockets' = [sockets EXCEPT ![t][th[t].i] = -1]
      BY <1>2
    <3>2. sockets \in [Threads -> [Slots -> {-1} \cup Fds]]
      BY DEF ServerInv, Types
    <3> QED
      BY <1>1, <3>1, <3>2
  <2> QED
    BY <1>2, <2>1 DEF ServerInv, Types, kernel, peers, acceptor
<1>6. r.i = th[t].i /\ th'[t] = r /\ \A u \in Threads \ {t} : th'[u] = th[u]
  BY <1>1, <1>2 DEF Thread
<1>7. /\ \A u \in Threads \ {t} : sockets'[u] = sockets[u]
      /\ \A k \in Slots \ {th[t].i} : sockets'[t][k] = sockets[t][k]
      /\ sockets'[t][th[t].i] \in {-1, sockets[t][th[t].i]}
      /\ r.pc = "inactive" => sockets'[t][th[t].i] = -1
  BY <1>1, <1>2 DEF ServerInv, Types
<1>8. SlotsOK'
  <2>1. SlotsOK /\ cid \in Threads /\ (apc = "set" => sid \in Slots) /\ UNCHANGED <<fin, apc, s1, cid, sid>>
    BY <1>2 DEF ServerInv, Types, acceptor
  <2>2. \A u \in Threads : th'[u].pc \in {"rest", "value", "fclose"} \cup Closing => sockets'[u][th'[u].i] # -1
    BY <1>2, <1>6, <1>7, <2>1 DEF SlotsOK, Closing
  <2>3. ASSUME NEW u \in Threads, NEW k \in Slots, Held(u, k)' PROVE Held(u, k) /\ sockets'[u][k] = sockets[u][k]
    <3>1. CASE u # t
      BY <1>6, <1>7, <2>3, <3>1 DEF Held
    <3>2. CASE u = t /\ k # th[t].i
      BY <1>7, <2>3, <3>2 DEF Held
    <3>3. CASE u = t /\ k = th[t].i
      BY <1>2, <1>6, <1>7, <2>3, <3>3 DEF Held, Closing
    <3> QED
      BY <3>1, <3>2, <3>3
  <2>4. apc = "set" => sockets'[cid][sid] = -1
    BY <1>7, <2>1 DEF SlotsOK
  <2> QED
    BY <2>1, <2>2, <2>3, <2>4 DEF SlotsOK
<1> QED
  BY <1>3, <1>4, <1>5, <1>8 DEF ServerInv

-----------------------------------------------------------------------------
(* Batches: what performing, handling and writing do to a thread. *)

\* One query of a batch is performed with result v.
Performs(t, r, v) ==
  LET j == Len(th[t].values) + 1
      q == th[t].batch[j]
  IN /\ th[t].pc = "do" /\ v \in {NULL, q.key}
     /\ r = [th[t] EXCEPT !.pc = IF j = Len(th[t].batch) THEN "handle" ELSE "do",
                          !.values = Append(th[t].values, v),
                          !.pins = IF q.op = "lookup" /\ v # NULL THEN [th[t].pins EXCEPT ![v] = @ + 1]
                                                                 ELSE th[t].pins]

\* smp_hash_doall performs the next query of the batch.
LEMMA PerformEffect ==
  ASSUME ServerInv, NEW t \in Threads, doqueries(t)
  PROVE  \E r \in Thread, v \in Value :
           /\ Local(r) /\ th' = [th EXCEPT ![t] = r] /\ Performs(t, r, v)
           /\ ready' \in SUBSET Keys /\ UNCHANGED <<kernel, peers, acceptor, cdata, mixed>>
<1>1. th \in [Threads -> Thread] /\ th[t] \in Thread /\ Local(th[t]) /\ ready \in SUBSET Keys
  BY DEF ServerInv, ThreadsOK, Types
<1>2. PICK j, q, next : /\ j = Len(th[t].values) + 1 /\ q = th[t].batch[j]
                        /\ next = IF j = Len(th[t].batch) THEN "handle" ELSE "do"
  OBVIOUS
<1>3. th[t].pc = "do" /\ UNCHANGED <<kernel, peers, acceptor, cdata, mixed>>
  BY DEF doqueries
<1>4. j \in 1..Len(th[t].batch) /\ q \in Query /\ q.key \in Keys /\ th[t].values \in Seq(Value)
  <2>1. th[t].batch \in Seq(Query) /\ th[t].values \in Seq(Value) /\ Len(th[t].values) < Len(th[t].batch)
    BY <1>1, <1>3 DEF Local, Thread
  <2>2. j \in 1..Len(th[t].batch)
    BY <1>2, <2>1
  <2>3. q \in Query
    BY <1>2, <2>1, <2>2
  <2> QED
    BY <2>1, <2>2, <2>3 DEF Query
<1>5. PICK v \in {NULL, q.key}, p \in [Keys -> Int] :
        /\ p = IF q.op = "lookup" /\ v # NULL THEN [th[t].pins EXCEPT ![v] = @ + 1] ELSE th[t].pins
        /\ th' = [th EXCEPT ![t] = [th[t] EXCEPT !.pc = next, !.values = Append(@, v), !.pins = p]]
        /\ ready' \in SUBSET Keys
  <2>0. th[t].pins \in [Keys -> Int] /\ q.key # NULL
    BY <1>1, <1>4, ConstantFacts DEF Thread
  <2>1. CASE /\ q.op = "lookup"
             /\ th' = [th EXCEPT ![t].pc = next, ![t].values = Append(@, NULL)]
             /\ UNCHANGED ready
    <3>1. th' = [th EXCEPT ![t] = [th[t] EXCEPT !.pc = next, !.values = Append(@, NULL), !.pins = th[t].pins]]
      BY <1>1, <2>1 DEF Thread
    <3> QED
      BY <1>1, <2>0, <2>1, <3>1
  <2>2. CASE /\ q.op = "lookup" /\ q.key \in ready
             /\ th' = [th EXCEPT ![t].pc = next, ![t].values = Append(@, q.key), ![t].pins[q.key] = @ + 1]
             /\ UNCHANGED ready
    <3>1. th' = [th EXCEPT ![t] = [th[t] EXCEPT !.pc = next, !.values = Append(@, q.key),
                                                !.pins = [th[t].pins EXCEPT ![q.key] = @ + 1]]]
      BY <1>1, <2>2 DEF Thread
    <3>2. [th[t].pins EXCEPT ![q.key] = @ + 1] \in [Keys -> Int]
      BY <1>4, <2>0
    <3> QED
      BY <1>1, <2>0, <2>2, <3>1, <3>2
  <2>3. CASE /\ q.op = "insert"
             /\ th' = [th EXCEPT ![t].pc = next, ![t].values = Append(@, q.key)]
             /\ ready' = ready \ {q.key}
    <3>1. th' = [th EXCEPT ![t] = [th[t] EXCEPT !.pc = next, !.values = Append(@, q.key), !.pins = th[t].pins]]
      BY <1>1, <2>3 DEF Thread
    <3> QED
      BY <1>1, <2>0, <2>3, <3>1
  <2> QED
    BY <1>2, <2>1, <2>2, <2>3 DEF doqueries
<1>6. PICK r : r = [th[t] EXCEPT !.pc = next, !.values = Append(@, v), !.pins = p]
  OBVIOUS
<1>7. v \in Value /\ next \in Label
  BY <1>2, <1>4 DEF Value, Label
<1>8. r \in Thread
  <2>1. Append(th[t].values, v) \in Seq(Value)
    BY <1>4, <1>7
  <2> QED
    BY <1>1, <1>5, <1>6, <1>7, <2>1 DEF Thread
<1>9. Local(r)
  <2>1. /\ r.pc = next /\ r.values = Append(th[t].values, v) /\ r.batch = th[t].batch /\ r.k = th[t].k
        /\ r.iov = th[t].iov
    BY <1>1, <1>6 DEF Thread
  <2>2. /\ Len(r.values) = j /\ r.values[j] = v
        /\ \A m \in 1..Len(th[t].values) : r.values[m] = th[t].values[m]
    BY <1>2, <1>4, <2>1
  <2>3. r.k = 0 /\ (\A s \in Slots : r.iov[s] = <<>>) /\ Len(r.batch) <= batch_size
    BY <1>1, <1>3, <2>1 DEF Local
  <2>4. ASSUME NEW m \in 1..Len(r.values) PROVE r.values[m] \in {NULL, r.batch[m].key}
    <3>1. CASE m = j
      BY <1>2, <2>1, <2>2, <3>1
    <3>2. CASE m # j
      <4>1. m \in 1..Len(th[t].values)
        BY <1>2, <1>4, <2>2, <3>2
      <4> QED
        BY <1>1, <2>1, <2>2, <4>1 DEF Local
    <3> QED
      BY <3>1, <3>2
  <2> QED
    BY <1>2, <1>4, <2>1, <2>2, <2>3, <2>4 DEF Local
<1>10. Performs(t, r, v)
  <2>1. r = [th[t] EXCEPT !.pc = IF j = Len(th[t].batch) THEN "handle" ELSE "do",
                          !.values = Append(th[t].values, v),
                          !.pins = IF q.op = "lookup" /\ v # NULL THEN [th[t].pins EXCEPT ![v] = @ + 1]
                                                                 ELSE th[t].pins]
    BY <1>2, <1>5, <1>6
  <2> QED
    BY <1>2, <1>3, <1>5, <2>1 DEF Performs
<1> QED
  BY <1>3, <1>5, <1>6, <1>7, <1>8, <1>9, <1>10

\* A value is handled; iov are the vectors after it.
Handles(t, r, iov) ==
  /\ th[t].pc = "handle"
  /\ r = IF th[t].k + 1 = Len(th[t].batch)
           THEN [th[t] EXCEPT !.pc = "write", !.k = 0, !.batch = <<>>, !.values = <<>>, !.iov = iov]
           ELSE [th[t] EXCEPT !.k = th[t].k + 1, !.iov = iov]

\* The query that is handled, and the vector of its answer.
Current(t) == th[t].batch[th[t].k + 1]
Answer(t) == [v |-> th[t].values[th[t].k + 1], n |-> 0, no |-> Current(t).no]

\* The query that is handled, its value and its answer have their types.
LEMMA CurrentFacts ==
  ASSUME ThreadsOK, NEW t \in Threads, th[t].pc = "handle"
  PROVE  /\ th[t].k + 1 \in 1..Len(th[t].batch) /\ Len(th[t].values) = Len(th[t].batch)
         /\ Current(t) \in Query /\ Answer(t) \in Unit /\ Current(t).sid \in Slots
         /\ Answer(t).v \in {NULL, Current(t).key} /\ Answer(t).n = 0 /\ Answer(t).no = Current(t).no
<1>1. th[t] \in Thread /\ Local(th[t])
  BY DEF ThreadsOK
<1>2. th[t].batch \in Seq(Query) /\ th[t].values \in Seq(Value) /\ th[t].k \in Nat
  BY <1>1 DEF Thread
<1>3. PICK j : j = th[t].k + 1
  OBVIOUS
<1>4. j \in 1..Len(th[t].batch) /\ Len(th[t].values) = Len(th[t].batch)
  BY <1>1, <1>2, <1>3 DEF Local
<1>5. th[t].batch[j] \in Query /\ th[t].values[j] \in Value
  BY <1>2, <1>4
<1>6. th[t].batch[j].no \in Nat /\ th[t].batch[j].sid \in Slots
  BY <1>5 DEF Query
<1>7. th[t].values[j] \in {NULL, th[t].batch[j].key}
  BY <1>1, <1>4 DEF Local
<1> QED
  BY <1>3, <1>4, <1>5, <1>6, <1>7 DEF Current, Answer, Unit

\* A value is handled: the next one is, or the vectors are written.
LEMMA HandledEffect ==
  ASSUME ThreadsOK, NEW t \in Threads, th[t].pc = "handle", NEW iov \in [Slots -> Seq(Unit)],
         \A s \in Slots : \A j \in 1..Len(iov[s]) : iov[s][j].n = 0, Handled(t, iov)
  PROVE  \E r \in Thread : Local(r) /\ th' = [th EXCEPT ![t] = r] /\ Handles(t, r, iov)
<1>1. th[t] \in Thread /\ Local(th[t])
  BY DEF ThreadsOK
<1>2. th[t].batch \in Seq(Query) /\ th[t].k \in Nat /\ th[t].k + 1 \in 1..Len(th[t].batch)
  BY <1>1, CurrentFacts DEF Thread
<1>3. CASE th[t].k + 1 = Len(th[t].batch)
  <2>1. PICK r : r = [th[t] EXCEPT !.pc = "write", !.k = 0, !.batch = <<>>, !.values = <<>>, !.iov = iov]
    OBVIOUS
  <2>2. r \in Thread
    <3>1. <<>> \in Seq(Query) /\ <<>> \in Seq(Value) /\ 0 \in Nat /\ "write" \in Label
      BY DEF Label
    <3> QED
      BY <1>1, <2>1, <3>1 DEF Thread
  <2>3. r.pc = "write" /\ r.k = 0 /\ r.batch = <<>> /\ r.values = <<>> /\ r.iov = iov
    BY <1>1, <2>1 DEF Thread
  <2>4. Local(r)
    BY <2>3, ConstantFacts DEF Local
  <2>5. th' = [th EXCEPT ![t] = r]
    BY <1>3, <2>1 DEF Handled
  <2> QED
    BY <1>3, <2>1, <2>2, <2>4, <2>5 DEF Handles
<1>4. CASE th[t].k + 1 # Len(th[t].batch)
  <2>0. PICK k \in Nat : k = th[t].k + 1
    BY <1>2
  <2>1. PICK r : r = [th[t] EXCEPT !.k = k, !.iov = iov]
    OBVIOUS
  <2>2. r \in Thread
    BY <1>1, <2>1 DEF Thread
  <2>3. /\ r.pc = "handle" /\ r.k = th[t].k + 1 /\ r.batch = th[t].batch /\ r.values = th[t].values /\ r.iov = iov
    BY <1>1, <2>0, <2>1 DEF Thread
  <2>4. Local(r)
    BY <1>1, <1>2, <1>4, <2>3 DEF Local
  <2>5. th' = [th EXCEPT ![t] = r]
    <3>1. th' = [th EXCEPT ![t] = [th[t] EXCEPT !.k = th[t].k + 1, !.iov = iov]]
      BY <1>4 DEF Handled
    <3> QED
      BY <2>0, <2>1, <3>1
  <2> QED
    BY <1>4, <2>0, <2>1, <2>2, <2>4, <2>5 DEF Handles
<1> QED
  BY <1>3, <1>4

\* Values that are not yet being written have no part written.
LEMMA Unwritten ==
  ASSUME ThreadsOK, NEW t \in Threads, th[t].pc # "write"
  PROVE  /\ th[t].iov \in [Slots -> Seq(Unit)]
         /\ \A s \in Slots : \A j \in 1..Len(th[t].iov[s]) : th[t].iov[s][j].n = 0
BY DEF ThreadsOK, Thread, Local

\* A lookup that is handled adds a vector if its slot still has the descriptor.
LEMMA HandleLookupEffect ==
  ASSUME ServerInv, NEW t \in Threads, HandleLookup(t)
  PROVE  \E r \in Thread, iov \in [Slots -> Seq(Unit)] :
           /\ Local(r) /\ th' = [th EXCEPT ![t] = r] /\ Handles(t, r, iov) /\ Current(t).op = "lookup"
           /\ iov = IF sockets[t][Current(t).sid] = Current(t).socket
                      THEN [th[t].iov EXCEPT ![Current(t).sid] = Append(@, Answer(t))] ELSE th[t].iov
           /\ mixed' = (mixed \/ (/\ sockets[t][Current(t).sid] = Current(t).socket
                                  /\ ConnOf(Current(t).socket) # Current(t).from))
           /\ UNCHANGED <<kernel, peers, acceptor, cdata, ready>>
<1>1. PICK iov : iov = IF sockets[t][Current(t).sid] = Current(t).socket
                         THEN [th[t].iov EXCEPT ![Current(t).sid] = Append(@, Answer(t))] ELSE th[t].iov
  OBVIOUS
<1>2. th[t].pc = "handle" /\ Current(t).op = "lookup" /\ Handled(t, iov)
  BY <1>1 DEF HandleLookup, Current, Answer
<1>3. ThreadsOK
  BY DEF ServerInv
<1>4. /\ th[t].iov \in [Slots -> Seq(Unit)]
      /\ \A s \in Slots : \A j \in 1..Len(th[t].iov[s]) : th[t].iov[s][j].n = 0
  BY <1>2, <1>3, Unwritten
<1>5. Answer(t) \in Unit /\ Current(t).sid \in Slots /\ Answer(t).n = 0
  BY <1>2, <1>3, CurrentFacts
<1>6. /\ iov \in [Slots -> Seq(Unit)]
      /\ \A s \in Slots : \A j \in 1..Len(iov[s]) : iov[s][j].n = 0
  <2>1. PICK e, s0 : e = Answer(t) /\ s0 = Current(t).sid
    OBVIOUS
  <2>2. PICK w : w = Append(th[t].iov[s0], e)
    OBVIOUS
  <2>3. w \in Seq(Unit) /\ \A j \in 1..Len(w) : w[j].n = 0
    BY <1>4, <1>5, <2>1, <2>2
  <2>4. CASE iov = th[t].iov
    BY <1>4, <2>4
  <2>5. CASE iov = [th[t].iov EXCEPT ![s0] = w]
    <3>1. s0 \in Slots
      BY <1>5, <2>1
    <3>2. iov \in [Slots -> Seq(Unit)] /\ iov[s0] = w /\ \A s \in Slots \ {s0} : iov[s] = th[t].iov[s]
      BY <1>4, <2>3, <2>5, <3>1
    <3> QED
      BY <1>4, <2>3, <3>2
  <2> QED
    BY <1>1, <2>1, <2>2, <2>4, <2>5
<1>7. PICK r \in Thread : Local(r) /\ th' = [th EXCEPT ![t] = r] /\ Handles(t, r, iov)
  BY <1>2, <1>3, <1>6, HandledEffect
<1>8. /\ mixed' = (mixed \/ (/\ sockets[t][Current(t).sid] = Current(t).socket
                             /\ ConnOf(Current(t).socket) # Current(t).from))
      /\ UNCHANGED <<kernel, peers, acceptor, cdata, ready>>
  BY DEF HandleLookup, Current
<1> QED
  BY <1>1, <1>2, <1>6, <1>7, <1>8

\* An insert that is handled leaves the vectors alone.
LEMMA HandleInsertEffect ==
  ASSUME ServerInv, NEW t \in Threads, HandleInsert(t)
  PROVE  \E r \in Thread :
           /\ Local(r) /\ th' = [th EXCEPT ![t] = r] /\ Handles(t, r, th[t].iov) /\ Current(t).op = "insert"
           /\ ready' \in SUBSET Keys /\ UNCHANGED <<kernel, peers, acceptor, cdata, mixed>>
<1>1. th[t].pc = "handle" /\ Current(t).op = "insert" /\ Handled(t, th[t].iov) /\ ThreadsOK
  BY DEF HandleInsert, Current, ServerInv
<1>2. Current(t).key \in Keys
  BY <1>1, CurrentFacts DEF Query
<1>3. ready' \in SUBSET Keys /\ UNCHANGED <<kernel, peers, acceptor, cdata, mixed>>
  BY <1>2 DEF HandleInsert, Current, ServerInv, Types
<1>4. /\ th[t].iov \in [Slots -> Seq(Unit)]
      /\ \A s \in Slots : \A j \in 1..Len(th[t].iov[s]) : th[t].iov[s][j].n = 0
  BY <1>1, Unwritten
<1> QED
  BY <1>1, <1>3, <1>4, HandledEffect

\* Pins stay numbers.
LEMMA UnpinnedType ==
  ASSUME NEW pins \in [Keys -> Int], NEW vs \in Seq(Unit)
  PROVE  Unpinned(pins, vs) \in [Keys -> Int]
<1>1. ASSUME NEW v \in Keys PROVE pins[v] - Cardinality({j \in DOMAIN vs : vs[j].v = v}) \in Int
  <2>1. PICK S : S = {j \in DOMAIN vs : vs[j].v = v}
    OBVIOUS
  <2>2. IsFiniteSet(1..Len(vs)) /\ S \subseteq 1..Len(vs)
    BY <2>1, FS_Interval
  <2>3. Cardinality(S) \in Nat
    BY <2>2, FS_Subset, FS_CardinalityType
  <2> QED
    BY <2>1, <2>3
<1> QED
  BY <1>1 DEF Unpinned

\* A value of which one unit more is written.
More(e) == [v |-> e.v, n |-> e.n + 1, no |-> e.no]

\* The type of a unit.
LEMMA MoreType ==
  ASSUME NEW e \in Unit
  PROVE  More(e) \in Unit
<1>1. e.v \in Value /\ e.n \in Nat /\ e.no \in Nat
  BY DEF Unit
<1>2. e.n + 1 \in Nat
  BY <1>1
<1> QED
  BY <1>1, <1>2 DEF More, Unit

\* The vector at the head of slot k is written to connection c: its last unit,
\* or the first of two.
WritesUnit(t, r, k, e, c) ==
  /\ th[t].pc = "write" /\ k = th[t].k /\ th[t].iov[k] # <<>> /\ e = th[t].iov[k][1]
  /\ c = ConnOf(sockets[t][k])
  /\ tx' = [tx EXCEPT ![c] = IF peer[c] = "closed" THEN tx[c] ELSE Append(tx[c], More(e))]
  /\ \/ /\ (e.n = 0 /\ e.v = NULL) \/ (e.n = 1 /\ e.v # NULL)
        /\ r = [th[t] EXCEPT !.iov = [th[t].iov EXCEPT ![k] = Tail(th[t].iov[k])],
                             !.pins = Unpinned(th[t].pins, <<e>>)]
     \/ /\ e.n = 0 /\ e.v # NULL
        /\ r = [th[t] EXCEPT !.iov = [th[t].iov EXCEPT ![k] = [th[t].iov[k] EXCEPT ![1] = More(e)]]]

\* What is left of slot k is given up.
WritesNothing(t, r, k) ==
  /\ th[t].pc = "write" /\ k = th[t].k
  /\ ConnOf(sockets[t][k]) = NULL \/ peer[ConnOf(sockets[t][k])] = "closed"
  /\ r = [th[t] EXCEPT !.iov = [th[t].iov EXCEPT ![k] = <<>>], !.pins = Unpinned(th[t].pins, th[t].iov[k])]

\* The next slot is written, or the next batch gathered.
WritesNext(t, r) ==
  /\ th[t].pc = "write" /\ th[t].iov[th[t].k] = <<>>
  /\ \/ th[t].k + 1 \in Slots /\ r = [th[t] EXCEPT !.k = th[t].k + 1]
     \/ /\ \A s \in Slots : th[t].iov[s] = <<>>
        /\ r = [th[t] EXCEPT !.k = 0, !.pc = "gather", !.i = th[t].last]

\* The vectors of a slot that is written, and what replaces them.
LEMMA WritingLocal ==
  ASSUME ThreadsOK, NEW t \in Threads, th[t].pc = "write", NEW w \in Seq(Unit), NEW p \in [Keys -> Int],
         \A j \in 1..Len(w) : w[j].n = 0 \/ (w[j].n = 1 /\ w[j].v # NULL /\ j = 1),
         NEW r, r = [th[t] EXCEPT !.iov = [th[t].iov EXCEPT ![th[t].k] = w], !.pins = p]
  PROVE  r \in Thread /\ Local(r)
<1>1. th[t] \in Thread /\ Local(th[t]) /\ th[t].iov \in [Slots -> Seq(Unit)]
  BY DEF ThreadsOK, Thread
<1>2. th[t].k \in Slots
  BY <1>1 DEF Local
<1>3. PICK v : v = [th[t].iov EXCEPT ![th[t].k] = w]
  OBVIOUS
<1>4. v \in [Slots -> Seq(Unit)] /\ v[th[t].k] = w /\ \A s \in Slots \ {th[t].k} : v[s] = th[t].iov[s]
  BY <1>1, <1>2, <1>3
<1>5. r \in Thread
  BY <1>1, <1>3, <1>4 DEF Thread
<1>6. r.pc = "write" /\ r.batch = th[t].batch /\ r.values = th[t].values /\ r.k = th[t].k /\ r.iov = v
  BY <1>1, <1>3 DEF Thread
<1>7. ASSUME NEW s \in Slots, NEW j \in 1..Len(v[s])
      PROVE  v[s][j].n = 0 \/ (v[s][j].n = 1 /\ v[s][j].v # NULL /\ s = r.k /\ j = 1)
  <2>1. CASE s = th[t].k
    BY <1>4, <1>6, <2>1
  <2>2. CASE s # th[t].k
    <3>1. v[s] = th[t].iov[s]
      BY <1>4, <2>2
    <3> QED
      BY <1>1, <1>7, <2>2, <3>1 DEF Local
  <2> QED
    BY <2>1, <2>2
<1>8. \A s \in Slots : s < r.k => v[s] = <<>>
  BY <1>1, <1>2, <1>4, <1>6, ConstantFacts, SMTT(30) DEF Local
<1>9. Local(r)
  BY <1>1, <1>2, <1>6, <1>7, <1>8 DEF Local
<1> QED
  BY <1>5, <1>9

\* writev takes the next unit of the first vector.
LEMMA WriteUnitEffect ==
  ASSUME ServerInv, NEW t \in Threads, th[t].pc = "write", th[t].iov[th[t].k] # <<>>, WriteUnit(t)
  PROVE  \E r \in Thread, k \in Slots, e \in Unit, c \in Conns :
           Local(r) /\ th' = [th EXCEPT ![t] = r] /\ WritesUnit(t, r, k, e, c)
<1>1. th[t] \in Thread /\ Local(th[t]) /\ ThreadsOK /\ th[t].iov \in [Slots -> Seq(Unit)] /\ th[t].pins \in [Keys -> Int]
  BY DEF ServerInv, ThreadsOK, Thread
<1>2. PICK k \in Slots : k = th[t].k
  BY <1>1 DEF Local
<1>3. PICK w \in Seq(Unit) : w = th[t].iov[k]
  BY <1>1
<1>4. PICK e \in Unit : e = w[1]
  BY <1>2, <1>3
<1>5. w # <<>> /\ Head(w) = e /\ Tail(w) \in Seq(Unit)
  BY <1>2, <1>3, <1>4
<1>6. PICK c : c = ConnOf(sockets[t][k])
  OBVIOUS
<1>7. c \in Conns
  <2>1. c # NULL
    BY <1>2, <1>6 DEF WriteUnit
  <2> QED
    BY <1>6, <2>1 DEF ConnOf, ServerInv, Types
<1>8. e.n = 0 \/ (e.n = 1 /\ e.v # NULL)
  <2>1. 1 \in 1..Len(w)
    BY <1>5
  <2> QED
    BY <1>1, <1>2, <1>3, <1>4, <2>1 DEF Local
<1>9. [e EXCEPT !.n = e.n + 1] = More(e)
  BY DEF Unit, More
<1>10. tx' = [tx EXCEPT ![c] = IF peer[c] = "closed" THEN tx[c] ELSE Append(tx[c], More(e))]
  BY <1>2, <1>3, <1>5, <1>6, <1>9 DEF WriteUnit
<1>11. CASE e.n + 1 = Size(e.v)
  <2>1. PICK r : r = [th[t] EXCEPT !.iov = [th[t].iov EXCEPT ![th[t].k] = Tail(w)], !.pins = Unpinned(th[t].pins, <<e>>)]
    OBVIOUS
  <2>2. th' = [th EXCEPT ![t] = [th[t] EXCEPT !.iov[k] = Tail(w), !.pins = Unpinned(th[t].pins, <<e>>)]]
    BY <1>2, <1>3, <1>5, <1>11 DEF WriteUnit
  <2>3. th' = [th EXCEPT ![t] = r]
    BY <1>2, <1>3, <2>1, <2>2
  <2>4. (e.n = 0 /\ e.v = NULL) \/ (e.n = 1 /\ e.v # NULL)
    BY <1>8, <1>11 DEF Size
  <2>5. Unpinned(th[t].pins, <<e>>) \in [Keys -> Int]
    <3>1. <<e>> \in Seq(Unit)
      OBVIOUS
    <3> QED
      BY <1>1, <3>1, UnpinnedType
  <2>6. \A j \in 1..Len(Tail(w)) : Tail(w)[j].n = 0
    <3>1. ASSUME NEW j \in 1..Len(Tail(w)) PROVE Tail(w)[j].n = 0
      <4>1. j + 1 \in 1..Len(w) /\ j + 1 # 1 /\ Tail(w)[j] = w[j + 1]
        BY <1>5
      <4> QED
        BY <1>1, <1>3, <4>1 DEF Local
    <3> QED
      BY <3>1
  <2>7. r \in Thread /\ Local(r)
    BY <1>1, <1>5, <2>1, <2>5, <2>6, WritingLocal
  <2>8. WritesUnit(t, r, k, e, c)
    BY <1>2, <1>3, <1>4, <1>6, <1>10, <2>1, <2>4 DEF WritesUnit
  <2> QED
    BY <1>7, <2>3, <2>7, <2>8
<1>12. CASE e.n + 1 # Size(e.v)
  <2>1. PICK x : x = [w EXCEPT ![1] = More(e)]
    OBVIOUS
  <2>2. PICK r : r = [th[t] EXCEPT !.iov = [th[t].iov EXCEPT ![th[t].k] = x]]
    OBVIOUS
  <2>3. e.n = 0 /\ e.v # NULL
    BY <1>8, <1>12 DEF Size
  <2>4. x \in Seq(Unit) /\ Len(x) = Len(w) /\ x[1] = More(e) /\ \A j \in 2..Len(w) : x[j] = w[j]
    BY <1>5, <2>1, MoreType
  <2>5. th' = [th EXCEPT ![t] = [th[t] EXCEPT !.iov[k][1].n = e.n + 1]]
    BY <1>2, <1>3, <1>5, <1>12 DEF WriteUnit
  <2>6. [th[t] EXCEPT !.iov[k][1].n = e.n + 1] = r
    <3>1. [w[1] EXCEPT !.n = e.n + 1] = More(e)
      BY <1>4, <1>9
    <3>2. [th[t] EXCEPT !.iov[k][1].n = e.n + 1] = [th[t] EXCEPT !.iov = [th[t].iov EXCEPT ![k] = [w EXCEPT ![1] = [w[1] EXCEPT !.n = e.n + 1]]]]
      BY <1>3
    <3> QED
      BY <1>2, <2>1, <2>2, <3>1, <3>2
  <2>7. r = [th[t] EXCEPT !.iov = [th[t].iov EXCEPT ![th[t].k] = x], !.pins = th[t].pins]
    BY <1>1, <2>2 DEF Thread
  <2>8. \A j \in 1..Len(x) : x[j].n = 0 \/ (x[j].n = 1 /\ x[j].v # NULL /\ j = 1)
    <3>1. x[1].n = 1 /\ x[1].v # NULL
      BY <2>3, <2>4 DEF More
    <3>2. ASSUME NEW j \in 2..Len(w) PROVE x[j].n = 0
      BY <1>1, <1>3, <2>4, <3>2 DEF Local
    <3> QED
      BY <2>4, <3>1, <3>2
  <2>9. r \in Thread /\ Local(r)
    BY <1>1, <2>4, <2>7, <2>8, WritingLocal
  <2>10. WritesUnit(t, r, k, e, c)
    BY <1>2, <1>3, <1>4, <1>6, <1>10, <2>1, <2>2, <2>3 DEF WritesUnit
  <2> QED
    BY <1>7, <2>5, <2>6, <2>9, <2>10
<1> QED
  BY <1>11, <1>12

\* A writev that fails gives up the slot's vectors, and unpins their values.
LEMMA WriteErrorEffect ==
  ASSUME ServerInv, NEW t \in Threads, th[t].pc = "write", WriteError(t)
  PROVE  \E r \in Thread, k \in Slots :
           Local(r) /\ th' = [th EXCEPT ![t] = r] /\ WritesNothing(t, r, k) /\ tx' = tx
<1>1. th[t] \in Thread /\ Local(th[t]) /\ ThreadsOK /\ th[t].iov \in [Slots -> Seq(Unit)] /\ th[t].pins \in [Keys -> Int]
  BY DEF ServerInv, ThreadsOK, Thread
<1>2. PICK k \in Slots : k = th[t].k
  BY <1>1 DEF Local
<1>3. PICK r : r = [th[t] EXCEPT !.iov = [th[t].iov EXCEPT ![th[t].k] = <<>>], !.pins = Unpinned(th[t].pins, th[t].iov[k])]
  OBVIOUS
<1>4. th' = [th EXCEPT ![t] = r]
  BY <1>2, <1>3 DEF WriteError
<1>5. /\ Unpinned(th[t].pins, th[t].iov[k]) \in [Keys -> Int] /\ <<>> \in Seq(Unit)
      /\ \A j \in 1..Len(<<>>) : <<>>[j].n = 0
  <2>1. th[t].iov[k] \in Seq(Unit)
    BY <1>1
  <2>2. Unpinned(th[t].pins, th[t].iov[k]) \in [Keys -> Int]
    BY <1>1, <2>1, UnpinnedType
  <2> QED
    BY <2>2
<1>6. r \in Thread /\ Local(r)
  BY <1>1, <1>3, <1>5, WritingLocal
<1>7. ConnOf(sockets[t][k]) = NULL \/ peer[ConnOf(sockets[t][k])] = "closed"
  BY <1>2 DEF WriteError, ConnOf, ServerInv, Types
<1>8. WritesNothing(t, r, k)
  BY <1>2, <1>3, <1>7 DEF WritesNothing
<1> QED
  BY <1>4, <1>6, <1>8 DEF WriteError

\* The slots are written one after the other.
LEMMA WriteNextEffect ==
  ASSUME ServerInv, NEW t \in Threads, WriteNext(t)
  PROVE  \E r \in Thread :
           /\ Local(r) /\ th' = [th EXCEPT ![t] = r] /\ WritesNext(t, r)
           /\ UNCHANGED <<kernel, peers, acceptor, cdata, ready, mixed>>
<1>1. th[t] \in Thread /\ Local(th[t]) /\ th[t].iov \in [Slots -> Seq(Unit)] /\ th[t].last \in Slots
  BY DEF ServerInv, ThreadsOK, Thread
<1>2. /\ th[t].pc = "write" /\ th[t].iov[th[t].k] = <<>>
      /\ UNCHANGED <<kernel, peers, acceptor, cdata, ready, mixed>>
  BY DEF WriteNext
<1>3. PICK k \in Slots : k = th[t].k
  BY <1>1, <1>2 DEF Local
<1>4. /\ th[t].batch = <<>> /\ th[t].values = <<>> /\ \A s \in Slots : s < k => th[t].iov[s] = <<>>
      /\ \A s \in Slots : s # k => \A j \in 1..Len(th[t].iov[s]) : th[t].iov[s][j].n = 0
  BY <1>1, <1>2, <1>3 DEF Local
<1>5. CASE k + 1 < MAX_SOCKETS
  <2>1. PICK n \in Slots : n = k + 1
    BY <1>3, <1>5, ConstantFacts DEF Slots
  <2>2. PICK r : r = [th[t] EXCEPT !.k = n]
    OBVIOUS
  <2>3. th' = [th EXCEPT ![t] = r]
    BY <1>3, <1>5, <2>1, <2>2 DEF WriteNext
  <2>4. r \in Thread
    BY <1>1, <2>1, <2>2, ConstantFacts DEF Thread
  <2>5. r.pc = "write" /\ r.k = n /\ r.batch = <<>> /\ r.values = <<>> /\ r.iov = th[t].iov
    BY <1>1, <1>2, <1>4, <2>2 DEF Thread
  <2>6. \A s \in Slots : s < n => th[t].iov[s] = <<>>
    <3>1. ASSUME NEW s \in Slots, s < n PROVE s = k \/ s < k
      BY <2>1, <3>1, ConstantFacts DEF Slots
    <3> QED
      BY <1>2, <1>3, <1>4, <3>1
  <2>7. \A s \in Slots : \A j \in 1..Len(th[t].iov[s]) : th[t].iov[s][j].n = 0
    BY <1>2, <1>3, <1>4
  <2>8. Local(r)
    BY <2>1, <2>5, <2>6, <2>7, ConstantFacts DEF Local
  <2>9. WritesNext(t, r)
    BY <1>2, <1>3, <2>1, <2>2 DEF WritesNext
  <2> QED
    BY <1>2, <2>3, <2>4, <2>8, <2>9
<1>6. CASE ~(k + 1 < MAX_SOCKETS)
  <2>1. \A s \in Slots : th[t].iov[s] = <<>>
    <3>1. ASSUME NEW s \in Slots PROVE s = k \/ s < k
      BY <1>3, <1>6, ConstantFacts DEF Slots
    <3> QED
      BY <1>2, <1>3, <1>4, <3>1
  <2>2. PICK r : r = [th[t] EXCEPT !.k = 0, !.pc = "gather", !.i = th[t].last]
    OBVIOUS
  <2>3. th' = [th EXCEPT ![t] = r]
    BY <1>3, <1>6, <2>2 DEF WriteNext
  <2>4. r \in Thread
    BY <1>1, <2>2 DEF Thread, Label
  <2>5. r.pc = "gather" /\ r.k = 0 /\ r.batch = <<>> /\ r.values = <<>> /\ r.iov = th[t].iov
    BY <1>1, <1>4, <2>2 DEF Thread
  <2>6. Local(r)
    BY <2>1, <2>5, ConstantFacts DEF Local
  <2>7. WritesNext(t, r)
    BY <1>2, <2>1, <2>2 DEF WritesNext
  <2> QED
    BY <1>2, <2>3, <2>4, <2>6, <2>7
<1> QED
  BY <1>5, <1>6

\* Performing, handling and writing leave the connections and the slots alone.
LEMMA BatchKeepsServerInv ==
  ASSUME ServerInv, NEW t \in Threads, NEW r \in Thread, Local(r), th' = [th EXCEPT ![t] = r],
         th[t].pc \in {"do", "handle", "write"}, r.pc \in {"do", "handle", "write", "gather"},
         UNCHANGED <<fdt, rx, backlog, peers, acceptor, cdata>>, ready' \in SUBSET Keys, mixed' \in BOOLEAN,
         tx' \in [Conns -> Seq(Unit)],
         \A c \in Conns : tx'[c] = tx[c] \/ (peer[c] # "closed" /\ \E f \in Fds : fdt[f] = c)
  PROVE  ServerInv'
<1>1. ThreadsOK'
  BY StepOfThread DEF ServerInv
<1>2. SlotsOK'
  BY StepKeepsSlots DEF ServerInv, Closing
<1>3. Types'
  BY DEF ServerInv, Types, peers, acceptor, cdata
<1>4. KernelOK'
  <2>1. KernelOK /\ UNCHANGED <<fdt, rx, backlog, peer, asked>>
    BY DEF ServerInv, peers
  <2>2. ASSUME NEW c \in Conns, peer[c] \in {"new", "closed"} \/ c \in backlog PROVE tx'[c] = <<>>
    BY <2>1, <2>2 DEF KernelOK
  <2> QED
    BY <2>1, <2>2 DEF KernelOK
<1> QED
  BY <1>1, <1>2, <1>3, <1>4 DEF ServerInv

\* Performing, handling and writing a batch keep the invariant.
LEMMA BatchStepsKeepServerInv ==
  ASSUME ServerInv, NEW t \in Threads,
         doqueries(t) \/ HandleLookup(t) \/ HandleInsert(t) \/ write_iovs(t) \/ WriteNext(t)
  PROVE  ServerInv'
<1>1. /\ tx \in [Conns -> Seq(Unit)] /\ mixed \in BOOLEAN /\ ready \in SUBSET Keys
      /\ th[t] \in Thread
  BY DEF ServerInv, Types, ThreadsOK
<1>2. CASE doqueries(t)
  <2>1. PICK r \in Thread, v \in Value :
           /\ Local(r) /\ th' = [th EXCEPT ![t] = r] /\ Performs(t, r, v)
           /\ ready' \in SUBSET Keys /\ UNCHANGED <<kernel, peers, acceptor, cdata, mixed>>
    BY <1>2, PerformEffect
  <2>2. th[t].pc = "do" /\ r.pc \in {"do", "handle"}
    BY <1>1, <2>1 DEF Performs, Thread
  <2> QED
    BY <1>1, <2>1, <2>2, BatchKeepsServerInv DEF kernel
<1>3. ASSUME NEW r \in Thread, NEW iov, Handles(t, r, iov) PROVE th[t].pc = "handle" /\ r.pc \in {"handle", "write"}
  BY <1>1, <1>3 DEF Handles, Thread
<1>4. CASE HandleLookup(t)
  <2>1. PICK r \in Thread, iov \in [Slots -> Seq(Unit)] :
           /\ Local(r) /\ th' = [th EXCEPT ![t] = r] /\ Handles(t, r, iov)
    BY <1>4, HandleLookupEffect
  <2>2. mixed' \in BOOLEAN /\ UNCHANGED <<kernel, peers, acceptor, cdata, ready>>
    BY <1>4 DEF HandleLookup
  <2> QED
    BY <1>1, <1>3, <2>1, <2>2, BatchKeepsServerInv DEF kernel
<1>5. CASE HandleInsert(t)
  <2>1. PICK r \in Thread :
           /\ Local(r) /\ th' = [th EXCEPT ![t] = r] /\ Handles(t, r, th[t].iov)
           /\ ready' \in SUBSET Keys /\ UNCHANGED <<kernel, peers, acceptor, cdata, mixed>>
    BY <1>5, HandleInsertEffect
  <2> QED
    BY <1>1, <1>3, <2>1, BatchKeepsServerInv DEF kernel
<1>6. CASE write_iovs(t) /\ WriteUnit(t)
  <2>1. PICK r \in Thread, k \in Slots, e \in Unit, c \in Conns :
           Local(r) /\ th' = [th EXCEPT ![t] = r] /\ WritesUnit(t, r, k, e, c)
    BY <1>6, WriteUnitEffect DEF write_iovs
  <2>2. th[t].pc = "write" /\ r.pc = "write"
    BY <1>1, <2>1 DEF WritesUnit, Thread
  <2>3. UNCHANGED <<fdt, rx, backlog, peers, acceptor, cdata, ready, mixed>>
    BY <1>6 DEF write_iovs
  <2>4. More(e) \in Unit
    BY MoreType
  <2>5. tx' = [tx EXCEPT ![c] = IF peer[c] = "closed" THEN tx[c] ELSE Append(tx[c], More(e))]
    BY <2>1 DEF WritesUnit
  <2>6. \E f \in Fds : fdt[f] = c
    BY <2>1, ConstantFacts DEF WritesUnit, ConnOf
  <2>7. tx' \in [Conns -> Seq(Unit)]
    BY <1>1, <2>4, <2>5
  <2>8. \A d \in Conns : tx'[d] = tx[d] \/ (peer[d] # "closed" /\ \E f \in Fds : fdt[f] = d)
    BY <1>1, <2>5, <2>6
  <2> QED
    BY <1>1, <2>1, <2>2, <2>3, <2>7, <2>8, BatchKeepsServerInv
<1>7. CASE write_iovs(t) /\ WriteError(t)
  <2>1. PICK r \in Thread, k \in Slots :
           Local(r) /\ th' = [th EXCEPT ![t] = r] /\ WritesNothing(t, r, k) /\ tx' = tx
    BY <1>7, WriteErrorEffect DEF write_iovs
  <2>2. th[t].pc = "write" /\ r.pc = "write"
    BY <1>1, <2>1 DEF WritesNothing, Thread
  <2>3. UNCHANGED <<fdt, rx, backlog, peers, acceptor, cdata, ready, mixed>>
    BY <1>7 DEF write_iovs
  <2> QED
    BY <1>1, <2>1, <2>2, <2>3, BatchKeepsServerInv
<1>8. CASE WriteNext(t)
  <2>1. PICK r \in Thread :
           /\ Local(r) /\ th' = [th EXCEPT ![t] = r] /\ WritesNext(t, r)
           /\ UNCHANGED <<kernel, peers, acceptor, cdata, ready, mixed>>
    BY <1>8, WriteNextEffect
  <2>2. th[t].pc = "write" /\ r.pc \in {"write", "gather"}
    BY <1>1, <2>1 DEF WritesNext, Thread
  <2> QED
    BY <1>1, <2>1, <2>2, BatchKeepsServerInv DEF kernel
<1> QED
  BY <1>2, <1>4, <1>5, <1>6, <1>7, <1>8 DEF write_iovs

\* The steps on a batch go from one of its labels to the next.
LEMMA BatchStep ==
  ASSUME ServerInv, NEW t \in Threads,
         doqueries(t) \/ HandleLookup(t) \/ HandleInsert(t) \/ write_iovs(t) \/ WriteNext(t)
  PROVE  \E r \in Thread : /\ th' = [th EXCEPT ![t] = r] /\ th[t].pc \in {"do", "handle", "write"}
                           /\ r.pc \in {"do", "handle", "write", "gather"}
                           /\ th[t].pc \notin Closing /\ r.pc \notin Closing
<1>1. th[t] \in Thread
  BY DEF ServerInv, ThreadsOK
<1>2. ASSUME NEW r \in Thread, th' = [th EXCEPT ![t] = r], th[t].pc \in {"do", "handle", "write"},
             r.pc \in {"do", "handle", "write", "gather"}
      PROVE  \E x \in Thread : /\ th' = [th EXCEPT ![t] = x] /\ th[t].pc \in {"do", "handle", "write"}
                               /\ x.pc \in {"do", "handle", "write", "gather"}
                               /\ th[t].pc \notin Closing /\ x.pc \notin Closing
  BY <1>2 DEF Closing
<1>3. CASE doqueries(t)
  <2>1. PICK r \in Thread, v \in Value : th' = [th EXCEPT ![t] = r] /\ Performs(t, r, v)
    BY <1>3, PerformEffect
  <2>2. th[t].pc = "do" /\ r.pc \in {"do", "handle"}
    BY <1>1, <2>1 DEF Performs, Thread
  <2> QED
    BY <1>2, <2>1, <2>2
<1>4. CASE HandleLookup(t) \/ HandleInsert(t)
  <2>1. PICK r \in Thread : th' = [th EXCEPT ![t] = r] /\ \E iov : Handles(t, r, iov)
    BY <1>4, HandleLookupEffect, HandleInsertEffect
  <2>2. th[t].pc = "handle" /\ r.pc \in {"handle", "write"}
    BY <1>1, <2>1 DEF Handles, Thread
  <2> QED
    BY <1>2, <2>1, <2>2
<1>5. CASE write_iovs(t) /\ WriteUnit(t)
  <2>1. PICK r \in Thread, k \in Slots, e \in Unit, c \in Conns :
          th' = [th EXCEPT ![t] = r] /\ WritesUnit(t, r, k, e, c)
    BY <1>5, WriteUnitEffect DEF write_iovs
  <2>2. th[t].pc = "write" /\ r.pc = "write"
    BY <1>1, <2>1 DEF WritesUnit, Thread
  <2> QED
    BY <1>2, <2>1, <2>2
<1>6. CASE write_iovs(t) /\ WriteError(t)
  <2>1. PICK r \in Thread, k \in Slots : th' = [th EXCEPT ![t] = r] /\ WritesNothing(t, r, k)
    BY <1>6, WriteErrorEffect DEF write_iovs
  <2>2. th[t].pc = "write" /\ r.pc = "write"
    BY <1>1, <2>1 DEF WritesNothing, Thread
  <2> QED
    BY <1>2, <2>1, <2>2
<1>7. CASE WriteNext(t)
  <2>1. PICK r \in Thread : th' = [th EXCEPT ![t] = r] /\ WritesNext(t, r)
    BY <1>7, WriteNextEffect
  <2>2. th[t].pc = "write" /\ r.pc \in {"write", "gather"}
    BY <1>1, <2>1 DEF WritesNext, Thread
  <2> QED
    BY <1>2, <2>1, <2>2
<1> QED
  BY <1>3, <1>4, <1>5, <1>6, <1>7 DEF write_iovs

-----------------------------------------------------------------------------
\* run_server starts in the invariant.
LEMMA InitServerInv ==
  ASSUME Init
  PROVE  ServerInv
<1>1. Types
  <2>1. /\ rx \in [Conns -> Seq(Object)] /\ tx \in [Conns -> Seq(Unit)] /\ asked \in [Conns -> Seq(Request)]
    BY DEF Init
  <2>2. peer \in [Conns -> Up \cup {"new", "closed"}] /\ got \in [Conns -> Nat] /\ nsockets \in [Threads -> Int]
    BY DEF Init
  <2>3. /\ sockets \in [Threads -> [Slots -> {-1} \cup Fds]] /\ fin \in [Threads -> [Slots -> {0} \cup Fds]]
    BY DEF Init
  <2>4. fdt \in [Fds -> Conns \cup {NULL}] /\ backlog \in SUBSET Conns /\ ready \in SUBSET Keys
    BY DEF Init
  <2>5. apc = "accept" /\ s1 = 0 /\ cid \in Threads /\ sid \in Slots /\ active_clients \in Int
    BY ConstantFacts DEF Init
  <2>6. mixed \in BOOLEAN
    BY DEF Init
  <2> QED
    BY <2>1, <2>2, <2>3, <2>4, <2>5, <2>6 DEF Types
<1>2. ThreadsOK
  <2>1. PICK r : r = [pc |-> "gather", i |-> 0, last |-> 0, batch |-> <<>>, key |-> NULL, values |-> <<>>,
                      k |-> 0, iov |-> [s \in Slots |-> <<>>], pins |-> [v \in Keys |-> 0]]
    OBVIOUS
  <2>2. r \in Thread
    BY <2>1, ConstantFacts DEF Thread, Label, Value
  <2>3. Local(r)
    BY <2>1, ConstantFacts DEF Local
  <2>4. th = [t \in Threads |-> r]
    BY <2>1 DEF Init
  <2> QED
    BY <2>2, <2>3, <2>4 DEF ThreadsOK
<1>3. SlotsOK
  BY <1>2 DEF Init, SlotsOK, Held, Closing
<1>4. KernelOK
  BY ConstantFacts DEF Init, KernelOK
<1> QED
  BY <1>1, <1>2, <1>3, <1>4 DEF ServerInv

\* Every step of clientgo keeps the invariant.
LEMMA ThreadKeepsServerInv ==
  ASSUME ServerInv, NEW t \in Threads, clientgo(t)
  PROVE  ServerInv'
<1>1. CASE Gather(t) \/ ReadRest(t) \/ ReadValue(t) \/ EndGather(t)
  BY <1>1, GatherEffect, GatherKeepsServerInv
<1>2. CASE AfterClose(t)
  BY <1>2, AfterCloseEffect, GatherKeepsServerInv
<1>3. CASE Fclose(t)
  BY <1>3, FcloseKeepsServerInv
<1>4. CASE Close(t)
  BY <1>4, CloseKeepsServerInv
<1>5. CASE UncountSocket(t) \/ ClearSlot(t) \/ UncountActive(t)
  BY <1>5, CountsKeepServerInv
<1>6. CASE doqueries(t) \/ HandleLookup(t) \/ HandleInsert(t) \/ write_iovs(t) \/ WriteNext(t)
  BY <1>6, BatchStepsKeepServerInv
<1> QED
  BY <1>1, <1>2, <1>3, <1>4, <1>5, <1>6 DEF clientgo, close_socket

\* Every step keeps the invariant.
LEMMA StepKeepsServerInv ==
  ASSUME ServerInv, [Next]_vars
  PROVE  ServerInv'
<1>1. CASE UNCHANGED vars
  <2>1. UNCHANGED <<kernel, peers, acceptor, cdata, th, ready, mixed>>
    BY <1>1 DEF vars
  <2>2. ThreadsOK' /\ SlotsOK' /\ KernelOK'
    BY <2>1, SameSlots, SameKernel DEF ServerInv
  <2>3. Types'
    BY <2>1 DEF ServerInv, Types, kernel, peers, acceptor, cdata
  <2> QED
    BY <2>2, <2>3 DEF ServerInv
<1> QED
  BY <1>1, ClientKeepsServerInv, AcceptorKeepsServerInv, ThreadKeepsServerInv DEF Next, Spin

\* The invariant that the other proofs build on.
LEMMA ServerInvariant == Spec => []ServerInv
<1>1. Init => ServerInv
  BY InitServerInv
<1>2. ServerInv /\ [Next]_vars => ServerInv'
  BY StepKeepsServerInv
<1> QED
  BY <1>1, <1>2, PTL DEF Spec

\* The acceptor and the client threads of hashserver2 stay inside the arrays of
\* sockets, streams, batches and values, whatever connections come and go.
THEOREM TypeCorrect == Spec => []TypeOK
<1>1. ServerInv => TypeOK
  BY DEF ServerInv, Types, ThreadsOK, Local, TypeOK
<1> QED
  BY <1>1, ServerInvariant, PTL

-----------------------------------------------------------------------------
(* SocketsCounted *)

Pairs == {s \in Threads \X Slots : sockets[s[1]][s[2]] # -1}
Inactive == {t \in Threads : th[t].pc = "inactive"}

\* The counters of SocketsCounted, without the bound that follows from them.
Counted ==
  /\ \A t \in Threads :
       nsockets[t] = Cardinality(UsedSlots(t)) + One(apc = "set" /\ cid = t) - One(th[t].pc = "clear")
  /\ active_clients = Cardinality(Pairs) + Cardinality(Inactive) - One(apc = "count")

\* There are finitely many slots.
LEMMA FiniteSlots ==
  IsFiniteSet(Threads) /\ IsFiniteSet(Slots) /\ Cardinality(Slots) = MAX_SOCKETS
<1>1. MAX_SOCKETS - 1 \in Int /\ nclients - 1 \in Int /\ ~(0 > MAX_SOCKETS - 1) /\ (MAX_SOCKETS - 1) - 0 + 1 = MAX_SOCKETS
  BY ConstantFacts
<1>2. IsFiniteSet(0..(MAX_SOCKETS - 1)) /\ IsFiniteSet(0..(nclients - 1))
  BY <1>1, FS_Interval
<1>3. Cardinality(0..(MAX_SOCKETS - 1)) = (MAX_SOCKETS - 1) - 0 + 1
  BY <1>1, FS_Interval
<1> QED
  BY <1>1, <1>2, <1>3 DEF Threads, Slots

\* What the counters are compared with is finite.
LEMMA FiniteCounts ==
  /\ \A t \in Threads : IsFiniteSet(UsedSlots(t)) /\ Cardinality(UsedSlots(t)) \in Nat
  /\ IsFiniteSet(Pairs) /\ Cardinality(Pairs) \in Nat
  /\ IsFiniteSet(Inactive) /\ Cardinality(Inactive) \in Nat
<1>1. IsFiniteSet(Threads) /\ IsFiniteSet(Slots)
  BY FiniteSlots
<1>2. IsFiniteSet(Threads \X Slots)
  BY <1>1, FS_Product
<1>3. ASSUME NEW t \in Threads PROVE IsFiniteSet(UsedSlots(t)) /\ Cardinality(UsedSlots(t)) \in Nat
  <2>1. UsedSlots(t) \subseteq Slots
    BY DEF UsedSlots
  <2> QED
    BY <1>1, <2>1, FS_Subset, FS_CardinalityType
<1>4. Pairs \subseteq Threads \X Slots /\ Inactive \subseteq Threads
  BY DEF Pairs, Inactive
<1> QED
  BY <1>1, <1>2, <1>3, <1>4, FS_Subset, FS_CardinalityType

\* Steps that change neither the counters nor what they count.
LEMMA SameCounts ==
  ASSUME Counted, UNCHANGED <<sockets, nsockets, active_clients>>,
         \A t \in Threads : (apc = "set" /\ cid = t) <=> (apc' = "set" /\ cid' = t),
         apc = "count" <=> apc' = "count",
         \A t \in Threads : th[t].pc = "clear" <=> th'[t].pc = "clear",
         \A t \in Threads : th[t].pc = "inactive" <=> th'[t].pc = "inactive"
  PROVE  Counted'
<1>1. Pairs' = Pairs /\ \A t \in Threads : UsedSlots(t)' = UsedSlots(t)
  BY DEF Pairs, UsedSlots
<1>2. Inactive' = Inactive
  BY DEF Inactive
<1> QED
  BY <1>1, <1>2 DEF Counted, One

\* The steps of a client thread that do not count.
LEMMA OtherSteps ==
  ASSUME ServerInv, NEW t \in Threads, clientgo(t), ~(UncountSocket(t) \/ ClearSlot(t) \/ UncountActive(t))
  PROVE  /\ UNCHANGED <<acceptor, sockets, nsockets, active_clients>>
         /\ \A u \in Threads : /\ th[u].pc = "clear" <=> th'[u].pc = "clear"
                               /\ th[u].pc = "inactive" <=> th'[u].pc = "inactive"
<1>1. th \in [Threads -> Thread] /\ th[t] \in Thread
  BY DEF ServerInv, ThreadsOK
<1>2. ASSUME NEW r \in Thread, th' = [th EXCEPT ![t] = r],
             th[t].pc \notin {"clear", "inactive"}, r.pc \notin {"clear", "inactive"}
      PROVE  \A u \in Threads : /\ th[u].pc = "clear" <=> th'[u].pc = "clear"
                                /\ th[u].pc = "inactive" <=> th'[u].pc = "inactive"
  BY <1>1, <1>2
<1>3. UNCHANGED <<acceptor, sockets, nsockets, active_clients>>
  BY DEF clientgo, close_socket, Gather, ReadRest, ReadValue, EndGather, Fclose, Close, AfterClose,
         doqueries, HandleLookup, HandleInsert, write_iovs, WriteNext, cdata
<1>4. ASSUME NEW r \in Thread, Gathers(t, r)
      PROVE  \A u \in Threads : /\ th[u].pc = "clear" <=> th'[u].pc = "clear"
                                /\ th[u].pc = "inactive" <=> th'[u].pc = "inactive"
  <2>1. th[t].pc \notin {"clear", "inactive"} /\ th' = [th EXCEPT ![t] = r]
    BY <1>4 DEF Gathers, Moves, Breaks, Reads
  <2>2. r.pc \notin {"clear", "inactive"}
    BY <1>1, <1>4 DEF Gathers, Moves, Breaks, Reads, ReadsQuery, ReadsValue, Thread
  <2> QED
    BY <1>2, <2>1, <2>2
<1>5. CASE Gather(t) \/ ReadRest(t) \/ ReadValue(t) \/ EndGather(t) \/ AfterClose(t)
  BY <1>3, <1>4, <1>5, GatherEffect, AfterCloseEffect
<1>6. CASE Fclose(t)
  <2>1. PICK r \in Thread : r = [th[t] EXCEPT !.pc = "close"] /\ th' = [th EXCEPT ![t] = r] /\ th[t].pc = "fclose"
    BY <1>6, FcloseEffect
  <2>2. r.pc = "close"
    BY <1>1, <2>1 DEF Thread
  <2> QED
    BY <1>2, <1>3, <2>1, <2>2
<1>7. CASE Close(t)
  <2>1. PICK r \in Thread : r = [th[t] EXCEPT !.pc = "uncount"] /\ th' = [th EXCEPT ![t] = r] /\ th[t].pc = "close"
    BY <1>7, CloseEffect
  <2>2. r.pc = "uncount"
    BY <1>1, <2>1 DEF Thread
  <2> QED
    BY <1>2, <1>3, <2>1, <2>2
<1>8. CASE doqueries(t) \/ HandleLookup(t) \/ HandleInsert(t) \/ write_iovs(t) \/ WriteNext(t)
  <2>1. PICK r \in Thread : /\ th' = [th EXCEPT ![t] = r] /\ th[t].pc \in {"do", "handle", "write"}
                            /\ r.pc \in {"do", "handle", "write", "gather"}
    BY <1>8, BatchStep
  <2> QED
    BY <1>2, <1>3, <2>1
<1> QED
  BY <1>5, <1>6, <1>7, <1>8 DEF clientgo, close_socket

\* tcpserver and open_socket count every slot they fill.
LEMMA AcceptorKeepsCounted ==
  ASSUME ServerInv, Counted, tcpserver
  PROVE  Counted'
<1>1. cid \in Threads /\ nsockets \in [Threads -> Int] /\ active_clients \in Int
  BY DEF ServerInv, Types
<1>2. th' = th
  BY DEF tcpserver, Accept, Choose, WaitForRoom, open_socket, SetSocket, CountActive
<1>3. CASE Accept \/ Choose \/ WaitForRoom
  BY <1>2, <1>3, SameCounts DEF Accept, Choose, WaitForRoom, cdata
<1>4. CASE open_socket /\ apc' # "set"
  BY <1>2, <1>4, SameCounts DEF open_socket
<1>5. CASE open_socket /\ apc' = "set"
  <2>1. /\ nsockets' = [nsockets EXCEPT ![cid] = @ + 1] /\ UNCHANGED <<cid, sockets, active_clients>>
        /\ apc = "open" /\ apc' = "set"
    BY <1>5 DEF open_socket
  <2>2. Pairs' = Pairs /\ Inactive' = Inactive /\ \A t \in Threads : UsedSlots(t)' = UsedSlots(t)
    BY <1>2, <2>1 DEF Pairs, UsedSlots, Inactive
  <2>3. ASSUME NEW t \in Threads
        PROVE  nsockets'[t] = Cardinality(UsedSlots(t)) + One(cid = t) - One(th[t].pc = "clear")
    BY <1>1, <2>1, FiniteCounts DEF Counted, One
  <2> QED
    BY <1>2, <2>1, <2>2, <2>3 DEF Counted, One
<1>6. CASE SetSocket
  <2>1. /\ sid \in Slots /\ s1 \in Fds /\ sockets[cid][sid] = -1 /\ sockets' = [sockets EXCEPT ![cid][sid] = s1]
        /\ UNCHANGED <<cid, nsockets, active_clients>> /\ apc = "set" /\ apc' = "count"
        /\ sockets \in [Threads -> [Slots -> {-1} \cup Fds]]
    BY <1>6 DEF SetSocket, ServerInv, Types, SlotsOK
  <2>2. Inactive' = Inactive
    BY <1>2 DEF Inactive
  <2>3. UsedSlots(cid)' = UsedSlots(cid) \cup {sid} /\ sid \notin UsedSlots(cid)
    BY <1>1, <2>1, ConstantFacts DEF UsedSlots
  <2>4. \A t \in Threads \ {cid} : UsedSlots(t)' = UsedSlots(t)
    BY <1>1, <2>1 DEF UsedSlots
  <2>5. Pairs' = Pairs \cup {<<cid, sid>>} /\ <<cid, sid>> \notin Pairs
    BY <1>1, <2>1, ConstantFacts DEF Pairs
  <2>6. Cardinality(UsedSlots(cid)') = Cardinality(UsedSlots(cid)) + 1
    BY <1>1, <2>3, FiniteCounts, FS_AddElement
  <2>7. Cardinality(Pairs') = Cardinality(Pairs) + 1
    BY <2>5, FiniteCounts, FS_AddElement
  <2>8. ASSUME NEW t \in Threads PROVE nsockets'[t] = Cardinality(UsedSlots(t)') - One(th[t].pc = "clear")
    <3>1. CASE t = cid
      BY <1>1, <2>1, <2>6, <3>1, FiniteCounts DEF Counted, One
    <3>2. CASE t # cid
      BY <1>1, <2>1, <2>4, <3>2, FiniteCounts DEF Counted, One
    <3> QED
      BY <3>1, <3>2
  <2>9. active_clients' = Cardinality(Pairs') + Cardinality(Inactive') - 1
    BY <1>1, <2>1, <2>2, <2>7, FiniteCounts DEF Counted, One
  <2>10. ASSUME NEW t \in Threads PROVE Cardinality(UsedSlots(t)') \in Nat
    <3>1. Cardinality(UsedSlots(t)) \in Nat /\ Cardinality(UsedSlots(cid)) \in Nat
      BY <1>1, FiniteCounts
    <3>2. CASE t = cid
      <4>1. UsedSlots(t)' = UsedSlots(cid)'
        BY <2>1, <3>2 DEF UsedSlots
      <4> QED
        BY <2>6, <3>1, <4>1
    <3>3. CASE t # cid
      BY <2>4, <3>1, <3>3
    <3> QED
      BY <3>2, <3>3
  <2> QED
    BY <1>2, <2>1, <2>8, <2>9, <2>10 DEF Counted, One
<1>7. CASE CountActive
  <2>1. /\ UNCHANGED <<nsockets, sockets>> /\ apc = "count" /\ apc' = "accept"
        /\ active_clients' = active_clients + 1
    BY <1>7 DEF CountActive
  <2>2. Pairs' = Pairs /\ Inactive' = Inactive /\ \A t \in Threads : UsedSlots(t)' = UsedSlots(t)
    BY <1>2, <2>1 DEF Pairs, UsedSlots, Inactive
  <2> QED
    BY <1>1, <1>2, <2>1, <2>2, FiniteCounts DEF Counted, One
<1> QED
  BY <1>3, <1>4, <1>5, <1>6, <1>7 DEF tcpserver

\* close_socket takes off the counters what it gives back, once.
LEMMA ThreadKeepsCounted ==
  ASSUME ServerInv, Counted, NEW t \in Threads, clientgo(t)
  PROVE  Counted'
<1>1. /\ cid \in Threads /\ nsockets \in [Threads -> Int] /\ active_clients \in Int
      /\ th \in [Threads -> Thread] /\ th[t] \in Thread /\ th[t].i \in Slots
  BY DEF ServerInv, Types, ThreadsOK, Thread
<1>2. CASE ~(UncountSocket(t) \/ ClearSlot(t) \/ UncountActive(t))
  BY <1>2, OtherSteps, SameCounts DEF acceptor
<1>3. CASE UncountSocket(t)
  <2>1. PICK r \in Thread :
           /\ r = [th[t] EXCEPT !.pc = "clear"] /\ th' = [th EXCEPT ![t] = r]
           /\ th[t].pc = "uncount" /\ nsockets' = [nsockets EXCEPT ![t] = @ - 1]
           /\ UNCHANGED <<acceptor, sockets, active_clients>>
    BY <1>3, UncountSocketEffect
  <2>2. r.pc = "clear" /\ th'[t] = r /\ \A u \in Threads \ {t} : th'[u] = th[u]
    BY <1>1, <2>1 DEF Thread
  <2>3. Pairs' = Pairs /\ Inactive' = Inactive /\ \A u \in Threads : UsedSlots(u)' = UsedSlots(u)
    BY <2>1, <2>2 DEF Pairs, UsedSlots, Inactive
  <2>4. UNCHANGED <<apc, cid, active_clients>>
    BY <2>1 DEF acceptor
  <2>5. ASSUME NEW u \in Threads
        PROVE  nsockets'[u] = Cardinality(UsedSlots(u)) + One(apc = "set" /\ cid = u) - One(th'[u].pc = "clear")
    <3>1. CASE u = t
      BY <1>1, <2>1, <2>2, <3>1, FiniteCounts DEF Counted, One
    <3>2. CASE u # t
      BY <1>1, <2>1, <2>2, <3>2 DEF Counted
    <3> QED
      BY <3>1, <3>2
  <2> QED
    BY <2>3, <2>4, <2>5 DEF Counted
<1>4. CASE ClearSlot(t)
  <2>1. PICK r \in Thread :
           /\ r = [th[t] EXCEPT !.pc = "inactive"] /\ th' = [th EXCEPT ![t] = r]
           /\ th[t].pc = "clear" /\ sockets[t][th[t].i] # -1 /\ sockets' = [sockets EXCEPT ![t][th[t].i] = -1]
           /\ UNCHANGED <<acceptor, nsockets, active_clients>>
    BY <1>4, ClearSlotEffect
  <2>2. r.pc = "inactive" /\ th'[t] = r /\ \A u \in Threads \ {t} : th'[u] = th[u]
    BY <1>1, <2>1 DEF Thread
  <2>3. UNCHANGED <<apc, cid, nsockets, active_clients>>
    BY <2>1 DEF acceptor
  <2>4. sockets \in [Threads -> [Slots -> {-1} \cup Fds]]
    BY DEF ServerInv, Types
  <2>5. UsedSlots(t)' = UsedSlots(t) \ {th[t].i} /\ th[t].i \in UsedSlots(t)
    BY <1>1, <2>1, <2>4 DEF UsedSlots
  <2>6. \A u \in Threads \ {t} : UsedSlots(u)' = UsedSlots(u)
    BY <2>1, <2>4 DEF UsedSlots
  <2>7. Pairs' = Pairs \ {<<t, th[t].i>>} /\ <<t, th[t].i>> \in Pairs
    BY <1>1, <2>1, <2>4 DEF Pairs
  <2>8. Inactive' = Inactive \cup {t} /\ t \notin Inactive
    BY <2>1, <2>2, ZenonT(60) DEF Inactive
  <2>9. Cardinality(UsedSlots(t)') = Cardinality(UsedSlots(t)) - 1
    <3>1. IsFiniteSet(UsedSlots(t))
      BY FiniteCounts
    <3>2. Cardinality(UsedSlots(t) \ {th[t].i}) = Cardinality(UsedSlots(t)) - 1
      BY <2>5, <3>1, FS_RemoveElement
    <3> QED
      BY <2>5, <3>2
  <2>10. Cardinality(Pairs') = Cardinality(Pairs) - 1
    BY <2>7, FiniteCounts, FS_RemoveElement
  <2>11. Cardinality(Inactive') = Cardinality(Inactive) + 1
    BY <2>8, FiniteCounts, FS_AddElement
  <2>12. ASSUME NEW u \in Threads
         PROVE  nsockets'[u] = Cardinality(UsedSlots(u)') + One(apc = "set" /\ cid = u) - One(th'[u].pc = "clear")
    <3>1. CASE u = t
      BY <1>1, <2>1, <2>2, <2>3, <2>9, <3>1, FiniteCounts DEF Counted, One
    <3>2. CASE u # t
      BY <2>2, <2>3, <2>6, <3>2 DEF Counted
    <3> QED
      BY <3>1, <3>2
  <2>13. active_clients' = Cardinality(Pairs') + Cardinality(Inactive') - One(apc = "count")
    BY <1>1, <2>3, <2>10, <2>11, FiniteCounts DEF Counted, One
  <2> QED
    BY <2>3, <2>12, <2>13 DEF Counted
<1>5. CASE UncountActive(t)
  <2>1. PICK r \in Thread :
           /\ r = [th[t] EXCEPT !.pc = "closed"] /\ th' = [th EXCEPT ![t] = r]
           /\ th[t].pc = "inactive" /\ active_clients' = active_clients - 1
           /\ UNCHANGED <<acceptor, sockets, nsockets>>
    BY <1>5, UncountActiveEffect
  <2>2. r.pc = "closed" /\ th'[t] = r /\ \A u \in Threads \ {t} : th'[u] = th[u]
    BY <1>1, <2>1 DEF Thread
  <2>3. UNCHANGED <<apc, cid, nsockets, sockets>>
    BY <2>1 DEF acceptor
  <2>4. Pairs' = Pairs /\ \A u \in Threads : UsedSlots(u)' = UsedSlots(u)
    BY <2>3 DEF Pairs, UsedSlots
  <2>5. Inactive' = Inactive \ {t} /\ t \in Inactive
    BY <2>1, <2>2, ZenonT(60) DEF Inactive
  <2>6. Cardinality(Inactive') = Cardinality(Inactive) - 1
    BY <2>5, FiniteCounts, FS_RemoveElement
  <2>7. \A u \in Threads : th'[u].pc = "clear" <=> th[u].pc = "clear"
    BY <2>1, <2>2
  <2>8. active_clients' = Cardinality(Pairs') + Cardinality(Inactive') - One(apc = "count")
    BY <1>1, <2>1, <2>4, <2>6, FiniteCounts DEF Counted, One
  <2> QED
    BY <2>3, <2>4, <2>7, <2>8 DEF Counted, One
<1> QED
  BY <1>2, <1>3, <1>4, <1>5

\* The counters the acceptor balances and waits on (open_socket, close_socket)
\* agree with the slots at every step of the acceptor and of the client threads,
\* so that no thread is ever given more connections than it has slots.
THEOREM CountersAgree == Spec => []SocketsCounted
<1>1. Init => Counted
  <2> SUFFICES ASSUME Init PROVE Counted
    OBVIOUS
  <2>1. Pairs = {} /\ \A t \in Threads : UsedSlots(t) = {}
    BY DEF Init, Pairs, UsedSlots
  <2>2. Inactive = {}
    BY DEF Init, Inactive
  <2>3. Cardinality({}) = 0
    BY FS_EmptySet
  <2>4. \A t \in Threads : nsockets[t] = 0 /\ th[t].pc = "gather"
    BY DEF Init
  <2>5. active_clients = 0 /\ apc = "accept"
    BY DEF Init
  <2>6. ASSUME NEW t \in Threads
        PROVE  nsockets[t] = Cardinality(UsedSlots(t)) + One(apc = "set" /\ cid = t) - One(th[t].pc = "clear")
    <3>1. One(apc = "set" /\ cid = t) = 0
      BY <2>5 DEF One
    <3>2. One(th[t].pc = "clear") = 0
      BY <2>4 DEF One
    <3>3. Cardinality(UsedSlots(t)) = 0
      BY <2>1, <2>3
    <3> QED
      BY <2>4, <3>1, <3>2, <3>3
  <2>7. active_clients = Cardinality(Pairs) + Cardinality(Inactive) - One(apc = "count")
    BY <2>1, <2>2, <2>3, <2>5 DEF One
  <2> QED
    BY <2>6, <2>7 DEF Counted
<1>2. ServerInv /\ Counted /\ [Next]_vars => Counted'
  <2> SUFFICES ASSUME ServerInv, Counted, [Next]_vars PROVE Counted'
    OBVIOUS
  <2>1. CASE UNCHANGED vars
    BY <2>1, SameCounts DEF vars, acceptor, cdata
  <2>2. ASSUME NEW c \in Conns, client_hashserver2(c) PROVE Counted'
    <3>1. UNCHANGED <<acceptor, cdata, th>>
      BY <2>2 DEF client_hashserver2, Continue, openconn, SendPart, sendquery_, SendValue, Sent, readvalue,
                  BatchDone, ReadFails, closeconn
    <3> QED
      BY <3>1, SameCounts DEF acceptor, cdata
  <2> QED
    BY <2>1, <2>2, AcceptorKeepsCounted, ThreadKeepsCounted DEF Next, Spin
<1>3. ServerInv /\ Counted => SocketsCounted
  <2> SUFFICES ASSUME ServerInv, Counted PROVE SocketsCounted
    OBVIOUS
  <2>1. ASSUME NEW t \in Threads PROVE nsockets[t] <= MAX_SOCKETS
    <3>1. IsFiniteSet(Slots) /\ Cardinality(Slots) = MAX_SOCKETS
      BY FiniteSlots
    <3>2. UsedSlots(t) \subseteq Slots
      BY DEF UsedSlots
    <3>3. Cardinality(UsedSlots(t)) <= MAX_SOCKETS
      BY <3>1, <3>2, FS_Subset
    <3>4. CASE apc = "set" /\ cid = t
      <4>1. sid \in Slots \ UsedSlots(t)
        BY <3>4 DEF ServerInv, SlotsOK, Types, UsedSlots
      <4>2. Cardinality(UsedSlots(t)) # MAX_SOCKETS
        BY <3>1, <3>2, <4>1, FS_Subset
      <4> QED
        BY <3>3, <3>4, <4>2, FiniteCounts, ConstantFacts DEF Counted, One
    <3>5. CASE ~(apc = "set" /\ cid = t)
      BY <3>3, <3>5, FiniteCounts, ConstantFacts DEF Counted, One
    <3> QED
      BY <3>4, <3>5
  <2> QED
    BY <2>1 DEF Counted, SocketsCounted, Pairs, Inactive
<1> QED
  BY <1>1, <1>2, <1>3, ServerInvariant, PTL DEF Spec

-----------------------------------------------------------------------------
(* IovPinned: the references of a thread, from its record. *)

Column(iov, v, s) == {j \in DOMAIN iov[s] : iov[s][j].v = v}
Vectors(iov, v) == UNION {{s} \X Column(iov, v, s) : s \in Slots}
Waiting(r, v) ==
  {j \in r.k + 1..Len(r.values) : r.pc \in {"do", "handle"} /\ r.batch[j].op = "lookup" /\ r.values[j] = v}
Pinned(r) == \A v \in Keys : r.pins[v] >= Cardinality(Waiting(r, v)) + Cardinality(Vectors(r.iov, v))

\* The vectors of one slot are finitely many.
LEMMA FiniteColumn ==
  ASSUME NEW iov \in [Slots -> Seq(Unit)], NEW v, NEW s \in Slots
  PROVE  IsFiniteSet(Column(iov, v, s)) /\ Cardinality(Column(iov, v, s)) \in Nat
<1>1. IsFiniteSet(1..Len(iov[s])) /\ Column(iov, v, s) \subseteq 1..Len(iov[s])
  BY FS_Interval DEF Column
<1> QED
  BY <1>1, FS_Subset, FS_CardinalityType

\* What it is to be a vector with value v.
LEMMA VectorsMember ==
  ASSUME NEW iov, NEW v, NEW x
  PROVE  x \in Vectors(iov, v) <=> \E s \in Slots : \E j \in Column(iov, v, s) : x = <<s, j>>
BY DEF Vectors

\* The vectors are finitely many.
LEMMA FiniteVectors ==
  ASSUME NEW iov \in [Slots -> Seq(Unit)], NEW v
  PROVE  IsFiniteSet(Vectors(iov, v)) /\ Cardinality(Vectors(iov, v)) \in Nat
<1>1. PICK f : f = [s \in Slots |-> {s} \X Column(iov, v, s)]
  OBVIOUS
<1>2. PICK S : S = {{s} \X Column(iov, v, s) : s \in Slots}
  OBVIOUS
<1>3. f \in Surjection(Slots, S)
  BY <1>1, <1>2 DEF Surjection
<1>4. IsFiniteSet(S)
  BY <1>3, FS_Surjection, FiniteSlots
<1>5. ASSUME NEW T \in S PROVE IsFiniteSet(T)
  <2>1. PICK s \in Slots : T = {s} \X Column(iov, v, s)
    BY <1>2
  <2>2. IsFiniteSet({s})
    BY FS_Singleton
  <2> QED
    BY <2>1, <2>2, FiniteColumn, FS_Product
<1>6. IsFiniteSet(UNION S)
  BY <1>4, <1>5, FS_UNION
<1> QED
  BY <1>2, <1>6, FS_CardinalityType DEF Vectors

\* The values that wait to be handled are finitely many.
LEMMA FiniteWaiting ==
  ASSUME NEW r \in Thread, NEW v
  PROVE  IsFiniteSet(Waiting(r, v)) /\ Cardinality(Waiting(r, v)) \in Nat
<1>1. r.k + 1 \in Int /\ Len(r.values) \in Int
  BY DEF Thread
<1>2. IsFiniteSet(r.k + 1..Len(r.values)) /\ Waiting(r, v) \subseteq r.k + 1..Len(r.values)
  BY <1>1, FS_Interval DEF Waiting
<1> QED
  BY <1>2, FS_Subset, FS_CardinalityType

\* A step that gives up no value and waits for no more.
LEMMA PinsKept ==
  ASSUME NEW q \in Thread, NEW r \in Thread, Pinned(q), r.pins = q.pins, r.iov = q.iov,
         \A v \in Keys : Waiting(r, v) \subseteq Waiting(q, v)
  PROVE  Pinned(r)
<1>1. q.pins \in [Keys -> Int] /\ q.iov \in [Slots -> Seq(Unit)]
  BY DEF Thread
<1>2. ASSUME NEW v \in Keys PROVE r.pins[v] >= Cardinality(Waiting(r, v)) + Cardinality(Vectors(r.iov, v))
  <2>1. Cardinality(Waiting(r, v)) <= Cardinality(Waiting(q, v))
    BY FiniteWaiting, FS_Subset
  <2>2. q.pins[v] \in Int /\ q.pins[v] >= Cardinality(Waiting(q, v)) + Cardinality(Vectors(q.iov, v))
    BY <1>1 DEF Pinned
  <2>3. Cardinality(Waiting(r, v)) \in Nat /\ Cardinality(Waiting(q, v)) \in Nat /\ Cardinality(Vectors(q.iov, v)) \in Nat
    BY <1>1, FiniteWaiting, FiniteVectors
  <2> QED
    BY <2>1, <2>2, <2>3
<1> QED
  BY <1>2 DEF Pinned

\* A set with one element more.
LEMMA OneMore ==
  ASSUME NEW S, IsFiniteSet(S), NEW x
  PROVE  /\ IsFiniteSet(S \cup {x}) /\ Cardinality(S \cup {x}) \in Nat
         /\ Cardinality(S \cup {x}) <= Cardinality(S) + 1
<1>1. Cardinality(S) \in Nat
  BY FS_CardinalityType
<1>2. IsFiniteSet(S \cup {x}) /\ Cardinality(S \cup {x}) \in {Cardinality(S), Cardinality(S) + 1}
  BY FS_AddElement
<1> QED
  BY <1>1, <1>2

\* A lookup that finds its value pins it.
LEMMA PerformPins ==
  ASSUME ThreadsOK, NEW t \in Threads, NEW r \in Thread, NEW v \in Value, Performs(t, r, v), Pinned(th[t])
  PROVE  Pinned(r)
<1>1. PICK q \in Thread : q = th[t] /\ Local(q)
  BY DEF ThreadsOK
<1>2. PICK j : j = Len(q.values) + 1
  OBVIOUS
<1>3. /\ q.batch \in Seq(Query) /\ q.values \in Seq(Value) /\ q.k = 0 /\ q.pins \in [Keys -> Int] /\ q.pc = "do"
      /\ q.iov \in [Slots -> Seq(Unit)]
  BY <1>1 DEF Performs, Thread, Local
<1>4. /\ r.values = Append(q.values, v) /\ r.batch = q.batch /\ r.iov = q.iov /\ r.k = 0
      /\ r.pc \in {"do", "handle"}
      /\ r.pins = IF q.batch[j].op = "lookup" /\ v # NULL THEN [q.pins EXCEPT ![v] = @ + 1] ELSE q.pins
  BY <1>1, <1>2, <1>3 DEF Performs, Thread
<1>5. Len(r.values) = j /\ r.values[j] = v /\ j \in Nat /\ \A m \in 1..Len(q.values) : r.values[m] = q.values[m]
  BY <1>2, <1>3, <1>4
<1>6. ASSUME NEW x \in Keys, ~(q.batch[j].op = "lookup" /\ v = x)
      PROVE  Waiting(r, x) = Waiting(q, x)
  <2>1. ASSUME NEW m \in 1..j, m # j PROVE m \in 1..Len(q.values)
    BY <1>2, <1>3, <2>1
  <2>2. ASSUME NEW m \in 1..Len(q.values) PROVE m \in 1..j /\ m # j
    BY <1>2, <1>3, <2>2
  <2> QED
    BY <1>3, <1>4, <1>5, <1>6, <2>1, <2>2 DEF Waiting
<1>7. ASSUME NEW x \in Keys, q.batch[j].op = "lookup", v = x
      PROVE  Waiting(r, x) = Waiting(q, x) \cup {j}
  <2>1. ASSUME NEW m \in 1..j, m # j PROVE m \in 1..Len(q.values)
    BY <1>2, <1>3, <2>1
  <2>2. ASSUME NEW m \in 1..Len(q.values) PROVE m \in 1..j /\ m # j
    BY <1>2, <1>3, <2>2
  <2>3. j \in 1..j
    BY <1>2, <1>3
  <2> QED
    BY <1>3, <1>4, <1>5, <1>7, <2>1, <2>2, <2>3 DEF Waiting
<1>8. ASSUME NEW x \in Keys
      PROVE  r.pins[x] >= Cardinality(Waiting(r, x)) + Cardinality(Vectors(r.iov, x))
  <2>1. q.pins[x] \in Int /\ q.pins[x] >= Cardinality(Waiting(q, x)) + Cardinality(Vectors(q.iov, x))
    BY <1>1, <1>3 DEF Pinned
  <2>2. Cardinality(Waiting(q, x)) \in Nat /\ Cardinality(Vectors(q.iov, x)) \in Nat /\ IsFiniteSet(Waiting(q, x))
    BY <1>3, FiniteWaiting, FiniteVectors
  <2>3. CASE q.batch[j].op = "lookup" /\ v = x
    <3>1. Cardinality(Waiting(r, x)) <= Cardinality(Waiting(q, x)) + 1
      <4>1. Waiting(r, x) = Waiting(q, x) \cup {j}
        BY <1>7, <2>3
      <4> QED
        BY <2>2, <4>1, OneMore
    <3>2. r.pins[x] = q.pins[x] + 1
      BY <1>3, <1>4, <2>3, ConstantFacts
    <3>3. Cardinality(Waiting(r, x)) \in Nat
      BY FiniteWaiting
    <3> QED
      BY <1>4, <2>1, <2>2, <3>1, <3>2, <3>3
  <2>4. CASE ~(q.batch[j].op = "lookup" /\ v = x)
    <3>1. r.pins[x] = q.pins[x]
      BY <1>3, <1>4, <2>4
    <3> QED
      BY <1>4, <1>6, <2>1, <2>4, <3>1
  <2> QED
    BY <2>3, <2>4
<1> QED
  BY <1>8 DEF Pinned

\* Once a value is handled the thread waits for the rest of them.
LEMMA HandleWaiting ==
  ASSUME ThreadsOK, NEW t \in Threads, NEW r \in Thread, NEW iov \in [Slots -> Seq(Unit)], Handles(t, r, iov)
  PROVE  /\ r.pins = th[t].pins /\ r.iov = iov
         /\ \A v : Waiting(r, v) \subseteq Waiting(th[t], v) \ {th[t].k + 1}
<1>1. PICK q \in Thread : q = th[t]
  BY DEF ThreadsOK
<1>2. q.k \in Nat /\ q.values \in Seq(Value) /\ q.pc = "handle"
  BY <1>1 DEF Handles, Thread
<1>3. CASE q.k + 1 = Len(q.batch)
  <2>1. r.pc = "write" /\ r.pins = q.pins /\ r.iov = iov
    BY <1>1, <1>3 DEF Handles, Thread
  <2> QED
    BY <1>1, <2>1 DEF Waiting
<1>4. CASE q.k + 1 # Len(q.batch)
  <2>1. /\ r.pc = "handle" /\ r.pins = q.pins /\ r.iov = iov /\ r.k = q.k + 1
        /\ r.batch = q.batch /\ r.values = q.values
    BY <1>1, <1>2, <1>4 DEF Handles, Thread
  <2>2. \A m \in (q.k + 1) + 1..Len(q.values) : m \in q.k + 1..Len(q.values) /\ m # q.k + 1
    BY <1>2
  <2> QED
    BY <1>1, <1>2, <2>1, <2>2 DEF Waiting
<1> QED
  BY <1>3, <1>4

\* A vector is added at the end of a slot.
Adds(w, iov, s, e) == w = [iov EXCEPT ![s] = Append(iov[s], e)]

\* A vector more, in one slot.
LEMMA AppendVector ==
  ASSUME NEW iov \in [Slots -> Seq(Unit)], NEW s \in Slots, NEW e \in Unit, NEW v \in Keys, NEW w, Adds(w, iov, s, e)
  PROVE  /\ w \in [Slots -> Seq(Unit)]
         /\ Cardinality(Vectors(w, v)) <= Cardinality(Vectors(iov, v)) + One(e.v = v)
<1>1. PICK n : n = Len(iov[s]) + 1
  OBVIOUS
<1>2. /\ w \in [Slots -> Seq(Unit)] /\ DOMAIN w[s] = DOMAIN iov[s] \cup {n} /\ w[s][n] = e
      /\ \A j \in DOMAIN iov[s] : w[s][j] = iov[s][j]
      /\ \A u \in Slots \ {s} : w[u] = iov[u]
  <2>1. w \in [Slots -> Seq(Unit)] /\ w[s] = Append(iov[s], e) /\ \A u \in Slots \ {s} : w[u] = iov[u]
    BY DEF Adds
  <2>2. PICK x \in Seq(Unit) : x = iov[s]
    OBVIOUS
  <2>3. /\ Len(Append(x, e)) = Len(x) + 1 /\ Append(x, e)[Len(x) + 1] = e
        /\ \A j \in 1..Len(x) : Append(x, e)[j] = x[j]
    BY <2>2
  <2>4. DOMAIN x = 1..Len(x) /\ DOMAIN Append(x, e) = 1..(Len(x) + 1)
    BY <2>2
  <2>5. 1..(Len(x) + 1) = 1..Len(x) \cup {Len(x) + 1}
    BY <2>2
  <2> QED
    BY <1>1, <2>1, <2>2, <2>3, <2>4, <2>5
<1>3. /\ \A u \in Slots \ {s} : Column(w, v, u) = Column(iov, v, u)
      /\ Column(w, v, s) \subseteq Column(iov, v, s) \cup {n}
      /\ Column(iov, v, s) \subseteq Column(w, v, s)
      /\ e.v # v => Column(w, v, s) = Column(iov, v, s)
  BY <1>2 DEF Column
<1>4. Vectors(w, v) \subseteq Vectors(iov, v) \cup {<<s, n>>}
  <2>1. ASSUME NEW x \in Vectors(w, v) PROVE x \in Vectors(iov, v) \cup {<<s, n>>}
    <3>1. PICK u \in Slots : \E j \in Column(w, v, u) : x = <<u, j>>
      BY <2>1, VectorsMember
    <3>2. PICK j \in Column(w, v, u) : x = <<u, j>>
      BY <3>1
    <3>3. j \in Column(iov, v, u) \/ (u = s /\ j = n)
      <4>1. CASE u = s
        BY <1>3, <3>2, <4>1
      <4>2. CASE u # s
        <5>1. Column(w, v, u) = Column(iov, v, u)
          BY <1>3, <4>2
        <5> QED
          BY <3>2, <5>1
      <4> QED
        BY <4>1, <4>2
    <3> QED
      BY <3>2, <3>3, VectorsMember
  <2> QED
    BY <2>1
<1>5. e.v # v => Vectors(w, v) = Vectors(iov, v)
  BY <1>3 DEF Vectors
<1>6. IsFiniteSet(Vectors(iov, v)) /\ Cardinality(Vectors(iov, v)) \in Nat
  BY FiniteVectors
<1>7. IsFiniteSet(Vectors(iov, v) \cup {<<s, n>>}) /\ Cardinality(Vectors(iov, v) \cup {<<s, n>>}) <= Cardinality(Vectors(iov, v)) + 1
  BY <1>6, OneMore
<1>8. Cardinality(Vectors(w, v)) <= Cardinality(Vectors(iov, v) \cup {<<s, n>>})
  BY <1>4, <1>7, FS_Subset
<1>9. Cardinality(Vectors(w, v)) \in Nat /\ Cardinality(Vectors(iov, v) \cup {<<s, n>>}) \in Nat
  BY <1>2, <1>7, FiniteVectors, FS_CardinalityType
<1> QED
  BY <1>2, <1>5, <1>6, <1>7, <1>8, <1>9 DEF One

\* A value that gets a vector was pinned for it.
LEMMA HandlePins ==
  ASSUME ThreadsOK, NEW t \in Threads, NEW r \in Thread, NEW iov \in [Slots -> Seq(Unit)], Handles(t, r, iov),
         \/ iov = th[t].iov
         \/ Current(t).op = "lookup" /\ iov = [th[t].iov EXCEPT ![Current(t).sid] = Append(@, Answer(t))],
         Pinned(th[t])
  PROVE  Pinned(r)
<1>1. PICK q \in Thread : q = th[t]
  BY DEF ThreadsOK
<1>2. /\ r.pins = q.pins /\ r.iov = iov
      /\ \A v : Waiting(r, v) \subseteq Waiting(q, v) \ {q.k + 1}
  BY <1>1, HandleWaiting
<1>3. CASE iov = q.iov
  BY <1>1, <1>2, <1>3, PinsKept
<1>4. CASE Current(t).op = "lookup" /\ iov = [q.iov EXCEPT ![Current(t).sid] = Append(@, Answer(t))]
  <2>1. q.pc = "handle" /\ q.pins \in [Keys -> Int] /\ q.iov \in [Slots -> Seq(Unit)] /\ q.k \in Nat
    BY <1>1 DEF Handles, Thread
  <2>2. /\ q.k + 1 \in 1..Len(q.batch) /\ Len(q.values) = Len(q.batch)
        /\ Answer(t) \in Unit /\ Current(t).sid \in Slots
    BY <1>1, <2>1, CurrentFacts
  <2>3. PICK e \in Unit, s \in Slots : e = Answer(t) /\ s = Current(t).sid
    BY <2>2
  <2>4. Adds(iov, q.iov, s, e)
    BY <1>4, <2>3 DEF Adds
  <2>5. e.v = q.values[q.k + 1] /\ q.batch[q.k + 1].op = "lookup"
    BY <1>1, <1>4, <2>3 DEF Answer, Current
  <2>6. q.k + 1 \in q.k + 1..Len(q.values)
    BY <2>1, <2>2
  <2>7. q.k + 1 \in Waiting(q, e.v)
    BY <2>1, <2>5, <2>6 DEF Waiting
  <2>8. ASSUME NEW x \in Keys
        PROVE  r.pins[x] >= Cardinality(Waiting(r, x)) + Cardinality(Vectors(r.iov, x))
    <3>1. q.pins[x] \in Int /\ q.pins[x] >= Cardinality(Waiting(q, x)) + Cardinality(Vectors(q.iov, x))
      BY <1>1, <2>1 DEF Pinned
    <3>2. /\ Cardinality(Waiting(q, x)) \in Nat /\ Cardinality(Vectors(q.iov, x)) \in Nat
          /\ IsFiniteSet(Waiting(q, x)) /\ Cardinality(Waiting(r, x)) \in Nat
          /\ Cardinality(Vectors(iov, x)) \in Nat
      BY <2>1, FiniteWaiting, FiniteVectors
    <3>5. Cardinality(Vectors(iov, x)) <= Cardinality(Vectors(q.iov, x)) + One(e.v = x)
      BY <2>1, <2>4, AppendVector
    <3>3. CASE e.v = x
      <4>1. Cardinality(Vectors(iov, x)) <= Cardinality(Vectors(q.iov, x)) + 1
        BY <3>3, <3>5 DEF One
      <4>2. /\ IsFiniteSet(Waiting(q, x) \ {q.k + 1})
            /\ Cardinality(Waiting(q, x) \ {q.k + 1}) = Cardinality(Waiting(q, x)) - 1
        BY <2>7, <3>2, <3>3, FS_RemoveElement
      <4>3. Cardinality(Waiting(r, x)) <= Cardinality(Waiting(q, x)) - 1
        BY <1>2, <4>2, FS_Subset
      <4> QED
        BY <1>2, <3>1, <3>2, <4>1, <4>3
    <3>4. CASE e.v # x
      <4>1. Cardinality(Vectors(iov, x)) <= Cardinality(Vectors(q.iov, x))
        BY <3>2, <3>4, <3>5 DEF One
      <4>2. Waiting(r, x) \subseteq Waiting(q, x)
        BY <1>2
      <4>3. Cardinality(Waiting(r, x)) <= Cardinality(Waiting(q, x))
        BY <3>2, <4>2, FS_Subset
      <4> QED
        BY <1>2, <3>1, <3>2, <4>1, <4>3
    <3> QED
      BY <3>3, <3>4
  <2> QED
    BY <2>8 DEF Pinned
<1> QED
  BY <1>1, <1>3, <1>4

\* The vectors of slot k are replaced.
Replaces(w, iov, k, x) == w = [iov EXCEPT ![k] = x]

\* One slot is replaced, the others stay.
LEMMA ReplaceFacts ==
  ASSUME NEW iov \in [Slots -> Seq(Unit)], NEW k \in Slots, NEW x \in Seq(Unit), NEW w, Replaces(w, iov, k, x)
  PROVE  w \in [Slots -> Seq(Unit)] /\ w[k] = x /\ \A s \in Slots \ {k} : w[s] = iov[s]
BY DEF Replaces

\* The head of a slot is gone.
LEMMA TailVectors ==
  ASSUME NEW iov \in [Slots -> Seq(Unit)], NEW k \in Slots, iov[k] # <<>>, NEW w, Replaces(w, iov, k, Tail(iov[k])),
         NEW v \in Keys
  PROVE  Cardinality(Vectors(w, v)) + One(iov[k][1].v = v) <= Cardinality(Vectors(iov, v))
<1>1. PICK y \in Seq(Unit) : y = iov[k] /\ y # <<>>
  OBVIOUS
<1>2. PICK x : x = Tail(y)
  OBVIOUS
<1>3. /\ x \in Seq(Unit) /\ Len(x) = Len(y) - 1 /\ 1 \in DOMAIN y
      /\ \A j \in DOMAIN x : j + 1 \in DOMAIN y /\ j + 1 # 1 /\ x[j] = y[j + 1] /\ j \in Nat
  BY <1>1, <1>2
<1>4. w \in [Slots -> Seq(Unit)] /\ w[k] = x /\ \A s \in Slots \ {k} : w[s] = iov[s]
  <2>1. Replaces(w, iov, k, x)
    BY <1>1, <1>2
  <2> QED
    BY <1>3, <2>1, ReplaceFacts
<1>5. \A s \in Slots \ {k} : Column(w, v, s) = Column(iov, v, s)
  BY <1>4 DEF Column
<1>6. \A j \in Column(w, v, k) : j + 1 \in Column(iov, v, k) /\ j + 1 # 1 /\ j \in Nat
  BY <1>1, <1>3, <1>4 DEF Column
<1>7. PICK f : f = [p \in Vectors(w, v) |-> IF p[1] = k THEN <<p[1], p[2] + 1>> ELSE p]
  OBVIOUS
<1>8. ASSUME NEW p \in Vectors(w, v)
      PROVE  /\ f[p] \in Vectors(iov, v) \ {<<k, 1>>}
             /\ p[1] = k => p[2] \in Nat /\ p = <<k, p[2]>> /\ f[p] = <<k, p[2] + 1>>
             /\ p[1] # k => f[p] = p
             /\ f[p][1] = p[1]
  <2>1. PICK s \in Slots : \E j \in Column(w, v, s) : p = <<s, j>>
    BY <1>8, VectorsMember
  <2>2. PICK j \in Column(w, v, s) : p = <<s, j>>
    BY <2>1
  <2>3. CASE s = k
    <3>1. f[p] = <<k, j + 1>> /\ j + 1 \in Column(iov, v, k) /\ j + 1 # 1 /\ j \in Nat
      BY <1>6, <1>7, <2>2, <2>3
    <3>2. f[p] \in Vectors(iov, v) /\ f[p] # <<k, 1>>
      BY <3>1, VectorsMember
    <3>3. p[1] = k /\ p[2] = j /\ p = <<k, p[2]>> /\ f[p][1] = k
      <4>1. p = <<k, j>>
        BY <2>2, <2>3
      <4>2. p[1] = k /\ p[2] = j
        BY <4>1
      <4>3. \A m : <<k, m>>[1] = k
        OBVIOUS
      <4> QED
        BY <3>1, <4>1, <4>2, <4>3
    <3> QED
      BY <3>1, <3>2, <3>3
  <2>4. CASE s # k
    <3>1. f[p] = p /\ p # <<k, 1>> /\ p[1] # k
      BY <1>7, <2>2, <2>4
    <3>2. Column(w, v, s) = Column(iov, v, s)
      BY <1>5, <2>4
    <3>3. p \in Vectors(iov, v)
      BY <2>2, <3>2, VectorsMember
    <3> QED
      BY <3>1, <3>3
  <2> QED
    BY <2>3, <2>4
<1>9. PICK T : T = Vectors(iov, v) \ {<<k, 1>>}
  OBVIOUS
<1>10. f \in Injection(Vectors(w, v), T)
  <2>1. f \in [Vectors(w, v) -> T]
    BY <1>7, <1>8, <1>9
  <2>2. ASSUME NEW p \in Vectors(w, v), NEW q \in Vectors(w, v), f[p] = f[q] PROVE p = q
    <3>1. CASE p[1] = k
      <4>1. q[1] = k
        BY <1>8, <2>2, <3>1
      <4>2. p[2] + 1 = q[2] + 1 /\ p[2] \in Nat /\ q[2] \in Nat
        BY <1>8, <2>2, <3>1, <4>1
      <4>3. p[2] = q[2]
        BY <4>2
      <4> QED
        BY <1>8, <3>1, <4>1, <4>3
    <3>2. CASE p[1] # k
      <4>1. q[1] # k
        BY <1>8, <2>2, <3>2
      <4> QED
        BY <1>8, <2>2, <3>2, <4>1
    <3> QED
      BY <3>1, <3>2
  <2> QED
    BY <2>1, <2>2 DEF Injection, IsInjective
<1>11. IsFiniteSet(Vectors(iov, v)) /\ Cardinality(Vectors(iov, v)) \in Nat /\ Cardinality(Vectors(w, v)) \in Nat
  BY <1>4, FiniteVectors
<1>12. /\ IsFiniteSet(T)
       /\ Cardinality(T) = IF <<k, 1>> \in Vectors(iov, v) THEN Cardinality(Vectors(iov, v)) - 1 ELSE Cardinality(Vectors(iov, v))
  BY <1>9, <1>11, FS_RemoveElement
<1>13. Cardinality(Vectors(w, v)) <= Cardinality(T)
  BY <1>10, <1>12, FS_Injection
<1>14. iov[k][1].v = v => <<k, 1>> \in Vectors(iov, v)
  BY <1>1, <1>3, VectorsMember DEF Column
<1> QED
  BY <1>11, <1>12, <1>13, <1>14 DEF One

\* A unit of the head of a slot is written.
LEMMA PartVectors ==
  ASSUME NEW iov \in [Slots -> Seq(Unit)], NEW k \in Slots, NEW x \in Seq(Unit), NEW w, Replaces(w, iov, k, x),
         Len(x) = Len(iov[k]), \A j \in 1..Len(x) : x[j].v = iov[k][j].v, NEW v \in Keys
  PROVE  Cardinality(Vectors(w, v)) = Cardinality(Vectors(iov, v))
<1>1. w \in [Slots -> Seq(Unit)] /\ w[k] = x /\ \A s \in Slots \ {k} : w[s] = iov[s]
  BY ReplaceFacts
<1>2. DOMAIN x = 1..Len(x) /\ DOMAIN iov[k] = DOMAIN x
  OBVIOUS
<1>3. Column(w, v, k) = Column(iov, v, k)
  BY <1>1, <1>2 DEF Column
<1>4. ASSUME NEW s \in Slots PROVE Column(w, v, s) = Column(iov, v, s)
  BY <1>1, <1>3 DEF Column
<1>5. Vectors(w, v) = Vectors(iov, v)
  BY <1>4 DEF Vectors
<1> QED
  BY <1>5

\* All vectors of a slot are given up.
LEMMA NoVectors ==
  ASSUME NEW iov \in [Slots -> Seq(Unit)], NEW k \in Slots, NEW w, Replaces(w, iov, k, <<>>), NEW v \in Keys
  PROVE  Cardinality(Vectors(w, v)) + Cardinality(Column(iov, v, k)) <= Cardinality(Vectors(iov, v))
<1>1. <<>> \in Seq(Unit)
  OBVIOUS
<1>2. w \in [Slots -> Seq(Unit)] /\ w[k] = <<>> /\ \A s \in Slots \ {k} : w[s] = iov[s]
  BY <1>1 DEF Replaces
<1>3. Column(w, v, k) = {} /\ \A s \in Slots \ {k} : Column(w, v, s) = Column(iov, v, s)
  BY <1>2 DEF Column
<1>4. PICK C : C = Column(iov, v, k)
  OBVIOUS
<1>5. PICK P : P = {k} \X C
  OBVIOUS
<1>6. Vectors(w, v) \subseteq Vectors(iov, v)
  <2>1. ASSUME NEW p \in Vectors(w, v) PROVE p \in Vectors(iov, v)
    <3>1. PICK s \in Slots : \E j \in Column(w, v, s) : p = <<s, j>>
      BY <2>1, VectorsMember
    <3>2. s # k
      BY <1>3, <3>1
    <3>3. Column(w, v, s) = Column(iov, v, s)
      BY <1>3, <3>2
    <3> QED
      BY <3>1, <3>3, VectorsMember
  <2> QED
    BY <2>1
<1>7. P \subseteq Vectors(iov, v)
  BY <1>4, <1>5 DEF Vectors
<1>8. Vectors(w, v) \cap P = {}
  <2>1. ASSUME NEW p \in Vectors(w, v), p \in P PROVE FALSE
    <3>1. PICK s \in Slots : \E j \in Column(w, v, s) : p = <<s, j>>
      BY <2>1, VectorsMember
    <3>2. s # k
      BY <1>3, <3>1
    <3> QED
      BY <1>5, <2>1, <3>1, <3>2
  <2> QED
    BY <2>1
<1>9. IsFiniteSet(C) /\ Cardinality(C) \in Nat
  BY <1>4, FiniteColumn
<1>10. IsFiniteSet(P) /\ Cardinality(P) = Cardinality(C)
  <2>1. PICK f : f = [j \in C |-> <<k, j>>]
    OBVIOUS
  <2>2. f \in [C -> P] /\ \A p \in P : \E j \in C : f[j] = p
    BY <1>5, <2>1
  <2>3. ASSUME NEW i \in C, NEW j \in C, f[i] = f[j] PROVE i = j
    <3>1. <<k, i>> = <<k, j>>
      BY <2>1, <2>3
    <3> QED
      BY <3>1
  <2>4. f \in Bijection(C, P)
    BY <2>2, <2>3 DEF Bijection, Injection, Surjection, IsInjective
  <2> QED
    BY <1>9, <2>4, FS_Bijection DEF ExistsBijection
<1>11. /\ IsFiniteSet(Vectors(iov, v)) /\ Cardinality(Vectors(iov, v)) \in Nat
       /\ IsFiniteSet(Vectors(w, v)) /\ Cardinality(Vectors(w, v)) \in Nat
  BY <1>2, FiniteVectors
<1>12. Cardinality({}) = 0
  BY FS_EmptySet
<1>13. Cardinality(Vectors(w, v) \cup P) = Cardinality(Vectors(w, v)) + Cardinality(P) - 0
  BY <1>8, <1>10, <1>11, <1>12, FS_Union
<1>14. Cardinality(Vectors(w, v) \cup P) <= Cardinality(Vectors(iov, v))
  <2>1. Vectors(w, v) \cup P \in SUBSET Vectors(iov, v)
    BY <1>6, <1>7
  <2> QED
    BY <1>11, <2>1, FS_Subset
<1> QED
  BY <1>4, <1>9, <1>10, <1>11, <1>13, <1>14

\* A thread that writes waits for nothing.
LEMMA WritingWaits ==
  ASSUME NEW r \in Thread, r.pc \notin {"do", "handle"}, NEW v
  PROVE  Waiting(r, v) = {} /\ Cardinality(Waiting(r, v)) = 0
<1>1. Waiting(r, v) = {}
  BY DEF Waiting
<1> QED
  BY <1>1, FS_EmptySet

\* Writing keeps values pinned if it unpins no more than it takes off the
\* vectors.
LEMMA WritePins ==
  ASSUME NEW q \in Thread, NEW r \in Thread, q.pc = "write", r.pc = "write", Pinned(q),
         \A v \in Keys : Cardinality(Vectors(r.iov, v)) - r.pins[v] <= Cardinality(Vectors(q.iov, v)) - q.pins[v]
  PROVE  Pinned(r)
<1>1. ASSUME NEW v \in Keys PROVE r.pins[v] >= Cardinality(Waiting(r, v)) + Cardinality(Vectors(r.iov, v))
  <2>1. q.pins[v] \in Int /\ r.pins[v] \in Int /\ q.iov \in [Slots -> Seq(Unit)] /\ r.iov \in [Slots -> Seq(Unit)]
    BY DEF Thread
  <2>2. Cardinality(Vectors(r.iov, v)) \in Nat /\ Cardinality(Vectors(q.iov, v)) \in Nat
    BY <2>1, FiniteVectors
  <2>3. Cardinality(Waiting(r, v)) = 0 /\ Cardinality(Waiting(q, v)) = 0
    BY WritingWaits
  <2>4. q.pins[v] >= Cardinality(Waiting(q, v)) + Cardinality(Vectors(q.iov, v))
    BY DEF Pinned
  <2> QED
    BY <2>1, <2>2, <2>3, <2>4
<1> QED
  BY <1>1 DEF Pinned

\* A value is unpinned when its last unit is written.
LEMMA WriteUnitPins ==
  ASSUME ThreadsOK, NEW t \in Threads, NEW r \in Thread, NEW k \in Slots, NEW e \in Unit, NEW c,
         WritesUnit(t, r, k, e, c), Pinned(th[t])
  PROVE  Pinned(r)
<1>1. PICK q \in Thread : q = th[t]
  BY DEF ThreadsOK
<1>2. q.pins \in [Keys -> Int] /\ q.iov \in [Slots -> Seq(Unit)] /\ q.pc = "write" /\ q.iov[k] # <<>> /\ e = q.iov[k][1]
  BY <1>1 DEF WritesUnit, Thread
<1>3. CASE r = [q EXCEPT !.iov = [q.iov EXCEPT ![k] = Tail(q.iov[k])], !.pins = Unpinned(q.pins, <<e>>)]
  <2>1. /\ r.pc = "write" /\ Replaces(r.iov, q.iov, k, Tail(q.iov[k])) /\ r.pins = Unpinned(q.pins, <<e>>)
    BY <1>2, <1>3 DEF Thread, Replaces
  <2>2. ASSUME NEW v \in Keys
        PROVE  Cardinality(Vectors(r.iov, v)) - r.pins[v] <= Cardinality(Vectors(q.iov, v)) - q.pins[v]
    <3>1. Cardinality(Vectors(r.iov, v)) + One(e.v = v) <= Cardinality(Vectors(q.iov, v))
      BY <1>2, <2>1, TailVectors
    <3>2. Cardinality({j \in DOMAIN <<e>> : <<e>>[j].v = v}) = One(e.v = v)
      <4>1. CASE e.v = v
        <5>1. {j \in DOMAIN <<e>> : <<e>>[j].v = v} = {1}
          BY <4>1
        <5> QED
          BY <4>1, <5>1, FS_Singleton DEF One
      <4>2. CASE e.v # v
        <5>1. {j \in DOMAIN <<e>> : <<e>>[j].v = v} = {}
          BY <4>2
        <5> QED
          BY <4>2, <5>1, FS_EmptySet DEF One
      <4> QED
        BY <4>1, <4>2
    <3>3. r.pins[v] = q.pins[v] - One(e.v = v)
      BY <2>1, <3>2 DEF Unpinned
    <3>4. /\ Cardinality(Vectors(r.iov, v)) \in Nat /\ Cardinality(Vectors(q.iov, v)) \in Nat
          /\ q.pins[v] \in Int /\ One(e.v = v) \in Nat
      BY <1>2, FiniteVectors DEF One, Thread
    <3> QED
      BY <3>1, <3>3, <3>4
  <2> QED
    BY <1>1, <1>2, <2>1, <2>2, WritePins
<1>4. CASE r = [q EXCEPT !.iov = [q.iov EXCEPT ![k] = [q.iov[k] EXCEPT ![1] = More(e)]]]
  <2>1. PICK x : x = [q.iov[k] EXCEPT ![1] = More(e)]
    OBVIOUS
  <2>2. /\ x \in Seq(Unit) /\ Len(x) = Len(q.iov[k]) /\ x[1] = More(e)
        /\ \A j \in 2..Len(x) : x[j] = q.iov[k][j]
    BY <1>2, <2>1, MoreType
  <2>3. ASSUME NEW j \in 1..Len(x) PROVE x[j].v = q.iov[k][j].v
    <3>1. CASE j = 1
      BY <1>2, <2>2, <3>1 DEF More
    <3>2. CASE j # 1
      BY <2>2, <3>2
    <3> QED
      BY <3>1, <3>2
  <2>4. r.pc = "write" /\ Replaces(r.iov, q.iov, k, x) /\ r.pins = q.pins
    BY <1>2, <1>4, <2>1 DEF Thread, Replaces
  <2>5. ASSUME NEW v \in Keys
        PROVE  Cardinality(Vectors(r.iov, v)) - r.pins[v] <= Cardinality(Vectors(q.iov, v)) - q.pins[v]
    <3>1. Cardinality(Vectors(r.iov, v)) = Cardinality(Vectors(q.iov, v))
      BY <1>2, <2>2, <2>3, <2>4, PartVectors
    <3>2. Cardinality(Vectors(q.iov, v)) \in Nat /\ q.pins[v] \in Int
      BY <1>2, FiniteVectors
    <3> QED
      BY <2>4, <3>1, <3>2
  <2> QED
    BY <1>1, <1>2, <2>4, <2>5, WritePins
<1> QED
  BY <1>1, <1>3, <1>4 DEF WritesUnit

\* The vectors that are given up are unpinned.
LEMMA WriteErrorPins ==
  ASSUME ThreadsOK, NEW t \in Threads, NEW r \in Thread, NEW k \in Slots, WritesNothing(t, r, k), Pinned(th[t])
  PROVE  Pinned(r)
<1>1. PICK q \in Thread : q = th[t]
  BY DEF ThreadsOK
<1>2. q.pins \in [Keys -> Int] /\ q.iov \in [Slots -> Seq(Unit)] /\ q.pc = "write"
  BY <1>1 DEF WritesNothing, Thread
<1>3. r.pc = "write" /\ Replaces(r.iov, q.iov, k, <<>>) /\ r.pins = Unpinned(q.pins, q.iov[k])
  BY <1>1, <1>2 DEF WritesNothing, Thread, Replaces
<1>4. ASSUME NEW v \in Keys
      PROVE  Cardinality(Vectors(r.iov, v)) - r.pins[v] <= Cardinality(Vectors(q.iov, v)) - q.pins[v]
  <2>1. Cardinality(Vectors(r.iov, v)) + Cardinality(Column(q.iov, v, k)) <= Cardinality(Vectors(q.iov, v))
    BY <1>2, <1>3, NoVectors
  <2>2. r.pins[v] = q.pins[v] - Cardinality(Column(q.iov, v, k))
    BY <1>3 DEF Unpinned, Column
  <2>3. r.iov \in [Slots -> Seq(Unit)] /\ q.pins[v] \in Int
    BY <1>2 DEF Thread
  <2>4. /\ Cardinality(Vectors(r.iov, v)) \in Nat /\ Cardinality(Vectors(q.iov, v)) \in Nat
        /\ Cardinality(Column(q.iov, v, k)) \in Nat
    BY <1>2, <2>3, FiniteVectors, FiniteColumn
  <2> QED
    BY <2>1, <2>2, <2>3, <2>4
<1> QED
  BY <1>1, <1>2, <1>3, <1>4, WritePins

\* Gathering holds no values.
LEMMA GatherPins ==
  ASSUME ThreadsOK, NEW t \in Threads, NEW r \in Thread, Gathers(t, r), Pinned(th[t])
  PROVE  Pinned(r)
<1>1. PICK q \in Thread : q = th[t] /\ Local(q)
  BY DEF ThreadsOK
<1>2. Local(r) /\ q.pc \notin {"do", "handle", "write"}
  BY <1>1 DEF Gathers, Moves, Breaks, Reads
<1>3. r.pins = q.pins /\ r.iov = q.iov /\ r.values = q.values /\ r.k = q.k
  BY <1>1, ZenonT(60) DEF Gathers, Moves, Breaks, Reads, ReadsQuery, ReadsValue, Thread
<1>4. q.values = <<>> /\ q.k = 0
  BY <1>1, <1>2, Gathering
<1>5. \A v \in Keys : Waiting(r, v) = {}
  BY <1>3, <1>4 DEF Waiting
<1> QED
  BY <1>1, <1>3, <1>5, PinsKept

\* Closing holds no values.
LEMMA ClosePins ==
  ASSUME ThreadsOK, NEW t \in Threads, NEW r \in Thread, NEW l \in Label, r = [th[t] EXCEPT !.pc = l],
         l \notin {"do", "handle"}, Pinned(th[t])
  PROVE  Pinned(r)
<1>1. PICK q \in Thread : q = th[t]
  BY DEF ThreadsOK
<1>2. r.pins = q.pins /\ r.iov = q.iov /\ r.pc = l
  BY <1>1 DEF Thread
<1>3. \A v \in Keys : Waiting(r, v) = {}
  BY <1>2 DEF Waiting
<1> QED
  BY <1>1, <1>2, <1>3, PinsKept

\* Every step of clientgo keeps the values of its vectors pinned.
LEMMA ThreadKeepsPinned ==
  ASSUME ServerInv, NEW t \in Threads, clientgo(t), \A u \in Threads : Pinned(th[u])
  PROVE  \A u \in Threads : Pinned(th'[u])
<1>1. th \in [Threads -> Thread] /\ ThreadsOK /\ th[t] \in Thread /\ Pinned(th[t])
  BY DEF ServerInv, ThreadsOK
<1>2. ASSUME NEW r \in Thread, th' = [th EXCEPT ![t] = r], Pinned(r)
      PROVE  \A u \in Threads : Pinned(th'[u])
  <2>1. \A u \in Threads : th'[u] = IF u = t THEN r ELSE th[u]
    BY <1>1, <1>2
  <2> QED
    BY <1>2, <2>1
<1>3. CASE Gather(t) \/ ReadRest(t) \/ ReadValue(t) \/ EndGather(t) \/ AfterClose(t)
  <2>1. PICK r \in Thread : Gathers(t, r)
    BY <1>3, GatherEffect, AfterCloseEffect
  <2>2. th' = [th EXCEPT ![t] = r]
    BY <2>1 DEF Gathers
  <2> QED
    BY <1>1, <1>2, <2>1, <2>2, GatherPins
<1>4. CASE Fclose(t) \/ Close(t) \/ UncountSocket(t) \/ ClearSlot(t) \/ UncountActive(t)
  <2>1. PICK r \in Thread, l \in {"close", "uncount", "clear", "inactive", "closed"} :
          r = [th[t] EXCEPT !.pc = l] /\ th' = [th EXCEPT ![t] = r]
    BY <1>4, FcloseEffect, CloseEffect, UncountSocketEffect, ClearSlotEffect, UncountActiveEffect
  <2>2. l \in Label
    BY DEF Label, Closing
  <2>3. Pinned(r)
    BY <1>1, <2>1, <2>2, ClosePins
  <2> QED
    BY <1>2, <2>1, <2>3
<1>5. CASE doqueries(t)
  <2>1. PICK r \in Thread, v \in Value : th' = [th EXCEPT ![t] = r] /\ Performs(t, r, v)
    BY <1>5, PerformEffect
  <2> QED
    BY <1>1, <1>2, <2>1, PerformPins
<1>6. CASE HandleLookup(t)
  <2>1. PICK r \in Thread, iov \in [Slots -> Seq(Unit)] :
           /\ th' = [th EXCEPT ![t] = r] /\ Handles(t, r, iov) /\ Current(t).op = "lookup"
           /\ iov = IF sockets[t][Current(t).sid] = Current(t).socket
                      THEN [th[t].iov EXCEPT ![Current(t).sid] = Append(@, Answer(t))] ELSE th[t].iov
    BY <1>6, HandleLookupEffect
  <2>2. \/ iov = th[t].iov
        \/ Current(t).op = "lookup" /\ iov = [th[t].iov EXCEPT ![Current(t).sid] = Append(@, Answer(t))]
    BY <2>1
  <2>3. Pinned(r)
    BY <1>1, <2>1, <2>2, HandlePins
  <2> QED
    BY <1>2, <2>1, <2>3
<1>7. CASE HandleInsert(t)
  <2>1. PICK r \in Thread : th' = [th EXCEPT ![t] = r] /\ Handles(t, r, th[t].iov)
    BY <1>7, HandleInsertEffect
  <2>2. PICK iov \in [Slots -> Seq(Unit)] : iov = th[t].iov
    BY <1>1 DEF Thread
  <2>3. Pinned(r)
    BY <1>1, <2>1, <2>2, HandlePins
  <2> QED
    BY <1>2, <2>1, <2>3
<1>8. CASE write_iovs(t) /\ WriteUnit(t)
  <2>1. PICK r \in Thread, k \in Slots, e \in Unit, c \in Conns :
           th' = [th EXCEPT ![t] = r] /\ WritesUnit(t, r, k, e, c)
    BY <1>8, WriteUnitEffect DEF write_iovs
  <2> QED
    BY <1>1, <1>2, <2>1, WriteUnitPins
<1>9. CASE write_iovs(t) /\ WriteError(t)
  <2>1. PICK r \in Thread, k \in Slots : th' = [th EXCEPT ![t] = r] /\ WritesNothing(t, r, k)
    BY <1>9, WriteErrorEffect DEF write_iovs
  <2> QED
    BY <1>1, <1>2, <2>1, WriteErrorPins
<1>10. CASE WriteNext(t)
  <2>1. PICK r \in Thread : th' = [th EXCEPT ![t] = r] /\ WritesNext(t, r)
    BY <1>10, WriteNextEffect
  <2>2. r.pins = th[t].pins /\ r.iov = th[t].iov /\ r.pc \notin {"do", "handle"}
    BY <1>1, <2>1 DEF WritesNext, Thread
  <2>3. \A v \in Keys : Waiting(r, v) = {}
    BY <2>2 DEF Waiting
  <2>4. Pinned(r)
    BY <1>1, <2>2, <2>3, PinsKept
  <2> QED
    BY <1>2, <2>1, <2>4
<1> QED
  BY <1>3, <1>4, <1>5, <1>6, <1>7, <1>8, <1>9, <1>10 DEF clientgo, close_socket, write_iovs

\* write_iovs never releases a value that a vector still has to write, and never
\* one twice: at every step, a short write included, each key has at least as
\* many pins as the thread has references to its value.
THEOREM ValuesPinned == Spec => []IovPinned
<1> DEFINE AllPinned == \A t \in Threads : Pinned(th[t])
<1>1. Init => AllPinned
  <2> SUFFICES ASSUME Init, NEW t \in Threads PROVE Pinned(th[t])
    OBVIOUS
  <2>1. th[t] \in Thread
    BY InitServerInv DEF ServerInv, ThreadsOK
  <2>2. /\ th[t].pc = "gather" /\ (\A s \in Slots : th[t].iov[s] = <<>>) /\ \A v \in Keys : th[t].pins[v] = 0
    BY DEF Init
  <2>3. ASSUME NEW v \in Keys PROVE Vectors(th[t].iov, v) = {} /\ Waiting(th[t], v) = {}
    BY <2>2 DEF Vectors, Column, Waiting
  <2>4. Cardinality({}) = 0
    BY FS_EmptySet
  <2>5. ASSUME NEW v \in Keys
        PROVE  th[t].pins[v] >= Cardinality(Waiting(th[t], v)) + Cardinality(Vectors(th[t].iov, v))
    <3>1. Cardinality(Waiting(th[t], v)) = 0 /\ Cardinality(Vectors(th[t].iov, v)) = 0
      BY <2>3, <2>4
    <3>2. th[t].pins[v] = 0
      BY <2>2
    <3> QED
      BY <3>1, <3>2
  <2> QED
    BY <2>5 DEF Pinned
<1>2. ServerInv /\ AllPinned /\ [Next]_vars => AllPinned'
  <2> SUFFICES ASSUME ServerInv, AllPinned, [Next]_vars PROVE AllPinned'
    OBVIOUS
  <2>1. AllPinned' <=> \A t \in Threads : Pinned(th'[t])
    BY DEF Pinned, Waiting
  <2>2. CASE th' = th
    BY <2>1, <2>2
  <2>3. ASSUME NEW t \in Threads, clientgo(t) PROVE AllPinned'
    BY <2>1, <2>3, ThreadKeepsPinned
  <2>4. ASSUME NEW c \in Conns, client_hashserver2(c) PROVE th' = th
    BY <2>4 DEF client_hashserver2, Continue, openconn, SendPart, sendquery_, SendValue, Sent, readvalue,
                BatchDone, ReadFails, closeconn
  <2>5. ASSUME tcpserver PROVE th' = th
    BY <2>5 DEF tcpserver, Accept, Choose, WaitForRoom, open_socket, SetSocket, CountActive
  <2>6. ASSUME UNCHANGED vars PROVE th' = th
    BY <2>6 DEF vars
  <2> QED
    BY <2>2, <2>3, <2>4, <2>5, <2>6 DEF Next, Spin
<1>3. AllPinned => IovPinned
  <2> SUFFICES ASSUME AllPinned, NEW t \in Threads, NEW v \in Keys PROVE th[t].pins[v] >= References(t, v)
    BY DEF IovPinned
  <2>1. References(t, v) = Cardinality(Waiting(th[t], v)) + Cardinality(Vectors(th[t].iov, v))
    BY DEF References, Waiting, Vectors, Column
  <2> QED
    BY <2>1 DEF Pinned
<1> QED
  BY <1>1, <1>2, <1>3, ServerInvariant, PTL DEF Spec

-----------------------------------------------------------------------------
(* Descriptors, as long as none has been confused with another. *)

Opening == apc \in {"choose", "wait", "open", "set"}

\* A slot that is held has a live descriptor of its own, and so has the acceptor
\* until the slot it opens has it.
Own ==
  /\ \A t \in Threads, k \in Slots : Held(t, k) => fdt[sockets[t][k]] # NULL
  /\ \A t, u \in Threads : \A k, l \in Slots :
       Held(t, k) /\ Held(u, l) /\ sockets[t][k] = sockets[u][l] => t = u /\ k = l
  /\ Opening => fdt[s1] # NULL /\ \A t \in Threads, k \in Slots : Held(t, k) => sockets[t][k] # s1

\* Slot k of thread t holds connection c.
Serves(t, k, c) == Held(t, k) /\ fdt[sockets[t][k]] = c

\* A connection is served by one slot.
LEMMA ServesUnique ==
  ASSUME ServerInv, Own, NEW t \in Threads, NEW u \in Threads, NEW k \in Slots, NEW l \in Slots, NEW c \in Conns,
         Serves(t, k, c), Serves(u, l, c)
  PROVE  t = u /\ k = l
<1>1. sockets[t][k] \in Fds /\ sockets[u][l] \in Fds
  BY HeldFacts DEF Serves
<1>2. sockets[t][k] = sockets[u][l]
  <2>1. fdt[sockets[t][k]] = c /\ fdt[sockets[u][l]] = c /\ c # NULL
    BY ConstantFacts DEF Serves
  <2>2. \A f, g \in Fds : fdt[f] = fdt[g] /\ fdt[f] # NULL => f = g
    BY DEF ServerInv, KernelOK
  <2> QED
    BY <1>1, <2>1, <2>2
<1> QED
  BY <1>2 DEF Own, Serves

\* A slot that is held serves a connection, which is connected and was opened.
LEMMA ServesFacts ==
  ASSUME ServerInv, Own, NEW t \in Threads, NEW k \in Slots, Held(t, k)
  PROVE  \E c \in Conns : /\ c = fdt[sockets[t][k]] /\ Serves(t, k, c) /\ ConnOf(fin[t][k]) = c
                          /\ Connected(c) /\ c \notin backlog /\ peer[c] # "new" /\ sockets[t][k] \in Fds
<1>1. PICK c : c = fdt[sockets[t][k]]
  OBVIOUS
<1>2. sockets[t][k] \in Fds /\ ConnOf(fin[t][k]) = c /\ c \in Conns \cup {NULL}
  BY <1>1, HeldFacts
<1>3. c # NULL
  BY <1>1 DEF Own
<1>4. Connected(c) /\ c \in Conns
  BY <1>1, <1>2, <1>3 DEF Connected
<1>5. c \notin backlog /\ peer[c] # "new"
  BY <1>1, <1>2, <1>4 DEF ServerInv, KernelOK
<1> QED
  BY <1>1, <1>2, <1>4, <1>5 DEF Serves

\* Confusion is not undone.
LEMMA MixedStays ==
  ASSUME [Next]_vars, ~mixed'
  PROVE  ~mixed
BY ZenonT(60) DEF Next, Spin, vars, client_hashserver2, Continue, openconn, SendPart, sendquery_, SendValue, Sent, readvalue,
       BatchDone, ReadFails, closeconn, tcpserver, Accept, Choose, WaitForRoom, open_socket, SetSocket, CountActive,
       clientgo, close_socket, Gather, ReadRest, ReadValue, EndGather, Fclose, Close, UncountSocket, ClearSlot,
       UncountActive, AfterClose, doqueries, HandleLookup, HandleInsert, write_iovs, WriteNext

\* What is held and by which descriptor.
SameHeld ==
  \A u \in Threads, k \in Slots : (Held(u, k)' <=> Held(u, k)) /\ (Held(u, k) => sockets'[u][k] = sockets[u][k])

\* A thread that neither begins nor ends a close leaves the slots held that were.
LEMMA HeldByOthers ==
  ASSUME ThreadsOK, NEW t \in Threads, NEW r \in Thread, th' = [th EXCEPT ![t] = r], sockets' = sockets,
         \/ th[t].pc \notin Closing /\ r.pc \notin Closing
         \/ th[t].pc \in Closing /\ r.pc \in Closing /\ r.i = th[t].i
  PROVE  SameHeld
<1>1. th'[t] = r /\ \A u \in Threads \ {t} : th'[u] = th[u]
  BY DEF ThreadsOK
<1>2. ASSUME NEW u \in Threads, NEW k \in Slots PROVE Held(u, k)' <=> Held(u, k)
  <2>1. CASE u = t
    BY <1>1, <2>1 DEF Held
  <2>2. CASE u # t
    BY <1>1, <2>2 DEF Held
  <2> QED
    BY <2>1, <2>2
<1> QED
  BY <1>2 DEF SameHeld

\* Gathering leaves the slots held that were.
LEMMA GatherHeld ==
  ASSUME ThreadsOK, NEW t \in Threads, NEW r \in Thread, Gathers(t, r)
  PROVE  SameHeld /\ UNCHANGED <<fdt, backlog, acceptor, tx, peers>>
<1>1. th' = [th EXCEPT ![t] = r] /\ sockets' = sockets /\ th[t] \in Thread
  BY DEF Gathers, cdata, ThreadsOK
<1>2. th[t].pc \notin Closing
  BY DEF Gathers, Moves, Breaks, Reads, Closing
<1>3. r.pc \notin Closing
  BY <1>1, ZenonT(60) DEF Gathers, Moves, Breaks, Reads, ReadsQuery, ReadsValue, Closing, Thread
<1> QED
  BY <1>1, <1>2, <1>3, HeldByOthers DEF Gathers

\* Of the steps of a client thread only fclose lets go of a descriptor.
LEMMA QuietStep ==
  ASSUME ServerInv, NEW t \in Threads, clientgo(t), ~Fclose(t), ~mixed'
  PROVE  SameHeld /\ UNCHANGED <<fdt, backlog, acceptor>>
<1>1. th \in [Threads -> Thread] /\ ThreadsOK /\ th[t] \in Thread /\ th[t].i \in Slots
  BY DEF ServerInv, ThreadsOK, Thread
<1>2. CASE Gather(t) \/ ReadRest(t) \/ ReadValue(t) \/ EndGather(t) \/ AfterClose(t)
  <2>1. PICK r \in Thread : Gathers(t, r)
    BY <1>2, GatherEffect, AfterCloseEffect
  <2> QED
    BY <1>1, <2>1, GatherHeld
<1>3. CASE Close(t)
  <2>1. PICK r \in Thread, f \in Fds :
           /\ r = [th[t] EXCEPT !.pc = "uncount"] /\ th' = [th EXCEPT ![t] = r]
           /\ th[t].pc = "close"
           /\ fdt' = [fdt EXCEPT ![f] = NULL] /\ mixed' = (mixed \/ fdt[f] # NULL)
           /\ UNCHANGED <<rx, tx, backlog, peers, acceptor, cdata, ready>>
    BY <1>3, CloseEffect
  <2>2. r.pc = "uncount" /\ r.i = th[t].i
    BY <1>1, <2>1 DEF Thread
  <2>3. fdt[f] = NULL
    BY <2>1
  <2>4. fdt' = fdt
    BY <2>1, <2>3 DEF ServerInv, Types
  <2> QED
    BY <1>1, <2>1, <2>2, <2>4, HeldByOthers DEF Closing, cdata
<1>4. CASE UncountSocket(t)
  <2>1. PICK r \in Thread :
           /\ r = [th[t] EXCEPT !.pc = "clear"] /\ th' = [th EXCEPT ![t] = r] /\ th[t].pc = "uncount"
           /\ UNCHANGED <<kernel, acceptor, sockets>>
    BY <1>4, UncountSocketEffect
  <2>2. r.pc = "clear" /\ r.i = th[t].i
    BY <1>1, <2>1 DEF Thread
  <2> QED
    BY <1>1, <2>1, <2>2, HeldByOthers DEF Closing, kernel
<1>5. CASE ClearSlot(t)
  <2>1. PICK r \in Thread :
           /\ r = [th[t] EXCEPT !.pc = "inactive"] /\ th' = [th EXCEPT ![t] = r]
           /\ th[t].pc = "clear" /\ sockets' = [sockets EXCEPT ![t][th[t].i] = -1]
           /\ UNCHANGED <<kernel, acceptor>>
    BY <1>5, ClearSlotEffect
  <2>2. r.pc = "inactive" /\ r.i = th[t].i /\ th'[t] = r /\ \A u \in Threads \ {t} : th'[u] = th[u]
    BY <1>1, <2>1 DEF Thread
  <2>3. /\ \A u \in Threads \ {t} : sockets'[u] = sockets[u]
        /\ \A k \in Slots \ {th[t].i} : sockets'[t][k] = sockets[t][k]
        /\ sockets'[t][th[t].i] = -1
    BY <1>1, <2>1 DEF ServerInv, Types
  <2>4. ASSUME NEW u \in Threads, NEW k \in Slots
        PROVE  (Held(u, k)' <=> Held(u, k)) /\ (Held(u, k) => sockets'[u][k] = sockets[u][k])
    <3>1. CASE u # t
      BY <2>2, <2>3, <3>1 DEF Held
    <3>2. CASE u = t /\ k # th[t].i
      BY <2>2, <2>3, <3>2 DEF Held
    <3>3. CASE u = t /\ k = th[t].i
      BY <2>1, <2>3, <3>3 DEF Held, Closing
    <3> QED
      BY <3>1, <3>2, <3>3
  <2> QED
    BY <2>1, <2>4 DEF SameHeld, kernel
<1>6. CASE UncountActive(t)
  <2>1. PICK r \in Thread :
           /\ r = [th[t] EXCEPT !.pc = "closed"] /\ th' = [th EXCEPT ![t] = r] /\ th[t].pc = "inactive"
           /\ UNCHANGED <<kernel, acceptor, sockets>>
    BY <1>6, UncountActiveEffect
  <2>2. r.pc = "closed"
    BY <1>1, <2>1 DEF Thread
  <2> QED
    BY <1>1, <2>1, <2>2, HeldByOthers DEF Closing, kernel
<1>7. CASE doqueries(t) \/ HandleLookup(t) \/ HandleInsert(t) \/ write_iovs(t) \/ WriteNext(t)
  <2>1. UNCHANGED <<fdt, backlog, acceptor, sockets>>
    BY <1>7 DEF doqueries, HandleLookup, HandleInsert, write_iovs, WriteNext, kernel, cdata
  <2>2. PICK r \in Thread : th' = [th EXCEPT ![t] = r] /\ th[t].pc \notin Closing /\ r.pc \notin Closing
    BY <1>7, BatchStep
  <2> QED
    BY <1>1, <2>1, <2>2, HeldByOthers
<1> QED
  BY <1>2, <1>3, <1>4, <1>5, <1>6, <1>7 DEF clientgo, close_socket

\* fclose lets go of the slot of its thread.
LEMMA FcloseHeld ==
  ASSUME ServerInv, NEW t \in Threads, Fclose(t)
  PROVE  /\ \A u \in Threads, k \in Slots : Held(u, k)' <=> Held(u, k) /\ ~(u = t /\ k = th[t].i)
         /\ sockets' = sockets
<1>1. PICK r \in Thread :
        /\ r = [th[t] EXCEPT !.pc = "close"] /\ th' = [th EXCEPT ![t] = r]
        /\ th[t].pc = "fclose" /\ sockets' = sockets
  BY FcloseEffect
<1>2. th \in [Threads -> Thread] /\ th[t] \in Thread
  BY DEF ServerInv, ThreadsOK
<1>3. r.pc = "close" /\ r.i = th[t].i /\ th'[t] = r /\ \A u \in Threads \ {t} : th'[u] = th[u]
  BY <1>1, <1>2 DEF Thread
<1>4. ASSUME NEW u \in Threads, NEW k \in Slots PROVE Held(u, k)' <=> Held(u, k) /\ ~(u = t /\ k = th[t].i)
  <2>1. CASE u = t
    BY <1>1, <1>3, <2>1 DEF Held, Closing
  <2>2. CASE u # t
    BY <1>1, <1>3, <2>2 DEF Held
  <2> QED
    BY <2>1, <2>2
<1> QED
  BY <1>1, <1>4

\* The acceptor gives a slot its descriptor.
LEMMA SetSocketHeld ==
  ASSUME ServerInv, SetSocket
  PROVE  /\ \A u \in Threads, k \in Slots : /\ Held(u, k)' <=> Held(u, k) \/ (u = cid /\ k = sid)
                                            /\ Held(u, k) => sockets'[u][k] = sockets[u][k]
         /\ sid \in Slots /\ cid \in Threads /\ s1 \in Fds /\ ~Held(cid, sid) /\ sockets'[cid][sid] = s1
         /\ Opening /\ ~Opening' /\ UNCHANGED <<kernel, peers, th, s1, cid, sid, mixed>>
         /\ \A u \in Threads : th[u].pc \in {"rest", "value", "fclose"} \cup Closing => ~(u = cid /\ th[u].i = sid)
<1>1. /\ sid \in Slots /\ s1 \in Fds /\ sockets[cid][sid] = -1 /\ sockets' = [sockets EXCEPT ![cid][sid] = s1]
      /\ UNCHANGED <<kernel, peers, th, s1, cid, sid, mixed>> /\ apc = "set" /\ apc' = "count" /\ cid \in Threads
      /\ sockets \in [Threads -> [Slots -> {-1} \cup Fds]]
  BY DEF SetSocket, ServerInv, Types, SlotsOK
<1>2. \A u \in Threads : th[u].pc \in {"rest", "value", "fclose"} \cup Closing => ~(u = cid /\ th[u].i = sid)
  BY <1>1 DEF ServerInv, SlotsOK
<1>3. \A u \in Threads, k \in Slots : sockets'[u][k] = IF u = cid /\ k = sid THEN s1 ELSE sockets[u][k]
  BY <1>1
<1>4. ASSUME NEW u \in Threads, NEW k \in Slots
      PROVE  (Held(u, k)' <=> Held(u, k) \/ (u = cid /\ k = sid)) /\ (Held(u, k) => sockets'[u][k] = sockets[u][k])
  <2>1. CASE u = cid /\ k = sid
    BY <1>1, <1>2, <1>3, <2>1, ConstantFacts DEF Held
  <2>2. CASE ~(u = cid /\ k = sid)
    BY <1>1, <1>3, <2>2 DEF Held
  <2> QED
    BY <2>1, <2>2
<1> QED
  BY <1>1, <1>2, <1>3, <1>4 DEF Held, Opening

\* Own is about who holds which descriptor.
LEMMA SameOwn ==
  ASSUME Own, SameHeld, fdt' = fdt, Opening' => Opening /\ s1' = s1
  PROVE  Own'
<1>1. ASSUME NEW t \in Threads, NEW k \in Slots, Held(t, k)'
      PROVE  Held(t, k) /\ sockets'[t][k] = sockets[t][k]
  BY <1>1 DEF SameHeld
<1>2. \A t \in Threads, k \in Slots : Held(t, k)' => fdt'[sockets'[t][k]] # NULL
  BY <1>1 DEF Own
<1>3. \A t, u \in Threads : \A k, l \in Slots :
        Held(t, k)' /\ Held(u, l)' /\ sockets'[t][k] = sockets'[u][l] => t = u /\ k = l
  BY <1>1 DEF Own
<1>4. Opening' => fdt'[s1'] # NULL /\ \A t \in Threads, k \in Slots : Held(t, k)' => sockets'[t][k] # s1'
  BY <1>1 DEF Own
<1> QED
  BY <1>2, <1>3, <1>4 DEF Own

\* Slots serve what they served.
SameServes == \A u \in Threads, k \in Slots, c \in Conns : Serves(u, k, c)' <=> Serves(u, k, c)

\* The slots serve the same connections if they are held as before.
LEMMA HeldSameServes ==
  ASSUME SameHeld, fdt' = fdt
  PROVE  SameServes
<1>1. ASSUME NEW u \in Threads, NEW k \in Slots, NEW c \in Conns PROVE Serves(u, k, c)' <=> Serves(u, k, c)
  BY DEF SameHeld, Serves
<1> QED
  BY <1>1 DEF SameServes

\* The steps that change nothing of the slots and the descriptors.
LEMMA UnchangedHeld ==
  ASSUME th' = th, sockets' = sockets
  PROVE  SameHeld
BY DEF SameHeld, Held

\* Accept: the descriptor was free, so that no slot had it.
LEMMA AcceptOwn ==
  ASSUME ServerInv, Own, Accept
  PROVE  Own' /\ SameServes /\ SameHeld
<1>1. PICK c \in backlog, f \in Fds :
           /\ fdt[f] = NULL /\ fdt' = [fdt EXCEPT ![f] = c] /\ s1' = f
           /\ UNCHANGED <<cdata, th>>
  BY AcceptEffect
<1>2. c \in Conns /\ c # NULL /\ fdt \in [Fds -> Conns \cup {NULL}]
  BY ConstantFacts DEF ServerInv, Types
<1>3. SameHeld
  BY <1>1, UnchangedHeld DEF cdata
<1>4. \A t \in Threads, k \in Slots :
        Held(t, k) => sockets[t][k] \in Fds /\ sockets[t][k] # f /\ fdt'[sockets[t][k]] = fdt[sockets[t][k]]
  <2>1. ASSUME NEW t \in Threads, NEW k \in Slots, Held(t, k)
        PROVE  sockets[t][k] \in Fds /\ sockets[t][k] # f
    BY <1>1, <2>1, HeldFacts DEF Own
  <2> QED
    BY <1>1, <1>2, <2>1
<1>5. SameServes
  BY <1>3, <1>4 DEF SameServes, SameHeld, Serves
<1>6. ASSUME NEW t \in Threads, NEW k \in Slots, Held(t, k)'
      PROVE  Held(t, k) /\ sockets'[t][k] = sockets[t][k] /\ fdt'[sockets[t][k]] # NULL /\ sockets[t][k] # f
  BY <1>3, <1>4, <1>6 DEF SameHeld, Own
<1>7. fdt'[s1'] # NULL
  BY <1>1, <1>2
<1>8. \A t \in Threads, k \in Slots : Held(t, k)' => fdt'[sockets'[t][k]] # NULL
  BY <1>6
<1>9. \A t, u \in Threads : \A k, l \in Slots :
        Held(t, k)' /\ Held(u, l)' /\ sockets'[t][k] = sockets'[u][l] => t = u /\ k = l
  BY <1>6 DEF Own
<1>10. \A t \in Threads, k \in Slots : Held(t, k)' => sockets'[t][k] # s1'
  BY <1>1, <1>6
<1>11. Own'
  BY <1>7, <1>8, <1>9, <1>10 DEF Own
<1> QED
  BY <1>3, <1>5, <1>11

\* The slot that is filled has a descriptor that no other slot has.
LEMMA SetSocketOwn ==
  ASSUME ServerInv, Own, SetSocket
  PROVE  /\ Own'
         /\ \A u \in Threads, k \in Slots, c \in Conns :
              Serves(u, k, c)' <=> Serves(u, k, c) \/ (u = cid /\ k = sid /\ c = fdt[s1])
<1>1. /\ \A u \in Threads, k \in Slots : /\ Held(u, k)' <=> Held(u, k) \/ (u = cid /\ k = sid)
                                         /\ Held(u, k) => sockets'[u][k] = sockets[u][k]
      /\ sid \in Slots /\ cid \in Threads /\ s1 \in Fds /\ ~Held(cid, sid) /\ sockets'[cid][sid] = s1
      /\ Opening /\ ~Opening' /\ UNCHANGED <<kernel, peers, th, s1, cid, sid, mixed>>
  BY SetSocketHeld
<1>2. fdt[s1] # NULL /\ fdt' = fdt /\ \A t \in Threads, k \in Slots : Held(t, k) => sockets[t][k] # s1
  BY <1>1 DEF Own, kernel
<1>3. ASSUME NEW t \in Threads, NEW k \in Slots, Held(t, k)'
      PROVE  \/ Held(t, k) /\ sockets'[t][k] = sockets[t][k]
             \/ t = cid /\ k = sid /\ sockets'[t][k] = s1
  BY <1>1, <1>3
<1>4. \A t \in Threads, k \in Slots : Held(t, k)' => fdt'[sockets'[t][k]] # NULL
  BY <1>2, <1>3 DEF Own
<1>5. \A t, u \in Threads : \A k, l \in Slots :
        Held(t, k)' /\ Held(u, l)' /\ sockets'[t][k] = sockets'[u][l] => t = u /\ k = l
  BY <1>2, <1>3 DEF Own
<1>6. Own'
  BY <1>1, <1>4, <1>5 DEF Own
<1>7. ASSUME NEW u \in Threads, NEW k \in Slots, NEW c \in Conns
      PROVE  Serves(u, k, c)' <=> Serves(u, k, c) \/ (u = cid /\ k = sid /\ c = fdt[s1])
  <2>1. CASE u = cid /\ k = sid
    BY <1>1, <1>2, <2>1 DEF Serves
  <2>2. CASE ~(u = cid /\ k = sid)
    BY <1>1, <1>2, <2>2 DEF Serves
  <2> QED
    BY <2>1, <2>2
<1> QED
  BY <1>6, <1>7

\* The other steps of the acceptor.
LEMMA AcceptorOwn ==
  ASSUME ServerInv, Own, Choose \/ WaitForRoom \/ open_socket \/ CountActive
  PROVE  Own' /\ SameServes /\ SameHeld /\ UNCHANGED <<kernel, peers, sockets, th, mixed>>
<1>1. UNCHANGED <<kernel, peers, sockets, th, mixed>> /\ fdt' = fdt /\ (Opening' => Opening /\ s1' = s1)
  BY DEF Choose, WaitForRoom, open_socket, CountActive, kernel, cdata, Opening
<1> QED
  BY <1>1, UnchangedHeld, SameOwn, HeldSameServes

\* fclose: no other slot had the descriptor.
LEMMA FcloseOwn ==
  ASSUME ServerInv, Own, NEW t \in Threads, Fclose(t)
  PROVE  /\ Own'
         /\ \A u \in Threads, k \in Slots, c \in Conns :
              Serves(u, k, c)' <=> Serves(u, k, c) /\ ~(u = t /\ k = th[t].i)
<1>1. PICK f \in Fds : /\ Held(t, th[t].i) /\ f = sockets[t][th[t].i]
                       /\ fdt' = [fdt EXCEPT ![f] = NULL] /\ UNCHANGED acceptor
  BY FcloseEffect
<1>2. /\ \A u \in Threads, k \in Slots : Held(u, k)' <=> Held(u, k) /\ ~(u = t /\ k = th[t].i)
      /\ sockets' = sockets
  BY FcloseHeld
<1>3. fdt \in [Fds -> Conns \cup {NULL}] /\ th[t].i \in Slots
  BY DEF ServerInv, Types, ThreadsOK, Thread
<1>4. ASSUME NEW u \in Threads, NEW k \in Slots, Held(u, k)'
      PROVE  /\ Held(u, k) /\ ~(u = t /\ k = th[t].i) /\ sockets[u][k] \in Fds /\ sockets[u][k] # f
             /\ fdt'[sockets[u][k]] = fdt[sockets[u][k]]
  <2>1. Held(u, k) /\ ~(u = t /\ k = th[t].i) /\ sockets[u][k] \in Fds
    BY <1>2, <1>4, HeldFacts
  <2>2. sockets[u][k] # f
    BY <1>1, <1>3, <2>1 DEF Own
  <2> QED
    BY <1>1, <1>3, <2>1, <2>2
<1>5. \A u \in Threads, k \in Slots : Held(u, k)' => fdt'[sockets'[u][k]] # NULL
  BY <1>2, <1>4 DEF Own
<1>6. \A v, u \in Threads : \A k, l \in Slots :
        Held(v, k)' /\ Held(u, l)' /\ sockets'[v][k] = sockets'[u][l] => v = u /\ k = l
  BY <1>2, <1>4 DEF Own
<1>7. Opening' => fdt'[s1'] # NULL /\ \A u \in Threads, k \in Slots : Held(u, k)' => sockets'[u][k] # s1'
  <2> SUFFICES ASSUME Opening' PROVE fdt'[s1'] # NULL /\ \A u \in Threads, k \in Slots : Held(u, k)' => sockets'[u][k] # s1'
    OBVIOUS
  <2>1. Opening /\ s1' = s1 /\ s1 \in Fds
    BY <1>1 DEF Opening, acceptor, ServerInv, SlotsOK
  <2>2. fdt[s1] # NULL /\ s1 # f /\ \A u \in Threads, k \in Slots : Held(u, k) => sockets[u][k] # s1
    BY <1>1, <1>3, <2>1 DEF Own
  <2> QED
    BY <1>1, <1>2, <1>3, <1>4, <2>1, <2>2
<1>8. Own'
  BY <1>5, <1>6, <1>7 DEF Own
<1>9. ASSUME NEW u \in Threads, NEW k \in Slots, NEW c \in Conns
      PROVE  Serves(u, k, c)' <=> Serves(u, k, c) /\ ~(u = t /\ k = th[t].i)
  BY <1>2, <1>4 DEF Serves
<1> QED
  BY <1>8, <1>9

\* The other steps of a client thread.
LEMMA ThreadOwn ==
  ASSUME ServerInv, Own, NEW t \in Threads, clientgo(t), ~Fclose(t), ~mixed'
  PROVE  Own' /\ SameServes /\ UNCHANGED <<fdt, backlog, acceptor>>
<1>1. SameHeld /\ UNCHANGED <<fdt, backlog, acceptor>>
  BY QuietStep
<1>2. Opening' => Opening /\ s1' = s1
  BY <1>1 DEF Opening, acceptor
<1> QED
  BY <1>1, <1>2, SameOwn, HeldSameServes

\* The TCP clients.
LEMMA ClientOwn ==
  ASSUME Own, NEW c \in Conns, client_hashserver2(c)
  PROVE  Own' /\ SameServes /\ UNCHANGED <<fdt, acceptor, cdata, th, ready, mixed>>
<1>1. UNCHANGED <<fdt, acceptor, cdata, th, ready, mixed>>
  BY DEF client_hashserver2, Continue, openconn, SendPart, sendquery_, SendValue, Sent, readvalue,
         BatchDone, ReadFails, closeconn, kernel
<1>2. fdt' = fdt /\ th' = th /\ sockets' = sockets /\ (Opening' => Opening /\ s1' = s1)
  BY <1>1 DEF Opening, acceptor, cdata
<1> QED
  BY <1>1, <1>2, UnchangedHeld, SameOwn, HeldSameServes

OwnInv == mixed \/ Own

\* Every step keeps descriptors apart, or records that it confused two.
LEMMA OwnStep ==
  ASSUME ServerInv, OwnInv, [Next]_vars
  PROVE  OwnInv'
<1> SUFFICES ASSUME ~mixed' PROVE Own'
  BY DEF OwnInv
<1>1. Own
  BY MixedStays DEF OwnInv
<1>2. ASSUME NEW c \in Conns, client_hashserver2(c) PROVE Own'
  BY <1>1, <1>2, ClientOwn
<1>3. ASSUME tcpserver PROVE Own'
  BY <1>1, <1>3, AcceptOwn, SetSocketOwn, AcceptorOwn DEF tcpserver
<1>4. ASSUME NEW t \in Threads, clientgo(t) PROVE Own'
  BY <1>1, <1>4, FcloseOwn, ThreadOwn
<1>5. ASSUME UNCHANGED vars PROVE Own'
  <2>1. fdt' = fdt /\ th' = th /\ sockets' = sockets /\ (Opening' => Opening /\ s1' = s1)
    BY <1>5 DEF vars, kernel, acceptor, cdata, Opening
  <2> QED
    BY <1>1, <2>1, UnchangedHeld, SameOwn
<1> QED
  BY <1>2, <1>3, <1>4, <1>5 DEF Next, Spin

\* Descriptors are apart until one is confused with another.
LEMMA OwnInvariant == Spec => []OwnInv
<1>1. Init => OwnInv
  BY DEF Init, OwnInv, Own, Held, Opening
<1>2. ServerInv /\ OwnInv /\ [Next]_vars => OwnInv'
  BY OwnStep
<1> QED
  BY <1>1, <1>2, ServerInvariant, PTL DEF Spec

-----------------------------------------------------------------------------
(* Requests on their way: their numbers are those of the history. *)

Mute == {"part", "value"}

\* s is what is on a stream, a what was asked on its connection.
Traced(s, a) ==
  /\ \A i \in 1..Len(s) : s[i].op \notin Mute =>
       s[i].no \in 1..Len(a) /\ a[s[i].no].op = s[i].op /\ a[s[i].no].key = s[i].key
  /\ \A i, j \in 1..Len(s) : i < j /\ s[i].op = "lookup" /\ s[j].op = "lookup" => s[i].no < s[j].no

\* What is left on a stream is what was asked.
LEMMA TracedTail ==
  ASSUME NEW s \in Seq(Object), NEW a, Traced(s, a), s # <<>>
  PROVE  Traced(Tail(s), a)
<1>1. PICK x : x = Tail(s)
  OBVIOUS
<1>2. Len(x) = Len(s) - 1 /\ \A i \in 1..Len(x) : i + 1 \in 1..Len(s) /\ x[i] = s[i + 1]
  BY <1>1
<1>3. \A i, j \in 1..Len(x) : i < j => i + 1 < j + 1
  OBVIOUS
<1>4. ASSUME NEW i \in 1..Len(x), x[i].op \notin Mute
      PROVE  x[i].no \in 1..Len(a) /\ a[x[i].no].op = x[i].op /\ a[x[i].no].key = x[i].key
  <2>1. i + 1 \in 1..Len(s) /\ x[i] = s[i + 1]
    BY <1>2
  <2> QED
    BY <1>4, <2>1 DEF Traced
<1>5. ASSUME NEW i \in 1..Len(x), NEW j \in 1..Len(x), i < j, x[i].op = "lookup", x[j].op = "lookup"
      PROVE  x[i].no < x[j].no
  <2>1. i + 1 \in 1..Len(s) /\ j + 1 \in 1..Len(s) /\ i + 1 < j + 1 /\ x[i] = s[i + 1] /\ x[j] = s[j + 1]
    BY <1>2, <1>3, <1>5
  <2> QED
    BY <1>5, <2>1 DEF Traced
<1>6. Traced(x, a)
  BY <1>4, <1>5 DEF Traced
<1> QED
  BY <1>1, <1>6

\* A part of a query, or a value, is on its way.
LEMMA TracedMute ==
  ASSUME NEW s \in Seq(Object), NEW a, Traced(s, a), NEW x \in Object, x.op \in Mute
  PROVE  Traced(Append(s, x), a)
<1>1. PICK y : y = Append(s, x)
  OBVIOUS
<1>2. Len(y) = Len(s) + 1 /\ y[Len(s) + 1] = x /\ \A i \in 1..Len(s) : y[i] = s[i]
  BY <1>1
<1>3. \A i \in 1..Len(y) : y[i].op \notin Mute => i \in 1..Len(s) /\ y[i] = s[i]
  BY <1>2
<1>4. "lookup" \notin Mute
  BY DEF Mute
<1>5. Traced(y, a)
  BY <1>3, <1>4 DEF Traced
<1> QED
  BY <1>1, <1>5

\* A query is on its way.
LEMMA TracedQuery ==
  ASSUME NEW s \in Seq(Object), NEW a \in Seq(Request), Traced(s, a), NEW q \in Request, NEW b, NEW y,
         b = Append(a, q), y = Append(s, [op |-> q.op, key |-> q.key, no |-> Len(a) + 1])
  PROVE  Traced(y, b)
<1>1. PICK x : x = [op |-> q.op, key |-> q.key, no |-> Len(a) + 1]
  OBVIOUS
<1>2. x.op = q.op /\ x.key = q.key /\ x.no = Len(a) + 1
  BY <1>1
<1>3. Len(y) = Len(s) + 1 /\ y[Len(s) + 1] = x /\ \A i \in 1..Len(s) : y[i] = s[i]
  BY <1>1
<1>4. Len(b) = Len(a) + 1 /\ b[Len(a) + 1] = q /\ \A i \in 1..Len(a) : b[i] = a[i] /\ i \in 1..Len(b) /\ i < Len(a) + 1
  OBVIOUS
<1>5. ASSUME NEW i \in 1..Len(y), y[i].op \notin Mute
      PROVE  y[i].no \in 1..Len(b) /\ b[y[i].no].op = y[i].op /\ b[y[i].no].key = y[i].key
  <2>1. CASE i = Len(s) + 1
    BY <1>2, <1>3, <1>4, <2>1
  <2>2. CASE i # Len(s) + 1
    <3>1. i \in 1..Len(s) /\ y[i] = s[i]
      BY <1>3, <2>2
    <3>2. s[i].no \in 1..Len(a) /\ a[s[i].no].op = s[i].op /\ a[s[i].no].key = s[i].key
      BY <1>5, <3>1 DEF Traced
    <3> QED
      BY <1>4, <3>1, <3>2
  <2> QED
    BY <2>1, <2>2
<1>6. ASSUME NEW i \in 1..Len(y), NEW j \in 1..Len(y), i < j, y[i].op = "lookup", y[j].op = "lookup"
      PROVE  y[i].no < y[j].no
  <2>1. i \in 1..Len(s) /\ y[i] = s[i]
    BY <1>3, <1>6
  <2>2. CASE j = Len(s) + 1
    <3>1. s[i].no \in 1..Len(a)
      BY <1>6, <2>1 DEF Traced, Mute
    <3> QED
      BY <1>2, <1>3, <2>1, <2>2, <3>1
  <2>3. CASE j # Len(s) + 1
    <3>1. j \in 1..Len(s) /\ y[j] = s[j]
      BY <1>3, <2>3
    <3> QED
      BY <1>6, <2>1, <3>1 DEF Traced
  <2> QED
    BY <2>2, <2>3
<1> QED
  BY <1>5, <1>6 DEF Traced

\* What a step may do to a stream and to the history of its connection.
LEMMA RxChange ==
  ASSUME ServerInv, [Next]_vars, NEW c \in Conns
  PROVE  \/ asked'[c] = asked[c] /\ rx'[c] = rx[c]
         \/ asked'[c] = asked[c] /\ rx'[c] = <<>>
         \/ asked'[c] = asked[c] /\ rx[c] # <<>> /\ rx'[c] = Tail(rx[c])
         \/ asked'[c] = asked[c] /\ \E x \in {[op |-> "part"], [op |-> "value"]} : rx'[c] = Append(rx[c], x)
         \/ \E q \in Requests[c] :
              /\ asked'[c] = Append(asked[c], q)
              /\ rx'[c] = Append(rx[c], [op |-> q.op, key |-> q.key, no |-> Len(asked[c]) + 1])
<1>1. rx \in [Conns -> Seq(Object)] /\ asked \in [Conns -> Seq(Request)]
  BY DEF ServerInv, Types
<1>2. ASSUME NEW d \in Conns, client_hashserver2(d)
      PROVE  \/ asked'[c] = asked[c] /\ rx'[c] = rx[c]
             \/ asked'[c] = asked[c] /\ rx'[c] = <<>>
             \/ asked'[c] = asked[c] /\ \E x \in {[op |-> "part"], [op |-> "value"]} : rx'[c] = Append(rx[c], x)
             \/ \E q \in Requests[c] :
                  /\ asked'[c] = Append(asked[c], q)
                  /\ rx'[c] = Append(rx[c], [op |-> q.op, key |-> q.key, no |-> Len(asked[c]) + 1])
  <2>1. ASSUME NEW q \in Requests[d], sendquery_(d, q)
        PROVE  \/ asked'[c] = asked[c] /\ rx'[c] = rx[c]
               \/ \E p \in Requests[c] :
                    /\ asked'[c] = Append(asked[c], p)
                    /\ rx'[c] = Append(rx[c], [op |-> p.op, key |-> p.key, no |-> Len(asked[c]) + 1])
    <3>1. CASE c = d
      BY <1>1, <2>1, <3>1 DEF sendquery_
    <3>2. CASE c # d
      BY <1>1, <2>1, <3>2 DEF sendquery_
    <3> QED
      BY <3>1, <3>2
  <2>2. ASSUME SendPart(d) \/ SendValue(d)
        PROVE  \/ asked'[c] = asked[c] /\ rx'[c] = rx[c]
               \/ asked'[c] = asked[c] /\ \E x \in {[op |-> "part"], [op |-> "value"]} : rx'[c] = Append(rx[c], x)
    BY <1>1, <2>2 DEF SendPart, SendValue
  <2>3. ASSUME closeconn(d)
        PROVE  asked'[c] = asked[c] /\ (rx'[c] = rx[c] \/ rx'[c] = <<>>)
    BY <1>1, <2>3 DEF closeconn
  <2>4. ASSUME openconn(d) \/ Sent(d) \/ readvalue(d) \/ ReadFails(d) \/ BatchDone(d)
        PROVE  asked'[c] = asked[c] /\ rx'[c] = rx[c]
    BY <2>4 DEF openconn, Sent, readvalue, ReadFails, BatchDone, kernel
  <2> QED
    BY <1>2, <2>1, <2>2, <2>3, <2>4 DEF client_hashserver2, Continue
<1>3. ASSUME tcpserver PROVE asked'[c] = asked[c] /\ rx'[c] = rx[c]
  BY <1>3 DEF tcpserver, Accept, Choose, WaitForRoom, open_socket, SetSocket, CountActive, kernel, peers
<1>4. ASSUME NEW t \in Threads, clientgo(t)
      PROVE  asked'[c] = asked[c] /\ (rx'[c] = rx[c] \/ rx'[c] = <<>> \/ (rx[c] # <<>> /\ rx'[c] = Tail(rx[c])))
  <2>1. CASE Gather(t) \/ ReadRest(t) \/ ReadValue(t) \/ EndGather(t) \/ AfterClose(t)
    <3>1. PICK r \in Thread : Gathers(t, r)
      BY <2>1, GatherEffect, AfterCloseEffect
    <3> QED
      BY <1>1, <3>1 DEF Gathers, Reads, peers
  <2>2. CASE Fclose(t)
    <3>1. PICK f \in Fds : /\ rx' = [d \in Conns |-> IF d = fdt[f] THEN <<>> ELSE rx[d]]
                           /\ UNCHANGED <<tx, backlog, peers, acceptor, sockets, nsockets, active_clients, ready, mixed>>
      BY <2>2, FcloseEffect
    <3> QED
      BY <3>1 DEF peers
  <2>3. CASE ~(Gather(t) \/ ReadRest(t) \/ ReadValue(t) \/ EndGather(t) \/ AfterClose(t) \/ Fclose(t))
    BY <1>4, <2>3 DEF clientgo, close_socket, Close, UncountSocket, ClearSlot, UncountActive, doqueries, HandleLookup,
                      HandleInsert, write_iovs, WriteNext, kernel, peers
  <2> QED
    BY <2>1, <2>2, <2>3
<1>5. ASSUME UNCHANGED vars PROVE asked'[c] = asked[c] /\ rx'[c] = rx[c]
  BY <1>5 DEF vars, kernel, peers
<1> QED
  BY <1>2, <1>3, <1>4, <1>5 DEF Next, Spin

RxTraced == \A c \in Conns : Traced(rx[c], asked[c])

\* Every step keeps the streams to what was asked.
LEMMA RxTracedStep ==
  ASSUME ServerInv, RxTraced, [Next]_vars
  PROVE  RxTraced'
<1>1. ASSUME NEW c \in Conns PROVE Traced(rx'[c], asked'[c])
  <2>1. rx[c] \in Seq(Object) /\ asked[c] \in Seq(Request) /\ Traced(rx[c], asked[c])
    BY DEF ServerInv, Types, RxTraced
  <2>2. CASE asked'[c] = asked[c] /\ rx'[c] = rx[c]
    BY <2>1, <2>2
  <2>3. CASE asked'[c] = asked[c] /\ rx'[c] = <<>>
    BY <2>3 DEF Traced
  <2>4. CASE asked'[c] = asked[c] /\ rx[c] # <<>> /\ rx'[c] = Tail(rx[c])
    BY <2>1, <2>4, TracedTail
  <2>5. CASE asked'[c] = asked[c] /\ \E x \in {[op |-> "part"], [op |-> "value"]} : rx'[c] = Append(rx[c], x)
    <3>1. PICK x \in {[op |-> "part"], [op |-> "value"]} : rx'[c] = Append(rx[c], x)
      BY <2>5
    <3>2. x \in Object /\ x.op \in Mute
      BY DEF Object, Mute
    <3> QED
      BY <2>1, <2>5, <3>1, <3>2, TracedMute
  <2>6. CASE \E q \in Requests[c] :
              /\ asked'[c] = Append(asked[c], q)
              /\ rx'[c] = Append(rx[c], [op |-> q.op, key |-> q.key, no |-> Len(asked[c]) + 1])
    <3>1. PICK q \in Requests[c] :
              /\ asked'[c] = Append(asked[c], q)
              /\ rx'[c] = Append(rx[c], [op |-> q.op, key |-> q.key, no |-> Len(asked[c]) + 1])
      BY <2>6
    <3>2. q \in Request
      BY ServerAssumption DEF Request
    <3> QED
      BY <2>1, <3>1, <3>2, TracedQuery
  <2> QED
    BY <2>2, <2>3, <2>4, <2>5, <2>6, RxChange
<1> QED
  BY <1>1 DEF RxTraced, Traced

\* What is on a stream is what its client asked, in that order.
LEMMA RxInvariant == Spec => []RxTraced
<1>1. Init => RxTraced
  BY DEF Init, RxTraced, Traced
<1>2. ServerInv /\ RxTraced /\ [Next]_vars => RxTraced'
  BY RxTracedStep
<1> QED
  BY <1>1, <1>2, ServerInvariant, PTL DEF Spec

\* What was asked stays asked.
LEMMA AskedStays ==
  ASSUME ServerInv, [Next]_vars, NEW c \in Conns, NEW j \in 1..Len(asked[c])
  PROVE  j \in 1..Len(asked'[c]) /\ asked'[c][j] = asked[c][j]
<1>1. asked[c] \in Seq(Request)
  BY DEF ServerInv, Types
<1>2. CASE asked'[c] = asked[c]
  BY <1>2
<1>3. CASE \E q \in Requests[c] : asked'[c] = Append(asked[c], q)
  BY <1>1, <1>3
<1> QED
  BY <1>2, <1>3, RxChange


-----------------------------------------------------------------------------
(* WellBehavedKept: streams are framed. *)

\* A sequence that is not empty has a first and a last position.
LEMMA NotEmpty ==
  ASSUME NEW S, NEW s \in Seq(S), s # <<>>
  PROVE  Len(s) \in Nat /\ Len(s) >= 1 /\ 1 \in 1..Len(s) /\ Len(s) \in 1..Len(s)
OBVIOUS

\* s is what is on a stream, m the threads in the middle of an insert on it, p
\* where its client is: the value of an insert follows its query.
Frame(s, m, p) ==
  /\ \A i \in 2..Len(s) : s[i].op = "value" <=> s[i - 1].op = "insert"
  /\ s # <<>> => (s[1].op = "value" <=> m # {}) /\ (p = "value" <=> s[Len(s)].op = "insert")
  /\ s = <<>> => (p = "value" <=> m # {})

\* The client sends.
LEMMA FrameAppend ==
  ASSUME NEW s \in Seq(Object), NEW x \in Object, NEW m, NEW p, NEW q, Frame(s, m, p),
         x.op = "value" <=> p = "value", q = "value" <=> x.op = "insert"
  PROVE  Frame(Append(s, x), m, q)
<1>1. PICK y : y = Append(s, x)
  OBVIOUS
<1>2. Len(y) = Len(s) + 1 /\ y[Len(s) + 1] = x /\ (\A i \in 1..Len(s) : y[i] = s[i]) /\ Len(s) \in Nat /\ y # <<>>
  BY <1>1
<1>3. ASSUME NEW i \in 2..Len(y) PROVE y[i].op = "value" <=> y[i - 1].op = "insert"
  <2>1. CASE i = Len(s) + 1
    <3>1. s # <<>> /\ i - 1 = Len(s) /\ y[i - 1] = s[Len(s)] /\ y[i] = x
      BY <1>2, <2>1
    <3> QED
      BY <3>1 DEF Frame
  <2>2. CASE i # Len(s) + 1
    <3>1. i \in 2..Len(s) /\ y[i] = s[i] /\ y[i - 1] = s[i - 1]
      BY <1>2, <2>2
    <3> QED
      BY <3>1 DEF Frame
  <2> QED
    BY <2>1, <2>2
<1>4. y[1].op = "value" <=> m # {}
  <2>1. CASE s = <<>>
    BY <1>2, <2>1 DEF Frame
  <2>2. CASE s # <<>>
    <3>1. y[1] = s[1]
      BY <1>2, <2>2
    <3> QED
      BY <2>2, <3>1 DEF Frame
  <2> QED
    BY <2>1, <2>2
<1>5. q = "value" <=> y[Len(y)].op = "insert"
  BY <1>2
<1>6. Frame(y, m, q)
  BY <1>2, <1>3, <1>4, <1>5 DEF Frame
<1> QED
  BY <1>1, <1>6

\* A client thread reads.
LEMMA FrameTail ==
  ASSUME NEW s \in Seq(Object), NEW m, NEW n, NEW p, Frame(s, m, p), s # <<>>, n # {} <=> s[1].op = "insert"
  PROVE  Frame(Tail(s), n, p)
<1>1. PICK y : y = Tail(s)
  OBVIOUS
<1>6. y \in Seq(Object) /\ Len(s) \in Nat \ {0}
  BY <1>1
<1>7. Len(y) = Len(s) - 1 /\ (\A i \in 1..Len(y) : i + 1 \in 1..Len(s) /\ y[i] = s[i + 1])
  BY <1>1
<1>8. y = <<>> <=> Len(y) = 0
  BY <1>6
<1>2. /\ Len(y) = Len(s) - 1 /\ (\A i \in 1..Len(y) : i + 1 \in 1..Len(s) /\ y[i] = s[i + 1])
      /\ Len(s) \in Nat \ {0} /\ (y = <<>> <=> Len(s) = 1)
  BY <1>6, <1>7, <1>8
<1>3. ASSUME NEW i \in 2..Len(y) PROVE y[i].op = "value" <=> y[i - 1].op = "insert"
  <2>1. i + 1 \in 2..Len(s) /\ y[i] = s[i + 1] /\ y[i - 1] = s[(i + 1) - 1]
    BY <1>2
  <2> QED
    BY <2>1 DEF Frame
<1>4. CASE y = <<>>
  <2>1. Len(s) = 1
    BY <1>2, <1>4
  <2> QED
    BY <1>1, <1>4, <2>1 DEF Frame
<1>5. CASE y # <<>>
  <2>1. 2 \in 2..Len(s) /\ y[1] = s[2] /\ y[Len(y)] = s[Len(s)] /\ 2 - 1 = 1
    BY <1>2, <1>5
  <2>2. y[1].op = "value" <=> n # {}
    BY <2>1 DEF Frame
  <2>3. p = "value" <=> y[Len(y)].op = "insert"
    BY <2>1 DEF Frame
  <2> QED
    BY <1>1, <1>3, <1>5, <2>2, <2>3 DEF Frame
<1> QED
  BY <1>4, <1>5

\* Threads that wait for the value of an insert on c.
Middle(c) == {t \in Threads : th[t].pc = "value" /\ Serves(t, th[t].i, c)}
Alive(c) == peer[c] \in Up /\ (c \in backlog \/ Connected(c))
FramedOK == \A c \in Conns : Alive(c) => Frame(rx[c], Middle(c), peer[c])

SentBad(c) == \E j \in 1..Len(asked[c]) : asked[c][j].op = "bad"
Dropped(c) == peer[c] = "closed" \/ SentBad(c)

\* A thread closes a connection only if its client closed it or sent what is
\* not a request.
DropsOK == \A t \in Threads, c \in Conns : th[t].pc = "fclose" /\ Serves(t, th[t].i, c) => Dropped(c)
KeptOK == \A c \in Conns : peer[c] \in Up /\ c \notin backlog /\ ~SentBad(c) => Connected(c)

\* What was sent stays sent.
LEMMA SentBadStays ==
  ASSUME ServerInv, [Next]_vars, NEW c \in Conns, SentBad(c)
  PROVE  SentBad(c)'
<1>1. PICK j \in 1..Len(asked[c]) : asked[c][j].op = "bad"
  BY DEF SentBad
<1>2. j \in 1..Len(asked'[c]) /\ asked'[c][j] = asked[c][j]
  BY AskedStays
<1> QED
  BY <1>1, <1>2 DEF SentBad

\* The steps of threads and of the acceptor leave the clients alone.
LEMMA PeersStay ==
  ASSUME tcpserver \/ \E t \in Threads : clientgo(t)
  PROVE  UNCHANGED <<peer, asked, got>>
BY ZenonT(60) DEF tcpserver, Accept, Choose, WaitForRoom, open_socket, SetSocket, CountActive, peers,
       clientgo, close_socket, Gather, ReadRest, ReadValue, EndGather, Fclose, Close, UncountSocket, ClearSlot,
       UncountActive, AfterClose, doqueries, HandleLookup, HandleInsert, write_iovs, WriteNext

\* What a client may do to a connection.
LEMMA ClientPeer ==
  ASSUME ServerInv, NEW d \in Conns, client_hashserver2(d), NEW c \in Conns
  PROVE  \/ peer'[c] = peer[c] /\ (c \in backlog' <=> c \in backlog)
         \/ peer[c] = "new" /\ peer'[c] = "send" /\ c \in backlog'
         \/ peer[c] \in Up /\ peer'[c] \in Up \cup {"closed"} /\ (c \in backlog' <=> c \in backlog)
<1>1. peer \in [Conns -> Up \cup {"new", "closed"}] /\ backlog \in SUBSET Conns
  BY DEF ServerInv, Types
<1>2. CASE openconn(d)
  BY <1>1, <1>2 DEF openconn
<1>3. CASE SendPart(d) \/ Sent(d) \/ readvalue(d) \/ BatchDone(d) \/ SendValue(d)
  BY <1>1, <1>3 DEF SendPart, Sent, readvalue, BatchDone, SendValue, kernel, Up
<1>4. CASE \E q \in Requests[d] : sendquery_(d, q)
  BY <1>1, <1>4 DEF sendquery_, Up
<1>5. CASE ReadFails(d) \/ closeconn(d)
  BY <1>1, <1>5 DEF ReadFails, closeconn, PeerGone, Up
<1> QED
  BY <1>2, <1>3, <1>4, <1>5 DEF client_hashserver2, Continue

\* A connection that may be dropped may be dropped later.
LEMMA DroppedStays ==
  ASSUME ServerInv, [Next]_vars, NEW c \in Conns, Dropped(c)
  PROVE  Dropped(c)'
<1>1. CASE SentBad(c)
  BY <1>1, SentBadStays DEF Dropped
<1>2. CASE peer[c] = "closed"
  <2>1. ASSUME NEW d \in Conns, client_hashserver2(d) PROVE peer'[c] = "closed"
    <3>1. "closed" \notin Up
      BY DEF Up
    <3> QED
      BY <1>2, <2>1, <3>1, ClientPeer
  <2>2. ASSUME UNCHANGED vars PROVE peer'[c] = "closed"
    BY <1>2, <2>2 DEF vars, peers
  <2>3. ASSUME tcpserver \/ \E t \in Threads : clientgo(t) PROVE peer'[c] = "closed"
    BY <1>2, <2>3, PeersStay
  <2> QED
    BY <2>1, <2>2, <2>3 DEF Dropped, Next, Spin
<1> QED
  BY <1>1, <1>2 DEF Dropped

\* The threads in the middle of an insert are the same.
LEMMA SameMiddle ==
  ASSUME SameServes, th' = th, NEW c \in Conns, ThreadsOK
  PROVE  Middle(c)' = Middle(c)
<1>1. \A t \in Threads : th[t].i \in Slots
  BY DEF ThreadsOK, Thread
<1> QED
  BY <1>1 DEF SameServes, Middle


\* The steps of a client thread: it closes a descriptor, gathers, or neither.
LEMMA ThreadKinds ==
  ASSUME ServerInv, NEW t \in Threads, clientgo(t)
  PROVE  \/ Fclose(t)
         \/ \E r \in Thread : Gathers(t, r)
         \/ \E r \in Thread : /\ th' = [th EXCEPT ![t] = r] /\ rx' = rx
                              /\ th[t].pc \notin {"value", "fclose"} /\ r.pc \notin {"value", "fclose"}
<1>1. CASE Gather(t) \/ ReadRest(t) \/ ReadValue(t) \/ EndGather(t) \/ AfterClose(t)
  BY <1>1, GatherEffect, AfterCloseEffect
<1>2. CASE Close(t)
  <2>1. PICK r \in Thread : /\ r = [th[t] EXCEPT !.pc = "uncount"] /\ th' = [th EXCEPT ![t] = r]
                            /\ th[t].pc = "close" /\ rx' = rx
    BY <1>2, CloseEffect
  <2>2. r.pc = "uncount"
    BY <2>1 DEF ServerInv, ThreadsOK, Thread
  <2> QED
    BY <2>1, <2>2
<1>3. CASE UncountSocket(t)
  <2>1. PICK r \in Thread : /\ r = [th[t] EXCEPT !.pc = "clear"] /\ th' = [th EXCEPT ![t] = r]
                            /\ th[t].pc = "uncount" /\ UNCHANGED kernel
    BY <1>3, UncountSocketEffect
  <2>2. r.pc = "clear"
    BY <2>1 DEF ServerInv, ThreadsOK, Thread
  <2> QED
    BY <2>1, <2>2 DEF kernel
<1>4. CASE ClearSlot(t)
  <2>1. PICK r \in Thread : /\ r = [th[t] EXCEPT !.pc = "inactive"] /\ th' = [th EXCEPT ![t] = r]
                            /\ th[t].pc = "clear" /\ UNCHANGED kernel
    BY <1>4, ClearSlotEffect
  <2>2. r.pc = "inactive"
    BY <2>1 DEF ServerInv, ThreadsOK, Thread
  <2> QED
    BY <2>1, <2>2 DEF kernel
<1>5. CASE UncountActive(t)
  <2>1. PICK r \in Thread : /\ r = [th[t] EXCEPT !.pc = "closed"] /\ th' = [th EXCEPT ![t] = r]
                            /\ th[t].pc = "inactive" /\ UNCHANGED kernel
    BY <1>5, UncountActiveEffect
  <2>2. r.pc = "closed"
    BY <2>1 DEF ServerInv, ThreadsOK, Thread
  <2> QED
    BY <2>1, <2>2 DEF kernel
<1>6. CASE doqueries(t) \/ HandleLookup(t) \/ HandleInsert(t) \/ write_iovs(t) \/ WriteNext(t)
  <2>1. PICK r \in Thread : /\ th' = [th EXCEPT ![t] = r] /\ th[t].pc \in {"do", "handle", "write"}
                            /\ r.pc \in {"do", "handle", "write", "gather"}
    BY <1>6, BatchStep
  <2>2. rx' = rx
    BY <1>6 DEF doqueries, HandleLookup, HandleInsert, write_iovs, WriteNext, kernel
  <2> QED
    BY <2>1, <2>2
<1> QED
  BY <1>1, <1>2, <1>3, <1>4, <1>5, <1>6 DEF clientgo, close_socket

\* What gathering does to the slot it reads: labels and position.
LEMMA GatherLabels ==
  ASSUME ServerInv, NEW t \in Threads, NEW r \in Thread, Gathers(t, r)
  PROVE  \/ rx' = rx /\ th[t].pc \notin {"value", "fclose"} /\ r.pc \notin {"value", "fclose"}
         \/ /\ rx' = rx /\ Held(t, th[t].i) /\ Stream(t) = "error" /\ th[t].pc # "fclose"
            /\ r.pc = "fclose" /\ r.i = th[t].i
         \/ /\ \E c \in Conns :
                 /\ Held(t, th[t].i) /\ c = fdt[sockets[t][th[t].i]] /\ rx[c] # <<>> /\ rx[c][1] \in Object
                 /\ rx' = [rx EXCEPT ![c] = Tail(@)] /\ r.i = th[t].i /\ th[t].pc # "fclose"
                 /\ th[t].pc # "value" => /\ r.pc = "value" <=> rx[c][1].op = "insert"
                                          /\ r.pc = "fclose" => rx[c][1].op \in {"bad", "value"}
                 /\ th[t].pc = "value" => r.pc = "gather"
<1>1. th[t] \in Thread
  BY DEF ServerInv, ThreadsOK
<1>2. CASE rx' = rx /\ Moves(t, r)
  BY <1>2 DEF Moves
<1>3. CASE rx' = rx /\ Breaks(t, r)
  BY <1>1, <1>3 DEF Breaks, Thread
<1>4. ASSUME NEW c \in Conns, Reads(t, c, r)
      PROVE  /\ Held(t, th[t].i) /\ c = fdt[sockets[t][th[t].i]] /\ rx[c] # <<>> /\ rx[c][1] \in Object
             /\ rx' = [rx EXCEPT ![c] = Tail(@)] /\ r.i = th[t].i /\ th[t].pc # "fclose"
             /\ th[t].pc # "value" => /\ r.pc = "value" <=> rx[c][1].op = "insert"
                                      /\ r.pc = "fclose" => rx[c][1].op \in {"bad", "value"}
             /\ th[t].pc = "value" => r.pc = "gather"
  <2>1. CASE th[t].pc \in {"gather", "rest"} /\ ReadsQuery(t, c, r)
    <3>1. CASE rx[c][1].op = "part" /\ r = [th[t] EXCEPT !.pc = "rest"]
      <4>1. r.pc = "rest" /\ r.i = th[t].i
        BY <1>1, <3>1 DEF Thread
      <4> QED
        BY <1>4, <2>1, <3>1, <4>1 DEF Reads
    <3>2. CASE /\ rx[c][1].op = "lookup"
               /\ r = [th[t] EXCEPT !.pc = "gather", !.last = th[t].i,
                           !.batch = Append(@, Joined(t, "lookup", rx[c][1].key, rx[c][1].no, c))]
      <4>1. r.pc = "gather" /\ r.i = th[t].i
        BY <1>1, <3>2 DEF Thread
      <4> QED
        BY <1>4, <2>1, <3>2, <4>1 DEF Reads
    <3>3. CASE rx[c][1].op = "insert" /\ r = [th[t] EXCEPT !.pc = "value", !.last = th[t].i, !.key = rx[c][1].key]
      <4>1. r.pc = "value" /\ r.i = th[t].i
        BY <1>1, <3>3 DEF Thread
      <4> QED
        BY <1>4, <2>1, <3>3, <4>1 DEF Reads
    <3>4. CASE rx[c][1].op \in {"bad", "value"} /\ r = [th[t] EXCEPT !.pc = "fclose", !.last = th[t].i]
      <4>1. r.pc = "fclose" /\ r.i = th[t].i
        BY <1>1, <3>4 DEF Thread
      <4> QED
        BY <1>4, <2>1, <3>4, <4>1 DEF Reads
    <3>5. CASE rx[c][1].op = "insert0" /\ r = [th[t] EXCEPT !.pc = "spin", !.last = th[t].i]
      <4>1. r.pc = "spin" /\ r.i = th[t].i
        BY <1>1, <3>5 DEF Thread
      <4> QED
        BY <1>4, <2>1, <3>5, <4>1 DEF Reads
    <3> QED
      BY <2>1, <3>1, <3>2, <3>3, <3>4, <3>5 DEF ReadsQuery
  <2>2. CASE th[t].pc = "value" /\ ReadsValue(t, c, r)
    <3>1. r.pc = "gather" /\ r.i = th[t].i
      BY <1>1, <2>2 DEF Thread, ReadsValue
    <3> QED
      BY <1>4, <2>2, <3>1 DEF Reads
  <2> QED
    BY <1>4, <2>1, <2>2 DEF Reads
<1> QED
  BY <1>2, <1>3, <1>4 DEF Gathers

\* A connection that a slot serves and that does not come with Dropped is alive.
LEMMA ServedAlive ==
  ASSUME ServerInv, Own, NEW t \in Threads, NEW k \in Slots, NEW c \in Conns, Serves(t, k, c), peer[c] # "closed"
  PROVE  Alive(c)
<1>1. Held(t, k) /\ c = fdt[sockets[t][k]]
  BY DEF Serves
<1>2. Connected(c) /\ peer[c] # "new"
  BY <1>1, ServesFacts
<1>3. peer[c] \in Up \cup {"new", "closed"}
  BY DEF ServerInv, Types
<1> QED
  BY <1>2, <1>3 DEF Alive

\* The client of a served connection whose stream has ended is gone.
LEMMA EndedClosed ==
  ASSUME ServerInv, Own, NEW t \in Threads, Held(t, th[t].i), Stream(t) = "error", NEW c \in Conns,
         Serves(t, th[t].i, c)
  PROVE  peer[c] = "closed"
<1>1. th[t].i \in Slots
  BY DEF ServerInv, ThreadsOK, Thread
<1>2. ConnOf(fin[t][th[t].i]) = c
  BY <1>1, HeldFacts DEF Serves
<1>3. c # NULL
  BY ConstantFacts
<1> QED
  BY <1>2, <1>3, StreamFacts DEF ServerInv


\* Connections stay what they are, but for what the client does to its own.
LEMMA ClientFramed ==
  ASSUME ServerInv, Own, FramedOK, NEW d \in Conns, client_hashserver2(d)
  PROVE  FramedOK'
<1>1. SameServes /\ fdt' = fdt /\ th' = th
  BY ClientOwn
<1>2. /\ rx \in [Conns -> Seq(Object)] /\ asked \in [Conns -> Seq(Request)]
      /\ peer \in [Conns -> Up \cup {"new", "closed"}] /\ backlog \in SUBSET Conns /\ ThreadsOK
  BY DEF ServerInv, Types
<1>3. \A c \in Conns : Middle(c)' = Middle(c)
  BY <1>1, <1>2, SameMiddle
<1>4. \A c \in Conns : Connected(c)' <=> Connected(c)
  BY <1>1 DEF Connected
<1>5. ASSUME NEW c \in Conns, rx'[c] = rx[c], peer'[c] = peer[c], c \in backlog' <=> c \in backlog, Alive(c)'
      PROVE  Frame(rx[c], Middle(c), peer[c])'
  BY <1>3, <1>4, <1>5 DEF FramedOK, Alive
<1>6. ASSUME NEW c \in Conns, NEW x \in Object, Alive(c), rx'[c] = Append(rx[c], x), NEW q, peer'[c] = q,
             x.op = "value" <=> peer[c] = "value", q = "value" <=> x.op = "insert"
      PROVE  Frame(rx[c], Middle(c), peer[c])'
  <2>1. Frame(rx[c], Middle(c), peer[c]) /\ rx[c] \in Seq(Object)
    BY <1>2, <1>6 DEF FramedOK
  <2>2. Frame(Append(rx[c], x), Middle(c), q)
    BY <1>6, <2>1, FrameAppend
  <2> QED
    BY <1>3, <1>6, <2>2
<1>7. ASSUME NEW c \in Conns, Alive(c)', openconn(d)
      PROVE  Frame(rx[c], Middle(c), peer[c])'
  <2>1. CASE c # d
    BY <1>2, <1>5, <1>7, <2>1 DEF openconn
  <2>2. CASE c = d
    <3>1. peer[c] = "new" /\ peer'[c] = "send" /\ rx' = rx
      BY <1>2, <1>7, <2>2 DEF openconn
    <3>2. rx[c] = <<>> /\ \A f \in Fds : fdt[f] # c
      BY <3>1 DEF ServerInv, KernelOK
    <3>3. Middle(c) = {}
      <4>1. ASSUME NEW t \in Threads, Serves(t, th[t].i, c) PROVE FALSE
        <5>1. th[t].i \in Slots /\ Held(t, th[t].i)
          BY <4>1 DEF ServerInv, ThreadsOK, Thread, Serves
        <5>2. sockets[t][th[t].i] \in Fds
          BY <5>1, HeldFacts
        <5> QED
          BY <3>2, <4>1, <5>2 DEF Serves
      <4> QED
        BY <4>1 DEF Middle
    <3> QED
      BY <1>3, <3>1, <3>2, <3>3 DEF Frame
  <2> QED
    BY <2>1, <2>2
<1>8. ASSUME NEW c \in Conns, Alive(c)', SendPart(d) \/ SendValue(d) \/ \E q \in Requests[d] : sendquery_(d, q)
      PROVE  Frame(rx[c], Middle(c), peer[c])'
  <2>1. CASE c # d
    <3>1. rx'[c] = rx[c] /\ peer'[c] = peer[c] /\ backlog' = backlog
      BY <1>2, <1>8, <2>1 DEF SendPart, SendValue, sendquery_
    <3> QED
      BY <1>5, <1>8, <3>1
  <2>2. CASE c = d
    <3>1. Alive(c)
      <4>1. peer[c] \in Up /\ backlog' = backlog
        BY <1>8, <2>2 DEF SendPart, SendValue, sendquery_, Up
      <4> QED
        BY <1>4, <1>8, <4>1 DEF Alive
    <3>2. CASE SendPart(d)
      <4>1. [op |-> "part"] \in Object /\ [op |-> "part"].op = "part"
        BY DEF Object
      <4>2. rx'[c] = Append(rx[c], [op |-> "part"]) /\ peer[c] = "send" /\ peer'[c] = "rest"
        BY <1>2, <2>2, <3>2 DEF SendPart
      <4> QED
        BY <1>6, <3>1, <4>1, <4>2
    <3>3. CASE SendValue(d)
      <4>1. [op |-> "value"] \in Object /\ [op |-> "value"].op = "value"
        BY DEF Object
      <4>2. rx'[c] = Append(rx[c], [op |-> "value"]) /\ peer[c] = "value" /\ peer'[c] = "send"
        BY <1>2, <2>2, <3>3 DEF SendValue
      <4> QED
        BY <1>6, <3>1, <4>1, <4>2
    <3>4. ASSUME NEW q \in Requests[d], sendquery_(d, q) PROVE Frame(rx[c], Middle(c), peer[c])'
      <4>1. q \in Request /\ q.op \in {"lookup", "insert", "insert0", "bad"}
        BY ServerAssumption DEF Request
      <4>2. PICK x : x = [op |-> q.op, key |-> q.key, no |-> Len(asked[c]) + 1]
        OBVIOUS
      <4>3. x \in Object /\ x.op = q.op
        BY <1>2, <4>1, <4>2 DEF Object, Request
      <4>4. /\ rx'[c] = Append(rx[c], x) /\ peer[c] \in {"rest", "send"}
            /\ peer'[c] = IF q.op = "insert" THEN "value" ELSE "send"
        BY <1>2, <2>2, <3>4, <4>2 DEF sendquery_
      <4>5. x.op = "value" <=> peer[c] = "value"
        BY <4>1, <4>3, <4>4
      <4>6. peer'[c] = "value" <=> x.op = "insert"
        BY <4>1, <4>3, <4>4
      <4> QED
        BY <1>6, <3>1, <4>3, <4>4, <4>5, <4>6
    <3> QED
      BY <1>8, <3>2, <3>3, <3>4
  <2> QED
    BY <2>1, <2>2
<1>9. ASSUME NEW c \in Conns, Alive(c)', Sent(d) \/ readvalue(d) \/ BatchDone(d)
      PROVE  Frame(rx[c], Middle(c), peer[c])'
  <2>1. /\ rx' = rx /\ backlog' = backlog
        /\ peer'[c] = peer[c] \/ (peer[c] \in {"send", "read"} /\ peer'[c] \in {"send", "read"})
    BY <1>2, <1>9 DEF Sent, readvalue, BatchDone, kernel
  <2>2. CASE peer'[c] = peer[c]
    BY <1>5, <1>9, <2>1, <2>2
  <2>3. CASE peer[c] \in {"send", "read"} /\ peer'[c] \in {"send", "read"}
    <3>1. Alive(c)
      BY <1>4, <1>9, <2>1, <2>3 DEF Alive, Up
    <3>2. Frame(rx[c], Middle(c), peer[c])
      BY <3>1 DEF FramedOK
    <3>3. peer[c] # "value" /\ peer'[c] # "value"
      BY <2>3
    <3> QED
      BY <1>3, <2>1, <3>2, <3>3 DEF Frame
  <2> QED
    BY <2>1, <2>2, <2>3
<1>10. ASSUME NEW c \in Conns, Alive(c)', ReadFails(d) \/ closeconn(d)
       PROVE  Frame(rx[c], Middle(c), peer[c])'
  <2>1. CASE c = d
    BY <1>2, <1>10, <2>1 DEF ReadFails, closeconn, PeerGone, Alive, Up
  <2>2. CASE c # d
    <3>1. rx'[c] = rx[c] /\ peer'[c] = peer[c] /\ backlog' = backlog
      BY <1>2, <1>10, <2>2 DEF ReadFails, closeconn, PeerGone
    <3> QED
      BY <1>5, <1>10, <3>1
  <2> QED
    BY <2>1, <2>2
<1>11. ASSUME NEW c \in Conns, Alive(c)' PROVE Frame(rx[c], Middle(c), peer[c])'
  BY <1>7, <1>8, <1>9, <1>10, <1>11 DEF client_hashserver2, Continue
<1> QED
  BY <1>11 DEF FramedOK

\* Accepting a connection reads nothing of its stream.
LEMMA AcceptorFramed ==
  ASSUME ServerInv, Own, FramedOK, tcpserver
  PROVE  FramedOK'
<1>1. /\ th' = th /\ rx' = rx /\ peer' = peer
  BY DEF tcpserver, Accept, Choose, WaitForRoom, open_socket, SetSocket, CountActive, kernel, peers
<1>2. \A u \in Threads : th[u].i \in Slots
  BY DEF ServerInv, ThreadsOK, Thread
<1>3. ASSUME NEW c \in Conns PROVE Middle(c)' = Middle(c)
  <2>1. CASE SetSocket
    <3>1. \A u \in Threads, k \in Slots : Serves(u, k, c)' <=> Serves(u, k, c) \/ (u = cid /\ k = sid /\ c = fdt[s1])
      BY <2>1, SetSocketOwn
    <3>2. \A u \in Threads : th[u].pc = "value" => ~(u = cid /\ th[u].i = sid)
      BY <2>1, SetSocketHeld
    <3>3. \A u \in Threads : th[u].pc = "value" => (Serves(u, th[u].i, c)' <=> Serves(u, th[u].i, c))
      BY <1>1, <1>2, <3>1, <3>2
    <3> QED
      BY <1>1, <3>3 DEF Middle
  <2>2. CASE ~SetSocket
    BY <1>1, <2>2, SameMiddle, AcceptOwn, AcceptorOwn DEF tcpserver, ServerInv
  <2> QED
    BY <2>1, <2>2
<1>4. ASSUME NEW c \in Conns, Alive(c)' PROVE Alive(c)
  <2>1. CASE Accept
    <3>1. PICK d \in backlog, f \in Fds : fdt[f] = NULL /\ fdt' = [fdt EXCEPT ![f] = d] /\ backlog' = backlog \ {d}
      BY <2>1, AcceptEffect
    <3>2. fdt \in [Fds -> Conns \cup {NULL}]
      BY DEF ServerInv, Types
    <3>3. CASE c = d
      BY <1>1, <1>4, <3>1, <3>3 DEF Alive
    <3>4. CASE c # d
      <4>1. Connected(c)' => Connected(c)
        BY <3>1, <3>2, <3>4 DEF Connected
      <4> QED
        BY <1>1, <1>4, <3>1, <4>1 DEF Alive
    <3> QED
      BY <3>3, <3>4
  <2>2. CASE ~Accept
    <3>1. fdt' = fdt /\ backlog' = backlog
      BY <2>2 DEF tcpserver, Choose, WaitForRoom, open_socket, SetSocket, CountActive, kernel
    <3> QED
      BY <1>1, <1>4, <3>1 DEF Alive, Connected
  <2> QED
    BY <2>1, <2>2
<1> QED
  BY <1>1, <1>3, <1>4 DEF FramedOK

\* A connection that is closed is not alive, the others are as they were.
LEMMA FcloseFramed ==
  ASSUME ServerInv, Own, FramedOK, NEW t \in Threads, Fclose(t)
  PROVE  FramedOK'
<1>1. PICK r \in Thread, f \in Fds :
        /\ r = [th[t] EXCEPT !.pc = "close"] /\ th' = [th EXCEPT ![t] = r] /\ th[t].pc = "fclose"
        /\ fdt' = [fdt EXCEPT ![f] = NULL] /\ rx' = [c \in Conns |-> IF c = fdt[f] THEN <<>> ELSE rx[c]]
        /\ UNCHANGED <<tx, backlog, peers, acceptor, sockets, nsockets, active_clients, ready, mixed>>
  BY FcloseEffect
<1>2. th \in [Threads -> Thread] /\ fdt \in [Fds -> Conns \cup {NULL}] /\ \A u \in Threads : th[u].i \in Slots
  BY DEF ServerInv, ThreadsOK, Types, Thread
<1>3. th'[t].pc # "value" /\ th[t].pc # "value" /\ \A u \in Threads : u # t => th'[u] = th[u]
  BY <1>1, <1>2 DEF Thread
<1>4. ASSUME NEW c \in Conns, Alive(c)' PROVE Alive(c) /\ c # fdt[f]
  <2>1. Connected(c)' => Connected(c) /\ c # fdt[f]
    <3>1. ASSUME NEW g \in Fds, fdt'[g] = c PROVE g # f /\ fdt[g] = c
      BY <1>1, <1>2, <3>1, ConstantFacts
    <3>2. ASSUME NEW g \in Fds, fdt'[g] = c PROVE c # fdt[f]
      <4>1. g # f /\ fdt[g] = c /\ c # NULL
        BY <3>1, <3>2, ConstantFacts
      <4> QED
        BY <4>1 DEF ServerInv, KernelOK
    <3> QED
      BY <3>1, <3>2 DEF Connected
  <2>2. c \in backlog => c # fdt[f]
    BY DEF ServerInv, KernelOK
  <2> QED
    BY <1>1, <1>4, <2>1, <2>2 DEF Alive, peers
<1>5. ASSUME NEW c \in Conns PROVE Middle(c)' = Middle(c)
  <2>1. \A u \in Threads, k \in Slots : Serves(u, k, c)' <=> Serves(u, k, c) /\ ~(u = t /\ k = th[t].i)
    BY FcloseOwn
  <2>2. \A u \in Threads : u # t => (Serves(u, th[u].i, c)' <=> Serves(u, th[u].i, c))
    BY <1>2, <1>3, <2>1
  <2> QED
    BY <1>3, <2>2 DEF Middle
<1>6. ASSUME NEW c \in Conns, Alive(c)' PROVE Frame(rx[c], Middle(c), peer[c])'
  <2>1. Alive(c) /\ c # fdt[f]
    BY <1>4, <1>6
  <2>2. rx'[c] = rx[c] /\ peer' = peer
    BY <1>1, <2>1 DEF peers
  <2> QED
    BY <1>5, <2>1, <2>2 DEF FramedOK
<1> QED
  BY <1>6 DEF FramedOK


\* clientgo reads an insert together with its value.
LEMMA ThreadFramed ==
  ASSUME ServerInv, Own, FramedOK, NEW t \in Threads, clientgo(t), ~Fclose(t), ~mixed'
  PROVE  FramedOK'
<1>1. SameServes /\ fdt' = fdt /\ backlog' = backlog
  BY ThreadOwn
<1>2. peer' = peer
  BY PeersStay
<1>3. /\ rx \in [Conns -> Seq(Object)] /\ th \in [Threads -> Thread] /\ \A u \in Threads : th[u].i \in Slots
  BY DEF ServerInv, Types, ThreadsOK, Thread
<1>4. \A c \in Conns : Alive(c)' <=> Alive(c)
  BY <1>1, <1>2 DEF Alive, Connected
<1>5. ASSUME NEW r \in Thread, th' = [th EXCEPT ![t] = r]
      PROVE  /\ th'[t] = r /\ r.i \in Slots /\ \A u \in Threads : u # t => th'[u] = th[u]
             /\ \A u \in Threads, c \in Conns : u # t => (Serves(u, th[u].i, c)' <=> Serves(u, th[u].i, c))
             /\ \A c \in Conns : r.i = th[t].i => (Serves(t, th[t].i, c)' <=> Serves(t, th[t].i, c))
  <2>1. th'[t] = r /\ r.i \in Slots /\ \A u \in Threads : u # t => th'[u] = th[u]
    BY <1>3, <1>5 DEF Thread
  <2> QED
    BY <1>1, <1>3, <2>1 DEF SameServes
<1>6. ASSUME NEW r \in Thread, th' = [th EXCEPT ![t] = r], th[t].pc # "value", r.pc # "value", NEW c \in Conns
      PROVE  Middle(c)' = Middle(c)
  BY <1>5, <1>6 DEF Middle
<1>7. ASSUME NEW r \in Thread, th' = [th EXCEPT ![t] = r], r.i = th[t].i, NEW c \in Conns, ~Serves(t, th[t].i, c)
      PROVE  Middle(c)' = Middle(c)
  BY <1>5, <1>7 DEF Middle
<1>8. ASSUME NEW r \in Thread, th' = [th EXCEPT ![t] = r], rx' = rx, th[t].pc # "value", r.pc # "value"
      PROVE  FramedOK'
  BY <1>2, <1>4, <1>6, <1>8 DEF FramedOK
<1>9. ASSUME NEW r \in Thread, Gathers(t, r) PROVE FramedOK'
  <2>1. th' = [th EXCEPT ![t] = r]
    BY <1>9 DEF Gathers
  <2>2. CASE rx' = rx /\ th[t].pc \notin {"value", "fclose"} /\ r.pc \notin {"value", "fclose"}
    BY <1>8, <2>1, <2>2
  <2>3. CASE /\ rx' = rx /\ Held(t, th[t].i) /\ Stream(t) = "error" /\ th[t].pc # "fclose"
             /\ r.pc = "fclose" /\ r.i = th[t].i
    <3>1. ASSUME NEW c \in Conns, Alive(c) PROVE Middle(c)' = Middle(c)
      <4>1. peer[c] # "closed"
        BY <3>1 DEF Alive, Up
      <4>2. ~Serves(t, th[t].i, c)
        BY <2>3, <4>1, EndedClosed
      <4> QED
        BY <1>7, <2>1, <2>3, <4>2
    <3> QED
      BY <1>2, <1>4, <2>3, <3>1 DEF FramedOK
  <2>4. ASSUME NEW c \in Conns,
               /\ Held(t, th[t].i) /\ c = fdt[sockets[t][th[t].i]] /\ rx[c] # <<>> /\ rx[c][1] \in Object
               /\ rx' = [rx EXCEPT ![c] = Tail(@)] /\ r.i = th[t].i /\ th[t].pc # "fclose"
               /\ th[t].pc # "value" => /\ r.pc = "value" <=> rx[c][1].op = "insert"
                                        /\ r.pc = "fclose" => rx[c][1].op \in {"bad", "value"}
               /\ th[t].pc = "value" => r.pc = "gather"
        PROVE  FramedOK'
    <3>1. Serves(t, th[t].i, c)
      BY <2>4 DEF Serves
    <3>2. ASSUME NEW d \in Conns, d # c, Alive(d) PROVE Frame(rx[d], Middle(d), peer[d])'
      <4>1. ~Serves(t, th[t].i, d)
        BY <2>4, <3>2 DEF Serves
      <4>2. Middle(d)' = Middle(d)
        BY <1>7, <2>1, <2>4, <4>1
      <4>3. rx'[d] = rx[d]
        BY <1>3, <2>4, <3>2
      <4> QED
        BY <1>2, <3>2, <4>2, <4>3 DEF FramedOK
    <3>3. ASSUME Alive(c) PROVE Frame(rx[c], Middle(c), peer[c])'
      <4>1. Frame(rx[c], Middle(c), peer[c])
        BY <3>3 DEF FramedOK
      <4>2. \A u \in Threads : Serves(u, th[u].i, c) => u = t
        BY <1>3, <3>1, ServesUnique
      <4>3. Serves(t, th[t].i, c)'
        BY <1>5, <2>1, <2>4, <3>1
      <4>4. \A u \in Threads : Serves(u, th[u].i, c)' => u = t
        BY <1>5, <2>1, <4>2
      <4>5. Middle(c)' # {} <=> r.pc = "value"
        BY <1>5, <2>1, <4>3, <4>4 DEF Middle
      <4>6. th[t].pc = "value" => rx[c][1].op = "value"
        BY <2>4, <3>1, <4>1 DEF Frame, Middle
      <4>7. Middle(c)' # {} <=> rx[c][1].op = "insert"
        BY <2>4, <4>5, <4>6
      <4>8. PICK m : m = Middle(c)'
        OBVIOUS
      <4>9. rx[c] \in Seq(Object) /\ rx'[c] = Tail(rx[c])
        BY <1>3, <2>4
      <4>10. Frame(Tail(rx[c]), m, peer[c])
        BY <2>4, <4>1, <4>7, <4>8, <4>9, FrameTail
      <4> QED
        BY <1>2, <4>8, <4>9, <4>10
    <3> QED
      BY <1>4, <3>2, <3>3 DEF FramedOK
  <2> QED
    BY <1>9, <2>2, <2>3, <2>4, GatherLabels
<1> QED
  BY <1>8, <1>9, ThreadKinds

-----------------------------------------------------------------------------
(* WellBehavedKept: what is closed, and what stays. *)

\* Steps after which no thread begins to close and no slot serves another.
LEMMA SameDrops ==
  ASSUME ServerInv, [Next]_vars, DropsOK, NEW t \in Threads, NEW c \in Conns, th[t].pc = "fclose",
         Serves(t, th[t].i, c)
  PROVE  Dropped(c)'
BY DroppedStays DEF DropsOK

\* Every step keeps it true that only such a connection is about to be closed.
LEMMA DropsStep ==
  ASSUME ServerInv, Own, FramedOK, RxTraced, DropsOK, [Next]_vars, ~mixed'
  PROVE  DropsOK'
<1>1. th \in [Threads -> Thread] /\ \A u \in Threads : th[u].i \in Slots
  BY DEF ServerInv, ThreadsOK, Thread
<1>2. ASSUME th' = th, SameServes PROVE DropsOK'
  <2>1. \A t \in Threads, c \in Conns : Serves(t, th[t].i, c)' => Serves(t, th[t].i, c)
    BY <1>1, <1>2 DEF SameServes
  <2> QED
    BY <1>2, <2>1, SameDrops DEF DropsOK
<1>3. ASSUME SetSocket PROVE DropsOK'
  <2>1. \A u \in Threads, k \in Slots, c \in Conns :
               Serves(u, k, c)' <=> Serves(u, k, c) \/ (u = cid /\ k = sid /\ c = fdt[s1])
    BY <1>3, SetSocketOwn
  <2>2. th' = th /\ \A u \in Threads : th[u].pc = "fclose" => ~(u = cid /\ th[u].i = sid)
    BY <1>3, SetSocketHeld
  <2>3. \A t \in Threads, c \in Conns : th[t].pc = "fclose" /\ Serves(t, th[t].i, c)' => Serves(t, th[t].i, c)
    BY <1>1, <2>1, <2>2
  <2> QED
    BY <2>2, <2>3, SameDrops DEF DropsOK
<1>4. ASSUME NEW t \in Threads, NEW r \in Thread, th' = [th EXCEPT ![t] = r],
             \A u \in Threads, k \in Slots, c \in Conns : Serves(u, k, c)' => Serves(u, k, c),
             \A c \in Conns : r.pc = "fclose" /\ Serves(t, r.i, c) => Dropped(c)
      PROVE  DropsOK'
  <2>1. th'[t] = r /\ r.i \in Slots /\ \A u \in Threads : u # t => th'[u] = th[u]
    BY <1>1, <1>4 DEF Thread
  <2>2. ASSUME NEW c \in Conns, r.pc = "fclose", Serves(t, th[t].i, c)' PROVE Dropped(c)'
    <3>1. Serves(t, r.i, c)
      BY <1>4, <2>1, <2>2
    <3> QED
      BY <1>4, <2>2, <3>1, DroppedStays
  <2>3. ASSUME NEW u \in Threads, u # t, NEW c \in Conns, th[u].pc = "fclose", Serves(u, th[u].i, c)'
        PROVE  Dropped(c)'
    <3>1. Serves(u, th[u].i, c)
      BY <1>1, <1>4, <2>1, <2>3
    <3> QED
      BY <2>3, <3>1, SameDrops
  <2> QED
    BY <2>1, <2>2, <2>3 DEF DropsOK
<1>5. ASSUME NEW t \in Threads, Fclose(t) PROVE DropsOK'
  <2>1. PICK r \in Thread : r = [th[t] EXCEPT !.pc = "close"] /\ th' = [th EXCEPT ![t] = r]
    BY <1>5, FcloseEffect
  <2>2. r.pc # "fclose"
    BY <1>1, <2>1 DEF Thread
  <2>3. \A u \in Threads, k \in Slots, c \in Conns : Serves(u, k, c)' => Serves(u, k, c)
    BY <1>5, FcloseOwn
  <2> QED
    BY <1>4, <2>1, <2>2, <2>3
<1>6. ASSUME NEW t \in Threads, clientgo(t), ~Fclose(t) PROVE DropsOK'
  <2>1. \A u \in Threads, k \in Slots, c \in Conns : Serves(u, k, c)' => Serves(u, k, c)
    BY <1>6, ThreadOwn DEF SameServes
  <2>2. ASSUME NEW r \in Thread, th' = [th EXCEPT ![t] = r], r.pc # "fclose" PROVE DropsOK'
    BY <1>4, <2>1, <2>2
  <2>3. ASSUME NEW r \in Thread, Gathers(t, r) PROVE DropsOK'
    <3>1. th' = [th EXCEPT ![t] = r]
      BY <2>3 DEF Gathers
    <3>2. CASE r.pc # "fclose"
      BY <2>2, <3>1, <3>2
    <3>3. CASE /\ rx' = rx /\ Held(t, th[t].i) /\ Stream(t) = "error" /\ th[t].pc # "fclose"
               /\ r.pc = "fclose" /\ r.i = th[t].i
      <4>1. \A c \in Conns : Serves(t, r.i, c) => Dropped(c)
        BY <3>3, EndedClosed DEF Dropped
      <4> QED
        BY <1>4, <2>1, <3>1, <4>1
    <3>4. ASSUME NEW c \in Conns,
               /\ Held(t, th[t].i) /\ c = fdt[sockets[t][th[t].i]] /\ rx[c] # <<>> /\ rx[c][1] \in Object
               /\ rx' = [rx EXCEPT ![c] = Tail(@)] /\ r.i = th[t].i /\ th[t].pc # "fclose"
               /\ th[t].pc # "value" => /\ r.pc = "value" <=> rx[c][1].op = "insert"
                                        /\ r.pc = "fclose" => rx[c][1].op \in {"bad", "value"}
               /\ th[t].pc = "value" => r.pc = "gather",
               r.pc = "fclose"
          PROVE  DropsOK'
      <4>1. Serves(t, th[t].i, c) /\ th[t].pc # "value" /\ rx[c][1].op \in {"bad", "value"}
        BY <3>4 DEF Serves
      <4>7. rx[c] \in Seq(Object)
        BY DEF ServerInv, Types
      <4>2. 1 \in 1..Len(rx[c])
        BY <3>4, <4>7, NotEmpty
      <4>3. ASSUME rx[c][1].op = "bad" PROVE Dropped(c)
        <5>1. rx[c][1].no \in 1..Len(asked[c]) /\ asked[c][rx[c][1].no].op = "bad"
          BY <4>2, <4>3 DEF RxTraced, Traced, Mute
        <5> QED
          BY <5>1 DEF Dropped, SentBad
      <4>4. ASSUME rx[c][1].op = "value", peer[c] # "closed" PROVE FALSE
        <5>1. Alive(c)
          BY <1>1, <4>1, <4>4, ServedAlive
        <5>2. Middle(c) # {}
          BY <3>4, <4>4, <5>1 DEF FramedOK, Frame
        <5>3. PICK u \in Threads : th[u].pc = "value" /\ Serves(u, th[u].i, c)
          BY <5>2 DEF Middle
        <5>4. u = t
          BY <1>1, <4>1, <5>3, ServesUnique
        <5> QED
          BY <4>1, <5>3, <5>4
      <4>5. Dropped(c)
        BY <4>1, <4>3, <4>4 DEF Dropped
      <4>6. \A d \in Conns : Serves(t, r.i, d) => d = c
        BY <3>4 DEF Serves
      <4> QED
        BY <1>4, <2>1, <3>1, <4>5, <4>6
    <3> QED
      BY <2>3, <3>2, <3>3, <3>4, GatherLabels
  <2> QED
    BY <1>6, <2>2, <2>3, ThreadKinds
<1>7. ASSUME UNCHANGED vars PROVE DropsOK'
  <2>1. th' = th /\ sockets' = sockets /\ fdt' = fdt
    BY <1>7 DEF vars, cdata, kernel
  <2> QED
    BY <1>2, <2>1, UnchangedHeld, HeldSameServes
<1>8. ASSUME tcpserver, ~SetSocket PROVE DropsOK'
  <2>1. th' = th
    BY <1>8 DEF tcpserver, Accept, Choose, WaitForRoom, open_socket, CountActive
  <2> QED
    BY <1>2, <1>8, <2>1, AcceptOwn, AcceptorOwn DEF tcpserver
<1>9. ASSUME NEW c \in Conns, client_hashserver2(c) PROVE DropsOK'
  BY <1>2, <1>9, ClientOwn
<1> QED
  BY <1>3, <1>5, <1>6, <1>7, <1>8, <1>9 DEF Next, Spin

\* Every step keeps the other connections.
LEMMA KeptStep ==
  ASSUME ServerInv, Own, DropsOK, KeptOK, [Next]_vars, ~mixed'
  PROVE  KeptOK'
<1>1. fdt \in [Fds -> Conns \cup {NULL}]
  BY DEF ServerInv, Types
<1>2. \A c \in Conns : ~SentBad(c)' => ~SentBad(c)
  BY SentBadStays
<1>3. ASSUME peer' = peer, fdt' = fdt, backlog' = backlog PROVE KeptOK'
  BY <1>2, <1>3 DEF KeptOK, Connected
<1>4. ASSUME NEW d \in Conns, client_hashserver2(d) PROVE KeptOK'
  <2>1. fdt' = fdt
    BY <1>4, ClientOwn
  <2>2. \A c \in Conns : peer'[c] \in Up /\ c \notin backlog' => peer[c] \in Up /\ c \notin backlog
    BY <1>4, ClientPeer
  <2> QED
    BY <1>2, <2>1, <2>2 DEF KeptOK, Connected
<1>5. ASSUME Accept PROVE KeptOK'
  <2>1. PICK d \in backlog, f \in Fds : /\ fdt[f] = NULL /\ fdt' = [fdt EXCEPT ![f] = d] /\ backlog' = backlog \ {d}
                                        /\ UNCHANGED peers
    BY <1>5, AcceptEffect
  <2>2. Connected(d)'
    BY <1>1, <2>1 DEF Connected
  <2>3. ASSUME NEW c \in Conns, Connected(c) PROVE Connected(c)'
    <3>1. PICK g \in Fds : fdt[g] = c
      BY <2>3 DEF Connected
    <3>2. g # f
      BY <2>1, <3>1, ConstantFacts
    <3>3. fdt'[g] = c
      BY <1>1, <2>1, <3>1, <3>2
    <3> QED
      BY <3>3 DEF Connected
  <2> QED
    BY <1>2, <2>1, <2>2, <2>3 DEF KeptOK, peers
<1>6. ASSUME tcpserver, ~Accept PROVE KeptOK'
  <2>1. fdt' = fdt /\ backlog' = backlog /\ peer' = peer
    BY <1>6 DEF tcpserver, Choose, WaitForRoom, open_socket, SetSocket, CountActive, kernel, peers
  <2> QED
    BY <1>3, <2>1
<1>7. ASSUME NEW t \in Threads, Fclose(t) PROVE KeptOK'
  <2>1. PICK f \in Fds :
            /\ th[t].pc = "fclose" /\ Held(t, th[t].i) /\ f = sockets[t][th[t].i]
            /\ fdt' = [fdt EXCEPT ![f] = NULL]
            /\ UNCHANGED <<tx, backlog, peers, acceptor, sockets, nsockets, active_clients, ready, mixed>>
    BY <1>7, FcloseEffect
  <2>2. ASSUME NEW c \in Conns, c = fdt[f] PROVE Dropped(c)
    BY <2>1, <2>2 DEF DropsOK, Serves
  <2>3. ASSUME NEW c \in Conns, c # fdt[f], Connected(c) PROVE Connected(c)'
    <3>1. PICK g \in Fds : fdt[g] = c
      BY <2>3 DEF Connected
    <3>2. fdt'[g] = c
      BY <1>1, <2>1, <2>3, <3>1
    <3> QED
      BY <3>2 DEF Connected
  <2>4. "closed" \notin Up
    BY DEF Up
  <2>5. ASSUME NEW c \in Conns, peer[c] \in Up, c \notin backlog, ~SentBad(c) PROVE Connected(c)'
    <3>1. Connected(c)
      BY <2>5 DEF KeptOK
    <3>2. c # fdt[f]
      BY <2>2, <2>4, <2>5 DEF Dropped
    <3> QED
      BY <2>3, <3>1, <3>2
  <2> QED
    BY <1>2, <2>1, <2>5 DEF KeptOK, peers
<1>8. ASSUME NEW t \in Threads, clientgo(t), ~Fclose(t) PROVE KeptOK'
  BY <1>3, <1>8, ThreadOwn, PeersStay
<1>9. ASSUME UNCHANGED vars PROVE KeptOK'
  BY <1>3, <1>9 DEF vars, kernel, peers
<1> QED
  BY <1>4, <1>5, <1>6, <1>7, <1>8, <1>9 DEF Next, Spin

\* Streams are framed, and only what may be is dropped, while no descriptor has
\* been confused with another.
KeptInv == mixed \/ (Own /\ FramedOK /\ DropsOK /\ KeptOK)

\* Every step keeps streams framed and clients connected.
LEMMA KeptInvStep ==
  ASSUME ServerInv, RxTraced, KeptInv, [Next]_vars
  PROVE  KeptInv'
<1> SUFFICES ASSUME ~mixed' PROVE Own' /\ FramedOK' /\ DropsOK' /\ KeptOK'
  BY DEF KeptInv
<1>1. ~mixed /\ Own /\ FramedOK /\ DropsOK /\ KeptOK
  BY MixedStays DEF KeptInv
<1>2. Own'
  BY <1>1, OwnStep DEF OwnInv
<1>3. FramedOK'
  <2>1. ASSUME UNCHANGED vars PROVE FramedOK'
    <3>1. th' = th /\ sockets' = sockets /\ fdt' = fdt /\ rx' = rx /\ peer' = peer /\ backlog' = backlog
      BY <2>1 DEF vars, cdata, kernel, peers
    <3>2. \A c \in Conns : Middle(c)' = Middle(c)
      BY <3>1, UnchangedHeld, HeldSameServes, SameMiddle DEF ServerInv
    <3> QED
      BY <1>1, <3>1, <3>2 DEF FramedOK, Alive, Connected
  <2> QED
    BY <1>1, <2>1, ClientFramed, AcceptorFramed, FcloseFramed, ThreadFramed DEF Next, Spin
<1>4. DropsOK' /\ KeptOK'
  BY <1>1, DropsStep, KeptStep
<1> QED
  BY <1>2, <1>3, <1>4

\* The invariant that WellBehavedKept follows from.
LEMMA KeptInvariant == Spec => []KeptInv
<1>1. Init => KeptInv
  <2>1. ASSUME Init PROVE Own
    BY <2>1 DEF Init, Own, Held, Opening
  <2>2. ASSUME Init PROVE FramedOK
    BY <2>2 DEF Init, FramedOK, Alive, Up
  <2>3. ASSUME Init PROVE DropsOK
    BY <2>3 DEF Init, DropsOK
  <2>4. ASSUME Init PROVE KeptOK
    BY <2>4 DEF Init, KeptOK, Up
  <2> QED
    BY <2>1, <2>2, <2>3, <2>4 DEF KeptInv
<1>2. ServerInv /\ RxTraced /\ KeptInv /\ [Next]_vars => KeptInv'
  BY KeptInvStep
<1> QED
  BY <1>1, <1>2, ServerInvariant, RxInvariant, PTL DEF Spec

\* clientgo closes no connection whose client keeps to the protocol: a request
\* in parts, a value that is late or a full batch is never taken for the end of
\* the stream or for an unknown request.
THEOREM ClientsKept == Spec => []WellBehavedKept
<1>1. KeptInv => WellBehavedKept
  BY DEF KeptInv, KeptOK, SentBad, WellBehavedKept
<1> QED
  BY <1>1, KeptInvariant, PTL


-----------------------------------------------------------------------------
(* AnswersRight: the lookups that have been read. *)

IsLookup(a, n) == n \in 1..Len(a) /\ a[n].op = "lookup"
Ahead(s, n) == \A i \in 1..Len(s) : s[i].op = "lookup" => n < s[i].no

\* Lookup n of connection c has been read: those still to be read are later ones.
WasRead(c, n) == IsLookup(asked[c], n) /\ Ahead(rx[c], n)

\* Reading leaves later lookups.
LEMMA AheadTail ==
  ASSUME NEW s \in Seq(Object), NEW n, Ahead(s, n), s # <<>>
  PROVE  Ahead(Tail(s), n)
<1>1. PICK x : x = Tail(s)
  OBVIOUS
<1>2. \A i \in 1..Len(x) : i + 1 \in 1..Len(s) /\ x[i] = s[i + 1]
  BY <1>1
<1>3. Ahead(x, n)
  BY <1>2 DEF Ahead
<1> QED
  BY <1>1, <1>3

\* A lookup that is asked is later than the ones read.
LEMMA AheadAppend ==
  ASSUME NEW s \in Seq(Object), NEW n, Ahead(s, n), NEW x \in Object, x.op = "lookup" => n < x.no
  PROVE  Ahead(Append(s, x), n)
<1>1. PICK y : y = Append(s, x)
  OBVIOUS
<1>2. Len(y) = Len(s) + 1 /\ y[Len(s) + 1] = x /\ \A i \in 1..Len(s) : y[i] = s[i]
  BY <1>1
<1>3. \A i \in 1..Len(y) : i = Len(s) + 1 \/ i \in 1..Len(s)
  BY <1>2
<1>4. Ahead(y, n)
  BY <1>2, <1>3 DEF Ahead
<1> QED
  BY <1>1, <1>4

\* A request and its number make what goes on the stream.
LEMMA QueryObject ==
  ASSUME NEW c \in Conns, NEW q \in Requests[c], NEW n \in Nat
  PROVE  /\ q \in Request /\ [op |-> q.op, key |-> q.key, no |-> n] \in Object
         /\ [op |-> q.op, key |-> q.key, no |-> n].no = n /\ [op |-> q.op, key |-> q.key, no |-> n].op = q.op
BY ServerAssumption DEF Request, Object

\* A lookup that was read stays read, and stays the one it was.
LEMMA ReadStays ==
  ASSUME ServerInv, [Next]_vars, NEW c \in Conns, NEW n, WasRead(c, n)
  PROVE  WasRead(c, n)' /\ asked'[c][n] = asked[c][n]
<1>1. n \in 1..Len(asked[c]) /\ asked[c][n].op = "lookup" /\ Ahead(rx[c], n)
  BY DEF WasRead, IsLookup
<1>2. n \in 1..Len(asked'[c]) /\ asked'[c][n] = asked[c][n]
  BY <1>1, AskedStays
<1>3. rx[c] \in Seq(Object) /\ asked[c] \in Seq(Request)
  BY DEF ServerInv, Types
<1>4. Len(asked[c]) \in Nat /\ n < Len(asked[c]) + 1 /\ Len(asked[c]) + 1 \in Nat
  BY <1>1, <1>3
<1>5. Ahead(rx'[c], n)
  <2>1. CASE rx'[c] = rx[c]
    BY <1>1, <2>1
  <2>2. CASE rx'[c] = <<>>
    BY <2>2 DEF Ahead
  <2>3. CASE rx[c] # <<>> /\ rx'[c] = Tail(rx[c])
    BY <1>1, <1>3, <2>3, AheadTail
  <2>4. CASE \E x \in {[op |-> "part"], [op |-> "value"]} : rx'[c] = Append(rx[c], x)
    <3>1. PICK x \in {[op |-> "part"], [op |-> "value"]} : rx'[c] = Append(rx[c], x)
      BY <2>4
    <3>2. x \in Object /\ x.op # "lookup"
      BY DEF Object
    <3> QED
      BY <1>1, <1>3, <3>1, <3>2, AheadAppend
  <2>5. CASE \E q \in Requests[c] : rx'[c] = Append(rx[c], [op |-> q.op, key |-> q.key, no |-> Len(asked[c]) + 1])
    <3>1. PICK q \in Requests[c] : rx'[c] = Append(rx[c], [op |-> q.op, key |-> q.key, no |-> Len(asked[c]) + 1])
      BY <2>5
    <3>2. PICK x : x = [op |-> q.op, key |-> q.key, no |-> Len(asked[c]) + 1]
      OBVIOUS
    <3>3. x \in Object /\ x.no = Len(asked[c]) + 1
      BY <1>4, <3>2, QueryObject
    <3>4. Ahead(Append(rx[c], x), n)
      BY <1>1, <1>3, <1>4, <3>3, AheadAppend
    <3> QED
      BY <3>1, <3>2, <3>4
  <2> QED
    BY <2>1, <2>2, <2>3, <2>4, <2>5, RxChange
<1>6. WasRead(c, n)'
  BY <1>1, <1>2, <1>5 DEF WasRead, IsLookup
<1> QED
  BY <1>2, <1>6

\* The lookups of a batch have been read, and are in the order they were made.
QueryRead(q) ==
  q.op = "lookup" => /\ q.from \notin backlog /\ peer[q.from] # "new"
                     /\ WasRead(q.from, q.no) /\ asked[q.from][q.no].key = q.key
Ordered(b) ==
  \A i, j \in 1..Len(b) :
    i < j /\ b[i].op = "lookup" /\ b[j].op = "lookup" /\ b[i].from = b[j].from => b[i].no < b[j].no
BatchTraced == \A t \in Threads : Ordered(th[t].batch) /\ \A j \in 1..Len(th[t].batch) : QueryRead(th[t].batch[j])

\* So do the lookups of a batch.
LEMMA QueryReadStays ==
  ASSUME ServerInv, [Next]_vars, NEW q \in Query, QueryRead(q)
  PROVE  QueryRead(q)'
<1> SUFFICES ASSUME q.op = "lookup"
             PROVE  /\ q.from \notin backlog' /\ peer'[q.from] # "new"
                    /\ WasRead(q.from, q.no)' /\ asked'[q.from][q.no].key = q.key
  BY DEF QueryRead
<1>1. q.from \in Conns
  BY DEF Query
<1>2. q.from \notin backlog /\ peer[q.from] # "new" /\ WasRead(q.from, q.no) /\ asked[q.from][q.no].key = q.key
  BY DEF QueryRead
<1>3. PICK c \in Conns : c = q.from
  BY <1>1
<1>4. WasRead(c, q.no)' /\ asked'[c][q.no] = asked[c][q.no]
  BY <1>2, <1>3, ReadStays
<1>5. c \notin backlog' /\ peer'[c] # "new"
  <2>1. ASSUME NEW d \in Conns, client_hashserver2(d) PROVE c \notin backlog' /\ peer'[c] # "new"
    <3>1. "new" \notin Up \cup {"closed"}
      BY DEF Up
    <3> QED
      BY <1>2, <1>3, <2>1, <3>1, ClientPeer
  <2>2. ASSUME tcpserver PROVE backlog' \subseteq backlog /\ peer' = peer
    BY <2>2 DEF tcpserver, Accept, Choose, WaitForRoom, open_socket, SetSocket, CountActive, kernel, peers
  <2>3. ASSUME NEW t \in Threads, clientgo(t) PROVE backlog' = backlog /\ peer' = peer
    BY <2>3 DEF clientgo, close_socket, Gather, ReadRest, ReadValue, EndGather, Fclose, Close, UncountSocket,
       ClearSlot, UncountActive, AfterClose, doqueries, HandleLookup, HandleInsert, write_iovs, WriteNext, kernel, peers
  <2>4. ASSUME UNCHANGED vars PROVE backlog' = backlog /\ peer' = peer
    BY <2>4 DEF vars, kernel, peers
  <2> QED
    BY <1>2, <1>3, <2>1, <2>2, <2>3, <2>4 DEF Next, Spin
<1> QED
  BY <1>2, <1>3, <1>4, <1>5

\* A query joins a batch.
LEMMA OrderedAppend ==
  ASSUME NEW b \in Seq(Query), Ordered(b), NEW q \in Query,
         \A i \in 1..Len(b) : b[i].op = "lookup" /\ q.op = "lookup" /\ b[i].from = q.from => b[i].no < q.no
  PROVE  Ordered(Append(b, q))
<1>1. PICK y : y = Append(b, q)
  OBVIOUS
<1>2. Len(y) = Len(b) + 1 /\ y[Len(b) + 1] = q /\ (\A i \in 1..Len(b) : y[i] = b[i]) /\ Len(b) \in Nat
  BY <1>1
<1>3. ASSUME NEW i \in 1..Len(y), NEW j \in 1..Len(y), i < j, y[i].op = "lookup", y[j].op = "lookup",
             y[i].from = y[j].from
      PROVE  y[i].no < y[j].no
  <2>1. i \in 1..Len(b) /\ y[i] = b[i]
    BY <1>2, <1>3
  <2>2. CASE j = Len(b) + 1
    BY <1>2, <1>3, <2>1, <2>2
  <2>3. CASE j # Len(b) + 1
    <3>1. j \in 1..Len(b) /\ y[j] = b[j]
      BY <1>2, <2>3
    <3> QED
      BY <1>3, <2>1, <3>1 DEF Ordered
  <2> QED
    BY <2>2, <2>3
<1> QED
  BY <1>1, <1>3 DEF Ordered


-----------------------------------------------------------------------------
(* The steps of a client thread, by what they do to queries and answers. *)

Idles(t, r) == r.batch = th[t].batch /\ r.k = th[t].k /\ r.iov = th[t].iov /\ UNCHANGED <<rx, tx>>

\* The current lookup is handled: its answer is for the slot that it came from.
HandlesLookup(t, r, iov) ==
  /\ Handles(t, r, iov) /\ Current(t).op = "lookup"
  /\ iov = IF sockets[t][Current(t).sid] = Current(t).socket
             THEN [th[t].iov EXCEPT ![Current(t).sid] = Append(@, Answer(t))] ELSE th[t].iov
  /\ mixed' = (mixed \/ (/\ sockets[t][Current(t).sid] = Current(t).socket
                         /\ ConnOf(Current(t).socket) # Current(t).from))
  /\ UNCHANGED <<rx, tx>>

Steps(t, r) ==
  /\ Local(r) /\ th' = [th EXCEPT ![t] = r]
  /\ \/ Idles(t, r)
     \/ \E c \in Conns : Reads(t, c, r) /\ tx' = tx
     \/ \E iov \in [Slots -> Seq(Unit)] : HandlesLookup(t, r, iov)
     \/ Handles(t, r, th[t].iov) /\ Current(t).op = "insert" /\ UNCHANGED <<rx, tx>>
     \/ \E k \in Slots, e \in Unit, c \in Conns : WritesUnit(t, r, k, e, c) /\ rx' = rx
     \/ \E k \in Slots : WritesNothing(t, r, k) /\ UNCHANGED <<rx, tx>>
     \/ WritesNext(t, r) /\ UNCHANGED <<rx, tx>>

\* Every step of clientgo but fclose is one of these.
LEMMA ThreadCases ==
  ASSUME ServerInv, NEW t \in Threads, clientgo(t), ~Fclose(t)
  PROVE  \E r \in Thread : Steps(t, r)
<1>1. th[t] \in Thread
  BY DEF ServerInv, ThreadsOK
<1>2. CASE Gather(t) \/ ReadRest(t) \/ ReadValue(t) \/ EndGather(t) \/ AfterClose(t)
  <2>1. PICK r \in Thread : Gathers(t, r)
    BY <1>2, GatherEffect, AfterCloseEffect
  <2>2. Local(r) /\ th' = [th EXCEPT ![t] = r] /\ tx' = tx
    BY <2>1 DEF Gathers
  <2>3. CASE rx' = rx /\ Moves(t, r)
    <3>1. Idles(t, r)
      BY <1>1, <2>2, <2>3 DEF Moves, Idles, Thread
    <3> QED
      BY <2>2, <3>1 DEF Steps
  <2>4. CASE rx' = rx /\ Breaks(t, r)
    <3>1. Idles(t, r)
      BY <1>1, <2>2, <2>4 DEF Breaks, Idles, Thread
    <3> QED
      BY <2>2, <3>1 DEF Steps
  <2>5. CASE \E c \in Conns : Reads(t, c, r)
    BY <2>2, <2>5 DEF Steps
  <2> QED
    BY <2>1, <2>3, <2>4, <2>5 DEF Gathers
<1>3. ASSUME NEW r \in Thread, NEW l \in Label, Local(r), r = [th[t] EXCEPT !.pc = l], th' = [th EXCEPT ![t] = r],
             rx' = rx, tx' = tx
      PROVE  Steps(t, r)
  <2>1. Idles(t, r)
    BY <1>1, <1>3 DEF Idles, Thread
  <2> QED
    BY <1>3, <2>1 DEF Steps
<1>4. CASE Close(t)
  <2>1. PICK r \in Thread : Local(r) /\ r = [th[t] EXCEPT !.pc = "uncount"] /\ th' = [th EXCEPT ![t] = r] /\ rx' = rx /\ tx' = tx
    BY <1>4, CloseEffect
  <2>2. "uncount" \in Label
    BY DEF Label, Closing
  <2> QED
    BY <1>3, <2>1, <2>2
<1>5. CASE UncountSocket(t)
  <2>1. PICK r \in Thread : Local(r) /\ r = [th[t] EXCEPT !.pc = "clear"] /\ th' = [th EXCEPT ![t] = r] /\ UNCHANGED kernel
    BY <1>5, UncountSocketEffect
  <2>2. "clear" \in Label
    BY DEF Label, Closing
  <2> QED
    BY <1>3, <2>1, <2>2 DEF kernel
<1>6. CASE ClearSlot(t)
  <2>1. PICK r \in Thread : Local(r) /\ r = [th[t] EXCEPT !.pc = "inactive"] /\ th' = [th EXCEPT ![t] = r] /\ UNCHANGED kernel
    BY <1>6, ClearSlotEffect
  <2>2. "inactive" \in Label
    BY DEF Label, Closing
  <2> QED
    BY <1>3, <2>1, <2>2 DEF kernel
<1>7. CASE UncountActive(t)
  <2>1. PICK r \in Thread : Local(r) /\ r = [th[t] EXCEPT !.pc = "closed"] /\ th' = [th EXCEPT ![t] = r] /\ UNCHANGED kernel
    BY <1>7, UncountActiveEffect
  <2>2. "closed" \in Label
    BY DEF Label, Closing
  <2> QED
    BY <1>3, <2>1, <2>2 DEF kernel
<1>8. CASE doqueries(t)
  <2>1. PICK r \in Thread, v \in Value : /\ Local(r) /\ th' = [th EXCEPT ![t] = r] /\ Performs(t, r, v)
                                         /\ UNCHANGED <<kernel, peers, acceptor, cdata, mixed>>
    BY <1>8, PerformEffect
  <2>2. Idles(t, r)
    BY <1>1, <2>1 DEF Performs, Idles, Thread, kernel
  <2> QED
    BY <2>1, <2>2 DEF Steps
<1>9. CASE HandleLookup(t)
  <2>1. PICK r \in Thread, iov \in [Slots -> Seq(Unit)] :
           /\ Local(r) /\ th' = [th EXCEPT ![t] = r] /\ Handles(t, r, iov) /\ Current(t).op = "lookup"
           /\ iov = IF sockets[t][Current(t).sid] = Current(t).socket
                      THEN [th[t].iov EXCEPT ![Current(t).sid] = Append(@, Answer(t))] ELSE th[t].iov
           /\ mixed' = (mixed \/ (/\ sockets[t][Current(t).sid] = Current(t).socket
                                  /\ ConnOf(Current(t).socket) # Current(t).from))
           /\ UNCHANGED <<kernel, peers, acceptor, cdata, ready>>
    BY <1>9, HandleLookupEffect
  <2>2. HandlesLookup(t, r, iov)
    BY <2>1 DEF HandlesLookup, kernel
  <2> QED
    BY <2>1, <2>2 DEF Steps
<1>10. CASE HandleInsert(t)
  <2>1. PICK r \in Thread : /\ Local(r) /\ th' = [th EXCEPT ![t] = r] /\ Handles(t, r, th[t].iov)
                            /\ Current(t).op = "insert" /\ UNCHANGED <<kernel, peers, acceptor, cdata, mixed>>
    BY <1>10, HandleInsertEffect
  <2> QED
    BY <2>1 DEF Steps, kernel
<1>11. CASE write_iovs(t)
  <2>1. th[t].pc = "write" /\ th[t].iov[th[t].k] # <<>> /\ rx' = rx /\ (WriteUnit(t) \/ WriteError(t))
    BY <1>11 DEF write_iovs
  <2>2. CASE WriteUnit(t)
    <3>1. PICK r \in Thread, k \in Slots, e \in Unit, c \in Conns :
             Local(r) /\ th' = [th EXCEPT ![t] = r] /\ WritesUnit(t, r, k, e, c)
      BY <2>1, <2>2, WriteUnitEffect
    <3> QED
      BY <2>1, <3>1 DEF Steps
  <2>3. CASE WriteError(t)
    <3>1. PICK r \in Thread, k \in Slots :
             Local(r) /\ th' = [th EXCEPT ![t] = r] /\ WritesNothing(t, r, k) /\ tx' = tx
      BY <2>1, <2>3, WriteErrorEffect
    <3> QED
      BY <2>1, <3>1 DEF Steps
  <2> QED
    BY <2>1, <2>2, <2>3
<1>12. CASE WriteNext(t)
  <2>1. PICK r \in Thread : /\ Local(r) /\ th' = [th EXCEPT ![t] = r] /\ WritesNext(t, r)
                            /\ UNCHANGED <<kernel, peers, acceptor, cdata, ready, mixed>>
    BY <1>12, WriteNextEffect
  <2> QED
    BY <2>1 DEF Steps, kernel
<1> QED
  BY <1>2, <1>4, <1>5, <1>6, <1>7, <1>8, <1>9, <1>10, <1>11, <1>12 DEF clientgo, close_socket

\* A query that is read, and the batch it joins.
LEMMA ReadsJoins ==
  ASSUME ServerInv, NEW t \in Threads, NEW r \in Thread, NEW c \in Conns, Reads(t, c, r)
  PROVE  /\ r.k = 0 /\ th[t].k = 0 /\ r.iov = th[t].iov /\ \A s \in Slots : th[t].iov[s] = <<>>
         /\ \/ r.batch = th[t].batch /\ rx[c][1].op # "lookup"
            \/ \E q \in Query : /\ r.batch = Append(th[t].batch, q) /\ q.from = c /\ q.sid = th[t].i
                                /\ q.socket = sockets[t][th[t].i]
                                /\ q.op = "lookup" => /\ rx[c][1].op = "lookup"
                                                      /\ q.no = rx[c][1].no /\ q.key = rx[c][1].key
                                /\ q.op = "lookup" \/ th[t].pc = "value"
<1>1. th[t] \in Thread /\ Local(th[t]) /\ th[t].pc \notin {"do", "handle", "write"}
  BY DEF ServerInv, ThreadsOK, Reads
<1>2. th[t].k = 0 /\ \A s \in Slots : th[t].iov[s] = <<>>
  BY <1>1, Gathering
<1>3. Held(t, th[t].i) /\ rx[c][1] \in Object /\ th[t].i \in Slots /\ c = fdt[sockets[t][th[t].i]]
  BY <1>1 DEF Reads, Thread
<1>4. sockets[t][th[t].i] \in Fds
  BY <1>3, HeldFacts
<1>5. CASE th[t].pc \in {"gather", "rest"} /\ ReadsQuery(t, c, r)
  <2>1. CASE rx[c][1].op = "part" /\ r = [th[t] EXCEPT !.pc = "rest"]
    BY <1>1, <1>2, <2>1 DEF Thread
  <2>2. CASE /\ rx[c][1].op = "lookup"
             /\ r = [th[t] EXCEPT !.pc = "gather", !.last = th[t].i,
                           !.batch = Append(@, Joined(t, "lookup", rx[c][1].key, rx[c][1].no, c))]
    <3>1. PICK q : q = Joined(t, "lookup", rx[c][1].key, rx[c][1].no, c)
      OBVIOUS
    <3>2. rx[c][1].key \in Keys /\ rx[c][1].no \in Nat
      BY <1>3, <2>2, ObjectKinds
    <3>3. /\ q \in Query /\ q.from = c /\ q.sid = th[t].i /\ q.socket = sockets[t][th[t].i] /\ q.op = "lookup"
          /\ q.no = rx[c][1].no /\ q.key = rx[c][1].key
      BY <1>3, <1>4, <3>1, <3>2 DEF Joined, Query
    <3>4. r.batch = Append(th[t].batch, q) /\ r.k = th[t].k /\ r.iov = th[t].iov
      BY <1>1, <2>2, <3>1 DEF Thread
    <3> QED
      BY <1>2, <2>2, <3>3, <3>4
  <2>3. CASE rx[c][1].op = "insert" /\ r = [th[t] EXCEPT !.pc = "value", !.last = th[t].i, !.key = rx[c][1].key]
    BY <1>1, <1>2, <2>3 DEF Thread
  <2>4. CASE rx[c][1].op \in {"bad", "value"} /\ r = [th[t] EXCEPT !.pc = "fclose", !.last = th[t].i]
    BY <1>1, <1>2, <2>4 DEF Thread
  <2>5. CASE rx[c][1].op = "insert0" /\ r = [th[t] EXCEPT !.pc = "spin", !.last = th[t].i]
    BY <1>1, <1>2, <2>5 DEF Thread
  <2> QED
    BY <1>5, <2>1, <2>2, <2>3, <2>4, <2>5 DEF ReadsQuery
<1>6. CASE th[t].pc = "value" /\ ReadsValue(t, c, r)
  <2>1. PICK q : q = Joined(t, "insert", th[t].key, 0, c)
    OBVIOUS
  <2>2. th[t].key \in Keys
    BY <1>1, <1>6 DEF Local
  <2>3. q \in Query /\ q.from = c /\ q.sid = th[t].i /\ q.socket = sockets[t][th[t].i] /\ q.op = "insert"
    BY <1>3, <1>4, <2>1, <2>2 DEF Joined, Query
  <2>4. r.batch = Append(th[t].batch, q) /\ r.k = th[t].k /\ r.iov = th[t].iov
    BY <1>1, <1>6, <2>1 DEF Thread, ReadsValue
  <2> QED
    BY <1>2, <1>6, <2>3, <2>4
<1> QED
  BY <1>5, <1>6 DEF Reads


\* The first lookup on a stream, once it is read.
LEMMA HeadRead ==
  ASSUME NEW s \in Seq(Object), NEW a, Traced(s, a), s # <<>>, s[1].op = "lookup"
  PROVE  IsLookup(a, s[1].no) /\ a[s[1].no].key = s[1].key /\ Ahead(Tail(s), s[1].no)
<1>1. 1 \in 1..Len(s)
  BY NotEmpty
<1>2. s[1].no \in 1..Len(a) /\ a[s[1].no].op = "lookup" /\ a[s[1].no].key = s[1].key
  BY <1>1 DEF Traced, Mute
<1>3. PICK x : x = Tail(s)
  OBVIOUS
<1>4. \A i \in 1..Len(x) : i + 1 \in 1..Len(s) /\ x[i] = s[i + 1] /\ 1 < i + 1
  BY <1>3
<1>5. ASSUME NEW i \in 1..Len(x), x[i].op = "lookup" PROVE s[1].no < x[i].no
  BY <1>1, <1>4, <1>5 DEF Traced
<1>6. Ahead(x, s[1].no)
  BY <1>5 DEF Ahead
<1> QED
  BY <1>2, <1>3, <1>6 DEF IsLookup

\* A batch with one query more.
LEMMA AppendQueries ==
  ASSUME NEW b \in Seq(Query), NEW q \in Query, NEW y, y = Append(b, q)
  PROVE  /\ Len(y) = Len(b) + 1 /\ y[Len(b) + 1] = q /\ Len(b) \in Nat
         /\ \A i \in 1..Len(b) : y[i] = b[i] /\ i \in 1..Len(y)
         /\ \A i \in 1..Len(y) : i = Len(b) + 1 \/ i \in 1..Len(b)
OBVIOUS

\* The query that is read comes after the others of its connection.
LEMMA ReadsTraced ==
  ASSUME ServerInv, RxTraced, BatchTraced, [Next]_vars, NEW t \in Threads, NEW r \in Thread, NEW c \in Conns,
         Reads(t, c, r), peer' = peer, asked' = asked, backlog' = backlog
  PROVE  Ordered(r.batch) /\ \A j \in 1..Len(r.batch) : QueryRead(r.batch[j])'
<1>1. th[t].batch \in Seq(Query) /\ rx \in [Conns -> Seq(Object)]
  BY DEF ServerInv, ThreadsOK, Thread, Types
<1>2. PICK b \in Seq(Query) : b = th[t].batch
  BY <1>1
<1>6. Ordered(b) /\ \A j \in 1..Len(b) : QueryRead(b[j])
  BY <1>2 DEF BatchTraced
<1>3. \A j \in 1..Len(b) : QueryRead(b[j])' /\ b[j] \in Query
  BY <1>6, QueryReadStays
<1>4. CASE r.batch = th[t].batch
  BY <1>2, <1>3, <1>4, <1>6
<1>5. ASSUME NEW q \in Query, r.batch = Append(th[t].batch, q), q.from = c,
             q.op = "lookup" => rx[c][1].op = "lookup" /\ q.no = rx[c][1].no /\ q.key = rx[c][1].key
      PROVE  Ordered(r.batch) /\ \A j \in 1..Len(r.batch) : QueryRead(r.batch[j])'
  <2>1. rx[c] \in Seq(Object) /\ rx[c] # <<>> /\ rx'[c] = Tail(rx[c]) /\ Traced(rx[c], asked[c])
    BY <1>1 DEF Reads, RxTraced
  <2>2. QueryRead(q)'
    <3>1. CASE q.op # "lookup"
      BY <3>1 DEF QueryRead
    <3>2. CASE q.op = "lookup"
      <4>1. IsLookup(asked[c], q.no) /\ asked[c][q.no].key = q.key /\ Ahead(rx'[c], q.no)
        BY <1>5, <2>1, <3>2, HeadRead
      <4>2. Held(t, th[t].i) /\ c = fdt[sockets[t][th[t].i]] /\ th[t].i \in Slots
        BY DEF Reads, ServerInv, ThreadsOK, Thread
      <4>3. sockets[t][th[t].i] \in Fds
        BY <4>2, HeldFacts
      <4>4. c \notin backlog /\ peer[c] # "new"
        BY <4>2, <4>3 DEF ServerInv, KernelOK
      <4> QED
        BY <1>5, <4>1, <4>4 DEF QueryRead, WasRead
    <3> QED
      BY <3>1, <3>2
  <2>3. ASSUME NEW i \in 1..Len(b), b[i].op = "lookup", q.op = "lookup", b[i].from = q.from
        PROVE  b[i].no < q.no
    <3>1. Ahead(rx[c], b[i].no)
      BY <1>5, <1>6, <2>3 DEF QueryRead, WasRead
    <3>2. 1 \in 1..Len(rx[c])
      BY <2>1, NotEmpty
    <3> QED
      BY <1>5, <2>3, <3>1, <3>2 DEF Ahead
  <2>4. Ordered(r.batch)
    BY <1>2, <1>5, <1>6, <2>3, OrderedAppend
  <2>5. \A j \in 1..Len(r.batch) : r.batch[j] = q \/ (j \in 1..Len(b) /\ r.batch[j] = b[j])
    BY <1>2, <1>5, AppendQueries
  <2>6. ASSUME NEW j \in 1..Len(r.batch) PROVE QueryRead(r.batch[j])'
    <3>1. PICK p : p = r.batch[j]
      OBVIOUS
    <3>2. QueryRead(p)'
      BY <1>3, <2>2, <2>5, <3>1
    <3> QED
      BY <3>1, <3>2
  <2> QED
    BY <2>4, <2>6
<1> QED
  BY <1>4, <1>5, ReadsJoins

\* Every step keeps the batches in order.
LEMMA BatchTracedStep ==
  ASSUME ServerInv, RxTraced, BatchTraced, [Next]_vars
  PROVE  BatchTraced'
<1>1. th \in [Threads -> Thread]
  BY DEF ServerInv, ThreadsOK
<1>2. ASSUME NEW u \in Threads PROVE /\ th[u].batch \in Seq(Query) /\ Ordered(th[u].batch)
                                     /\ \A j \in 1..Len(th[u].batch) : QueryRead(th[u].batch[j])
  BY <1>1 DEF Thread, BatchTraced
<1>3. ASSUME NEW u \in Threads, th'[u].batch = th[u].batch
      PROVE  Ordered(th'[u].batch) /\ \A j \in 1..Len(th'[u].batch) : QueryRead(th[u].batch[j])'
  <2>1. PICK b \in Seq(Query) : b = th[u].batch
    BY <1>2
  <2>2. Ordered(b) /\ \A j \in 1..Len(b) : QueryRead(b[j])' /\ b[j] \in Query
    BY <1>2, <2>1, QueryReadStays
  <2> QED
    BY <1>3, <2>1, <2>2
<1>4. ASSUME NEW u \in Threads, th'[u].batch = <<>>
      PROVE  Ordered(th'[u].batch) /\ \A j \in 1..Len(th'[u].batch) : QueryRead(th[u].batch[j])'
  BY <1>4 DEF Ordered
<1>5. ASSUME NEW t \in Threads, NEW r \in Thread, th' = [th EXCEPT ![t] = r],
             r.batch \in {th[t].batch, <<>>} \/ (Ordered(r.batch) /\ \A j \in 1..Len(r.batch) : QueryRead(r.batch[j])')
      PROVE  BatchTraced'
  <2>1. th'[t] = r /\ \A u \in Threads : u # t => th'[u] = th[u]
    BY <1>1, <1>5
  <2>2. ASSUME NEW u \in Threads
        PROVE  Ordered(th'[u].batch) /\ \A j \in 1..Len(th'[u].batch) : QueryRead(th[u].batch[j])'
    BY <1>3, <1>4, <1>5, <2>1
  <2> QED
    BY <2>2 DEF BatchTraced
<1>6. ASSUME th' = th PROVE BatchTraced'
  BY <1>3, <1>6 DEF BatchTraced
<1>7. ASSUME NEW t \in Threads, Fclose(t) PROVE BatchTraced'
  <2>1. PICK r \in Thread : r = [th[t] EXCEPT !.pc = "close"] /\ th' = [th EXCEPT ![t] = r]
    BY <1>7, FcloseEffect
  <2>2. r.batch = th[t].batch
    BY <1>1, <2>1 DEF Thread
  <2> QED
    BY <1>5, <2>1, <2>2
<1>8. ASSUME NEW t \in Threads, clientgo(t), ~Fclose(t) PROVE BatchTraced'
  <2>1. PICK r \in Thread : Steps(t, r)
    BY <1>8, ThreadCases
  <2>2. th' = [th EXCEPT ![t] = r] /\ th[t] \in Thread
    BY <1>1, <2>1 DEF Steps
  <2>3. ASSUME NEW c \in Conns, Reads(t, c, r) PROVE BatchTraced'
    <3>1. peer' = peer /\ asked' = asked /\ backlog' = backlog
      BY <1>8 DEF clientgo, close_socket, Gather, ReadRest, ReadValue, EndGather, Fclose, Close, UncountSocket,
         ClearSlot, UncountActive, AfterClose, doqueries, HandleLookup, HandleInsert, write_iovs, WriteNext, kernel, peers
    <3>2. Ordered(r.batch) /\ \A j \in 1..Len(r.batch) : QueryRead(r.batch[j])'
      BY <2>3, <3>1, ReadsTraced
    <3> QED
      BY <1>5, <2>2, <3>2
  <2>4. ASSUME NEW iov, Handles(t, r, iov) PROVE r.batch \in {th[t].batch, <<>>}
    BY <2>2, <2>4 DEF Handles, Thread
  <2>5. ASSUME NEW k, NEW e, NEW c, WritesUnit(t, r, k, e, c) PROVE r.batch = th[t].batch
    BY <2>2, <2>5 DEF WritesUnit, Thread
  <2>6. ASSUME NEW k, WritesNothing(t, r, k) PROVE r.batch = th[t].batch
    BY <2>2, <2>6 DEF WritesNothing, Thread
  <2>7. ASSUME WritesNext(t, r) PROVE r.batch = th[t].batch
    BY <2>2, <2>7 DEF WritesNext, Thread
  <2>8. ASSUME Idles(t, r) PROVE r.batch = th[t].batch
    BY <2>8 DEF Idles
  <2>9. (\E c \in Conns : Reads(t, c, r)) \/ r.batch \in {th[t].batch, <<>>}
    BY <2>1, <2>4, <2>5, <2>6, <2>7, <2>8 DEF Steps, HandlesLookup
  <2> QED
    BY <1>5, <2>2, <2>3, <2>9
<1>9. ASSUME NEW c \in Conns, client_hashserver2(c) PROVE th' = th
  BY <1>9 DEF client_hashserver2, Continue, openconn, SendPart, sendquery_, SendValue, Sent, readvalue,
       BatchDone, ReadFails, closeconn
<1>10. ASSUME tcpserver \/ UNCHANGED vars PROVE th' = th
  BY <1>10 DEF tcpserver, Accept, Choose, WaitForRoom, open_socket, SetSocket, CountActive, vars
<1> QED
  BY <1>6, <1>7, <1>8, <1>9, <1>10 DEF Next, Spin

\* Batches hold lookups that were read, in their order.
LEMMA BatchInvariant == Spec => []BatchTraced
<1>1. Init => BatchTraced
  BY DEF Init, BatchTraced, Ordered
<1>2. ServerInv /\ RxTraced /\ BatchTraced /\ [Next]_vars => BatchTraced'
  BY BatchTracedStep
<1> QED
  BY <1>1, <1>2, ServerInvariant, RxInvariant, PTL DEF Spec


-----------------------------------------------------------------------------
(* AnswersRight: the units on a connection. *)

\* A unit begins an answer after a whole one, or completes the one before it.
Whole(w, x) ==
  \/ w[x].n = 1 /\ (x > 1 => w[x - 1].n = Size(w[x - 1].v))
  \/ w[x].n = 2 /\ w[x].v # NULL /\ x > 1 /\ w[x - 1] = [v |-> w[x].v, n |-> 1, no |-> w[x].no]

\* w are the units on a connection, a what was asked on it: they answer lookups,
\* in their order, without leaving one out.
Answers(w, a) ==
  \A x \in 1..Len(w) :
    /\ IsLookup(a, w[x].no) /\ w[x].v \in {NULL, a[w[x].no].key} /\ Whole(w, x)
    /\ \A y \in 1..Len(w) : y < x => w[y].no <= w[x].no /\ (w[x].n = 1 => w[y].no < w[x].no)
    /\ \A m \in 1..w[x].no : IsLookup(a, m) => \E y \in 1..x : w[y].n = 1 /\ w[y].no = m

\* Asking more does not make an answer wrong.
LEMMA AnswersAsk ==
  ASSUME NEW w \in Seq(Unit), NEW a \in Seq(Request), NEW q \in Request, NEW b, b = Append(a, q), Answers(w, a)
  PROVE  Answers(w, b)
<1>1. Len(b) = Len(a) + 1 /\ Len(a) \in Nat /\ \A i \in 1..Len(a) : b[i] = a[i] /\ i \in 1..Len(b)
  OBVIOUS
<1>2. ASSUME NEW x \in 1..Len(w)
      PROVE  /\ IsLookup(b, w[x].no) /\ w[x].v \in {NULL, b[w[x].no].key} /\ Whole(w, x)
             /\ \A y \in 1..Len(w) : y < x => w[y].no <= w[x].no /\ (w[x].n = 1 => w[y].no < w[x].no)
             /\ \A m \in 1..w[x].no : IsLookup(b, m) => \E y \in 1..x : w[y].n = 1 /\ w[y].no = m
  <2>1. IsLookup(a, w[x].no) /\ w[x].v \in {NULL, a[w[x].no].key} /\ Whole(w, x)
    BY DEF Answers
  <2>2. w[x].no \in 1..Len(a)
    BY <2>1 DEF IsLookup
  <2>3. IsLookup(b, w[x].no) /\ b[w[x].no] = a[w[x].no]
    BY <1>1, <2>1, <2>2 DEF IsLookup
  <2>4. ASSUME NEW m \in 1..w[x].no, IsLookup(b, m) PROVE \E y \in 1..x : w[y].n = 1 /\ w[y].no = m
    <3>1. m \in 1..Len(a)
      BY <2>2
    <3>2. IsLookup(a, m)
      BY <1>1, <2>4, <3>1 DEF IsLookup
    <3> QED
      BY <3>2 DEF Answers
  <2> QED
    BY <2>1, <2>3, <2>4 DEF Answers
<1> QED
  BY <1>2 DEF Answers

\* A sequence with one unit more.
LEMMA AppendUnits ==
  ASSUME NEW w \in Seq(Unit), NEW u \in Unit, NEW z, z = Append(w, u)
  PROVE  /\ Len(z) = Len(w) + 1 /\ z[Len(w) + 1] = u /\ Len(w) \in Nat /\ Len(w) + 1 \in 1..Len(z)
         /\ \A i \in 1..Len(w) : z[i] = w[i] /\ i \in 1..Len(z)
         /\ \A i \in 1..Len(z) : i = Len(w) + 1 \/ i \in 1..Len(w)
         /\ (Len(w) + 1) - 1 = Len(w) /\ (w = <<>> <=> Len(w) = 0) /\ z # <<>> /\ z \in Seq(Unit)
         /\ z[Len(z)] = u
<1>1. Len(w) \in Nat /\ (w = <<>> <=> Len(w) = 0)
  OBVIOUS
<1>2. Len(z) = Len(w) + 1 /\ z[Len(w) + 1] = u /\ z \in Seq(Unit)
  OBVIOUS
<1>3. \A i \in 1..Len(w) : z[i] = w[i]
  OBVIOUS
<1>4. z # <<>>
  BY <1>1, <1>2
<1> QED
  BY <1>1, <1>2, <1>3, <1>4

\* The unit u comes after w.
Follows(w, a, u) ==
  \/ /\ u.n = 1 /\ (w # <<>> => w[Len(w)].n = Size(w[Len(w)].v)) /\ \A x \in 1..Len(w) : w[x].no < u.no
     /\ \A m \in 1..u.no : IsLookup(a, m) => m = u.no \/ \E x \in 1..Len(w) : w[x].no = m
  \/ u.n = 2 /\ u.v # NULL /\ w # <<>> /\ w[Len(w)] = [v |-> u.v, n |-> 1, no |-> u.no]

\* A unit that follows makes the answers one unit longer.
LEMMA AnswersAppend ==
  ASSUME NEW w \in Seq(Unit), NEW a \in Seq(Request), NEW u \in Unit, Answers(w, a),
         IsLookup(a, u.no), u.v \in {NULL, a[u.no].key}, Follows(w, a, u)
  PROVE  Answers(Append(w, u), a)
<1>1. PICK z : z = Append(w, u)
  OBVIOUS
<1>2. /\ Len(z) = Len(w) + 1 /\ z[Len(w) + 1] = u /\ Len(w) \in Nat
      /\ \A i \in 1..Len(w) : z[i] = w[i] /\ i \in 1..Len(z)
      /\ \A i \in 1..Len(z) : i = Len(w) + 1 \/ i \in 1..Len(w)
      /\ (Len(w) + 1) - 1 = Len(w) /\ (w = <<>> <=> Len(w) = 0)
  BY <1>1, AppendUnits
<1>3. ASSUME NEW x \in 1..Len(w)
      PROVE  /\ IsLookup(a, z[x].no) /\ z[x].v \in {NULL, a[z[x].no].key} /\ Whole(z, x)
             /\ \A y \in 1..Len(z) : y < x => z[y].no <= z[x].no /\ (z[x].n = 1 => z[y].no < z[x].no)
             /\ \A m \in 1..z[x].no : IsLookup(a, m) => \E y \in 1..x : z[y].n = 1 /\ z[y].no = m
  <2>1. z[x] = w[x] /\ (x > 1 => x - 1 \in 1..Len(w) /\ z[x - 1] = w[x - 1])
    BY <1>2
  <2>2. IsLookup(a, w[x].no) /\ w[x].v \in {NULL, a[w[x].no].key} /\ Whole(w, x)
    BY DEF Answers
  <2>3. Whole(z, x)
    BY <2>1, <2>2 DEF Whole
  <2>4. ASSUME NEW y \in 1..Len(z), y < x PROVE z[y].no <= z[x].no /\ (z[x].n = 1 => z[y].no < z[x].no)
    <3>1. y \in 1..Len(w) /\ z[y] = w[y]
      BY <1>2, <2>4
    <3> QED
      BY <2>1, <2>4, <3>1 DEF Answers
  <2>5. ASSUME NEW m \in 1..z[x].no, IsLookup(a, m) PROVE \E y \in 1..x : z[y].n = 1 /\ z[y].no = m
    <3>1. PICK y \in 1..x : w[y].n = 1 /\ w[y].no = m
      BY <2>1, <2>5 DEF Answers
    <3>2. y \in 1..Len(w)
      BY <1>2
    <3> QED
      BY <1>2, <3>1, <3>2
  <2> QED
    BY <2>1, <2>2, <2>3, <2>4, <2>5
<1>4. ASSUME NEW x, x = Len(w) + 1
      PROVE  /\ IsLookup(a, z[x].no) /\ z[x].v \in {NULL, a[z[x].no].key} /\ Whole(z, x)
             /\ \A y \in 1..Len(z) : y < x => z[y].no <= z[x].no /\ (z[x].n = 1 => z[y].no < z[x].no)
             /\ \A m \in 1..z[x].no : IsLookup(a, m) => \E y \in 1..x : z[y].n = 1 /\ z[y].no = m
  <2>1. z[x] = u /\ x - 1 = Len(w) /\ (w # <<>> => x > 1 /\ Len(w) \in 1..Len(w) /\ z[x - 1] = w[Len(w)])
    BY <1>2, <1>4
  <2>2. x > 1 => w # <<>>
    BY <1>2, <1>4
  <2>6. \A y \in 1..Len(w) : w[y] \in Unit
    OBVIOUS
  <2>3. u.no \in Nat /\ \A y \in 1..Len(w) : w[y].no \in Nat
    BY <2>6 DEF Unit
  <2>4. CASE /\ u.n = 1 /\ (w # <<>> => w[Len(w)].n = Size(w[Len(w)].v)) /\ \A y \in 1..Len(w) : w[y].no < u.no
             /\ \A m \in 1..u.no : IsLookup(a, m) => m = u.no \/ \E y \in 1..Len(w) : w[y].no = m
    <3>1. Whole(z, x)
      BY <2>1, <2>2, <2>4 DEF Whole
    <3>2. ASSUME NEW y \in 1..Len(z), y < x PROVE z[y].no <= z[x].no /\ (z[x].n = 1 => z[y].no < z[x].no)
      <4>1. y \in 1..Len(w) /\ z[y] = w[y]
        BY <1>2, <1>4, <3>2
      <4> QED
        BY <2>1, <2>3, <2>4, <4>1
    <3>3. ASSUME NEW m \in 1..u.no, IsLookup(a, m) PROVE \E y \in 1..x : z[y].n = 1 /\ z[y].no = m
      <4>1. CASE m = u.no
        <5>1. x \in 1..x
          BY <1>2, <1>4
        <5> QED
          BY <2>1, <2>4, <4>1, <5>1
      <4>2. CASE m # u.no
        <5>1. PICK p \in 1..Len(w) : w[p].no = m
          BY <2>4, <3>3, <4>2
        <5>2. m \in 1..w[p].no
          BY <5>1
        <5>3. PICK y \in 1..p : w[y].n = 1 /\ w[y].no = m
          BY <3>3, <5>2 DEF Answers
        <5>4. y \in 1..Len(w) /\ y \in 1..x
          BY <1>2, <1>4
        <5> QED
          BY <1>2, <5>3, <5>4
      <4> QED
        BY <4>1, <4>2
    <3> QED
      BY <2>1, <3>1, <3>2, <3>3
  <2>5. CASE u.n = 2 /\ u.v # NULL /\ w # <<>> /\ w[Len(w)] = [v |-> u.v, n |-> 1, no |-> u.no]
    <3>1. Whole(z, x)
      BY <2>1, <2>5 DEF Whole
    <3>2. w[Len(w)].no = u.no /\ Len(w) \in 1..Len(w)
      BY <2>1, <2>5
    <3>3. ASSUME NEW y \in 1..Len(z), y < x PROVE z[y].no <= z[x].no /\ (z[x].n = 1 => z[y].no < z[x].no)
      <4>1. y \in 1..Len(w) /\ z[y] = w[y]
        BY <1>2, <1>4, <3>3
      <4>2. CASE y = Len(w)
        BY <2>1, <2>3, <2>5, <3>2, <4>1, <4>2
      <4>3. CASE y # Len(w)
        <5>1. y < Len(w)
          BY <1>2, <4>1, <4>3
        <5>2. w[y].no <= w[Len(w)].no
          BY <3>2, <4>1, <5>1 DEF Answers
        <5> QED
          BY <2>1, <2>5, <3>2, <4>1, <5>2
      <4> QED
        BY <4>2, <4>3
    <3>4. ASSUME NEW m \in 1..u.no, IsLookup(a, m) PROVE \E y \in 1..x : z[y].n = 1 /\ z[y].no = m
      <4>1. PICK y \in 1..Len(w) : w[y].n = 1 /\ w[y].no = m
        BY <3>2, <3>4 DEF Answers
      <4>2. y \in 1..x
        BY <1>2, <1>4
      <4> QED
        BY <1>2, <4>1, <4>2
    <3> QED
      BY <2>1, <3>1, <3>3, <3>4
  <2> QED
    BY <2>4, <2>5 DEF Follows
<1>5. Answers(z, a)
  BY <1>2, <1>3, <1>4 DEF Answers
<1> QED
  BY <1>1, <1>5


-----------------------------------------------------------------------------
(* AnswersRight: what a connection waits for. *)

\* The lookups of connection c that a thread has read and not yet handled.
Queue(r, c) == {r.batch[j] : j \in {i \in r.k + 1..Len(r.batch) : r.batch[i].op = "lookup" /\ r.batch[i].from = c}}

\* w are the answers that wait to be written to c: to lookups that were read, in
\* their order, and after those that are written; a value partly written is the
\* last unit on the connection.
VectorsOK(w, c) ==
  /\ \A j \in 1..Len(w) : WasRead(c, w[j].no) /\ w[j].v \in {NULL, asked[c][w[j].no].key}
  /\ \A i, j \in 1..Len(w) : i < j => w[i].no < w[j].no
  /\ \A j \in 1..Len(w), x \in 1..Len(tx[c]) : tx[c][x].no < w[j].no \/ (w[j].n = 1 /\ tx[c][x].no = w[j].no)
  /\ \A j \in 1..Len(w) : w[j].n = 1 /\ peer[c] # "closed" => tx[c] # <<>> /\ tx[c][Len(tx[c])] = w[j]

\* Lookup m of c is written, on the stream, in a batch, or waits to be written.
Known(c, m) ==
  \/ \E x \in 1..Len(tx[c]) : tx[c][x].no = m
  \/ \E i \in 1..Len(rx[c]) : rx[c][i].op = "lookup" /\ rx[c][i].no = m
  \/ \E t \in Threads : \E q \in Queue(th[t], c) : q.no = m
  \/ \E t \in Threads, k \in Slots : Serves(t, k, c) /\ \E j \in 1..Len(th[t].iov[k]) : th[t].iov[k][j].no = m

FlowAnswers(c) == Answers(tx[c], asked[c])
FlowRead(c) == \A x \in 1..Len(tx[c]) : WasRead(c, tx[c][x].no)
FlowQueue(c) == \A t \in Threads : \A q \in Queue(th[t], c), x \in 1..Len(tx[c]) : tx[c][x].no < q.no
FlowVectors(c) == \A t \in Threads, k \in Slots : Serves(t, k, c) => VectorsOK(th[t].iov[k], c)
FlowOrder(c) ==
  \A t \in Threads, k \in Slots : Serves(t, k, c) =>
    \A j \in 1..Len(th[t].iov[k]) : \A q \in Queue(th[t], c) : th[t].iov[k][j].no < q.no
FlowPart(c) ==
  tx[c] # <<>> /\ tx[c][Len(tx[c])].n # Size(tx[c][Len(tx[c])].v) =>
    \E t \in Threads, k \in Slots : Serves(t, k, c) /\ th[t].iov[k] # <<>> /\ th[t].iov[k][1].n = 1
FlowKnown(c) == Alive(c) => \A m \in 1..Len(asked[c]) : IsLookup(asked[c], m) => Known(c, m)
FlowOwn(c) ==
  Connected(c) => \A t \in Threads : \A q \in Queue(th[t], c) : Serves(t, q.sid, c) /\ sockets[t][q.sid] = q.socket

Flow(c) == /\ FlowAnswers(c) /\ FlowRead(c) /\ FlowQueue(c) /\ FlowVectors(c)
           /\ FlowOrder(c) /\ FlowPart(c) /\ FlowKnown(c) /\ FlowOwn(c)

\* Answers wait only for slots that are held.
IovHeld == \A t \in Threads, k \in Slots : th[t].iov[k] # <<>> => Held(t, k)

\* A step leaves connection c alone.
StillServed(c) ==
  /\ \A t \in Threads, k \in Slots : Serves(t, k, c)' <=> Serves(t, k, c)
  /\ \A t \in Threads, k \in Slots : Serves(t, k, c) => th'[t].iov[k] = th[t].iov[k] /\ sockets'[t][k] = sockets[t][k]
  /\ \A t \in Threads : Queue(th'[t], c) = Queue(th[t], c)
Still(c) ==
  /\ tx'[c] = tx[c] /\ asked'[c] = asked[c] /\ rx'[c] = rx[c]
  /\ (peer[c] = "closed" => peer'[c] = "closed") /\ (Alive(c)' => Alive(c))
  /\ Connected(c)' => Connected(c) \/ \A t \in Threads : Queue(th[t], c) = {}

\* What it is to wait in a batch.
LEMMA QueueFacts ==
  ASSUME NEW r \in Thread, NEW c, NEW q
  PROVE  q \in Queue(r, c) <=> \E j \in r.k + 1..Len(r.batch) : q = r.batch[j] /\ q.op = "lookup" /\ q.from = c
BY DEF Queue

\* What waits in a batch is a lookup of the connection.
LEMMA QueueType ==
  ASSUME NEW r \in Thread, NEW c, NEW q \in Queue(r, c)
  PROVE  q \in Query /\ q.op = "lookup" /\ q.from = c /\ q.sid \in Slots
<1>1. PICK j \in r.k + 1..Len(r.batch) : q = r.batch[j] /\ q.op = "lookup" /\ q.from = c
  BY QueueFacts
<1>2. r.k \in Nat /\ r.batch \in Seq(Query)
  BY DEF Thread
<1>3. j \in 1..Len(r.batch)
  BY <1>2
<1>4. q \in Query
  BY <1>1, <1>2, <1>3
<1> QED
  BY <1>1, <1>4 DEF Query

\* A step that leaves c alone leaves the answers that wait for it in order.
LEMMA StillVectors ==
  ASSUME NEW c \in Conns, Still(c), NEW w, VectorsOK(w, c)
  PROVE  VectorsOK(w, c)'
BY DEF Still, VectorsOK, WasRead

\* A step that leaves c alone keeps its answers right.
LEMMA StillFlow ==
  ASSUME ThreadsOK, NEW c \in Conns, Still(c), StillServed(c), Flow(c)
  PROVE  Flow(c)'
<1>1. /\ tx'[c] = tx[c] /\ asked'[c] = asked[c] /\ rx'[c] = rx[c] /\ (Alive(c)' => Alive(c))
      /\ Connected(c)' => Connected(c) \/ \A t \in Threads : Queue(th[t], c) = {}
  BY DEF Still
<1>2. ASSUME NEW t \in Threads PROVE Queue(th'[t], c) = Queue(th[t], c)
  BY DEF StillServed
<1>3. ASSUME NEW t \in Threads, NEW k \in Slots
      PROVE  /\ Serves(t, k, c)' <=> Serves(t, k, c)
             /\ Serves(t, k, c) => th'[t].iov[k] = th[t].iov[k] /\ sockets'[t][k] = sockets[t][k]
  BY DEF StillServed
<1>4. FlowAnswers(c)' /\ FlowRead(c)'
  BY <1>1 DEF Flow, FlowAnswers, FlowRead, WasRead
<1>5. FlowQueue(c)'
  BY <1>1, <1>2 DEF Flow, FlowQueue
<1>6. FlowVectors(c)'
  <2>1. ASSUME NEW t \in Threads, NEW k \in Slots, Serves(t, k, c)' PROVE VectorsOK(th[t].iov[k], c)'
    <3>1. Serves(t, k, c)
      BY <1>3, <2>1
    <3>2. PICK w : w = th[t].iov[k]
      OBVIOUS
    <3>3. VectorsOK(w, c)'
      BY <3>1, <3>2, StillVectors DEF Flow, FlowVectors
    <3>4. th'[t].iov[k] = w
      BY <1>3, <3>1, <3>2
    <3> QED
      BY <3>3, <3>4
  <2> QED
    BY <2>1 DEF FlowVectors
<1>7. FlowOrder(c)'
  BY <1>2, <1>3 DEF Flow, FlowOrder
<1>8. FlowPart(c)'
  BY <1>1, <1>3 DEF Flow, FlowPart
<1>9. FlowKnown(c)'
  <2>1. \A m : Known(c, m) => Known(c, m)'
    BY <1>1, <1>2, <1>3 DEF Known
  <2> QED
    BY <1>1, <2>1 DEF Flow, FlowKnown
<1>10. FlowOwn(c)'
  <2>1. ASSUME Connected(c)', NEW t \in Threads, NEW q \in Queue(th'[t], c)
        PROVE  Serves(t, q.sid, c)' /\ sockets'[t][q.sid] = q.socket
    <3>1. q \in Queue(th[t], c)
      BY <1>2, <2>1
    <3>2. q.sid \in Slots
      BY <3>1, QueueType DEF ThreadsOK
    <3>3. Serves(t, q.sid, c) /\ sockets[t][q.sid] = q.socket
      BY <1>1, <2>1, <3>1 DEF Flow, FlowOwn
    <3> QED
      BY <1>3, <3>2, <3>3
  <2> QED
    BY <2>1 DEF FlowOwn
<1> QED
  BY <1>4, <1>5, <1>6, <1>7, <1>8, <1>9, <1>10 DEF Flow


\* The slots and the batches stay.
LEMMA StillServedSame ==
  ASSUME SameServes, th' = th, sockets' = sockets, NEW c \in Conns
  PROVE  StillServed(c)
BY DEF SameServes, StillServed

\* Answers that wait go on to be in order, whatever else is asked or read.
LEMMA VectorsStay ==
  ASSUME ServerInv, [Next]_vars, NEW c \in Conns, NEW w, VectorsOK(w, c),
         \/ tx'[c] = tx[c] /\ (peer[c] = "closed" => peer'[c] = "closed")
         \/ tx'[c] = <<>> /\ peer'[c] = "closed"
  PROVE  VectorsOK(w, c)'
<1>1. \A j \in 1..Len(w) : WasRead(c, w[j].no)' /\ w[j].v \in {NULL, asked'[c][w[j].no].key}
  <2>1. ASSUME NEW j \in 1..Len(w) PROVE WasRead(c, w[j].no)' /\ w[j].v \in {NULL, asked'[c][w[j].no].key}
    <3>1. WasRead(c, w[j].no) /\ w[j].v \in {NULL, asked[c][w[j].no].key}
      BY DEF VectorsOK
    <3>2. WasRead(c, w[j].no)' /\ asked'[c][w[j].no] = asked[c][w[j].no]
      BY <3>1, ReadStays
    <3> QED
      BY <3>1, <3>2
  <2> QED
    BY <2>1
<1>2. CASE tx'[c] = tx[c] /\ (peer[c] = "closed" => peer'[c] = "closed")
  BY <1>1, <1>2 DEF VectorsOK
<1>3. CASE tx'[c] = <<>> /\ peer'[c] = "closed"
  BY <1>1, <1>3 DEF VectorsOK
<1> QED
  BY <1>2, <1>3

\* So do those in the slots that serve c.
LEMMA FlowVectorsStay ==
  ASSUME ServerInv, [Next]_vars, NEW c \in Conns, StillServed(c), FlowVectors(c),
         \/ tx'[c] = tx[c] /\ (peer[c] = "closed" => peer'[c] = "closed")
         \/ tx'[c] = <<>> /\ peer'[c] = "closed"
  PROVE  FlowVectors(c)'
<1>1. ASSUME NEW t \in Threads, NEW k \in Slots, Serves(t, k, c)' PROVE VectorsOK(th[t].iov[k], c)'
  <2>1. Serves(t, k, c) /\ th'[t].iov[k] = th[t].iov[k]
    BY <1>1 DEF StillServed
  <2>2. PICK w : w = th[t].iov[k]
    OBVIOUS
  <2>3. VectorsOK(w, c)'
    BY <2>1, <2>2, VectorsStay DEF FlowVectors
  <2> QED
    BY <2>1, <2>2, <2>3
<1> QED
  BY <1>1 DEF FlowVectors

\* What is answered was read.
LEMMA FlowReadStays ==
  ASSUME ServerInv, [Next]_vars, NEW c \in Conns, FlowRead(c), tx'[c] = tx[c]
  PROVE  FlowRead(c)'
<1>1. ASSUME NEW x \in 1..Len(tx'[c]) PROVE WasRead(c, tx[c][x].no)'
  <2>1. PICK n : n = tx[c][x].no
    OBVIOUS
  <2>2. WasRead(c, n)'
    BY <2>1, ReadStays DEF FlowRead
  <2> QED
    BY <2>1, <2>2
<1> QED
  BY <1>1 DEF FlowRead

\* The lookups of a batch stay with the slot they came from.
LEMMA FlowOwnStays ==
  ASSUME ThreadsOK, NEW c \in Conns, StillServed(c), FlowOwn(c), Connected(c)' => Connected(c)
  PROVE  FlowOwn(c)'
<1>1. ASSUME Connected(c)', NEW t \in Threads, NEW q \in Queue(th'[t], c)
      PROVE  Serves(t, q.sid, c)' /\ sockets'[t][q.sid] = q.socket
  <2>1. q \in Queue(th[t], c)
    BY <1>1 DEF StillServed
  <2>2. q.sid \in Slots
    BY <2>1, QueueType DEF ThreadsOK
  <2>3. Serves(t, q.sid, c) /\ sockets[t][q.sid] = q.socket
    BY <1>1, <2>1 DEF FlowOwn
  <2> QED
    BY <2>2, <2>3 DEF StillServed
<1> QED
  BY <1>1 DEF FlowOwn

\* A stream with one object more.
LEMMA AppendObjects ==
  ASSUME NEW s \in Seq(Object), NEW x \in Object, NEW y, y = Append(s, x)
  PROVE  /\ Len(y) = Len(s) + 1 /\ y[Len(s) + 1] = x /\ Len(s) + 1 \in 1..Len(y)
         /\ \A i \in 1..Len(s) : y[i] = s[i] /\ i \in 1..Len(y)
OBVIOUS

\* The client of c sends: what was known of c still is.
LEMMA SendFlow ==
  ASSUME ServerInv, [Next]_vars, NEW c \in Conns, Flow(c), StillServed(c), tx'[c] = tx[c],
         peer[c] # "closed", Alive(c)' => Alive(c), Connected(c)' => Connected(c), NEW x \in Object,
         rx'[c] = Append(rx[c], x),
         \/ asked'[c] = asked[c]
         \/ \E q \in Requests[c] : asked'[c] = Append(asked[c], q) /\ x.op = q.op /\ x.no = Len(asked[c]) + 1
  PROVE  Flow(c)'
<1>1. /\ rx[c] \in Seq(Object) /\ asked[c] \in Seq(Request) /\ tx[c] \in Seq(Unit) /\ ThreadsOK
  BY DEF ServerInv, Types
<1>2. FlowAnswers(c)'
  <2>1. CASE asked'[c] = asked[c]
    BY <2>1 DEF Flow, FlowAnswers
  <2>2. CASE \E q \in Requests[c] : asked'[c] = Append(asked[c], q)
    <3>1. PICK q \in Requests[c] : asked'[c] = Append(asked[c], q)
      BY <2>2
    <3>2. q \in Request
      BY ServerAssumption DEF Request
    <3> QED
      BY <1>1, <3>1, <3>2, AnswersAsk DEF Flow, FlowAnswers
  <2> QED
    BY <2>1, <2>2
<1>3. FlowRead(c)' /\ FlowVectors(c)' /\ FlowOwn(c)'
  BY <1>1, FlowReadStays, FlowVectorsStay, FlowOwnStays DEF Flow
<1>4. FlowQueue(c)'
  BY DEF Flow, FlowQueue, StillServed
<1>5. FlowOrder(c)'
  BY DEF Flow, FlowOrder, StillServed
<1>6. FlowPart(c)'
  BY DEF Flow, FlowPart, StillServed
<1>7. FlowKnown(c)'
  <2>1. PICK y : y = rx'[c]
    OBVIOUS
  <2>2. /\ Len(y) = Len(rx[c]) + 1 /\ y[Len(rx[c]) + 1] = x /\ Len(rx[c]) + 1 \in 1..Len(y)
        /\ \A i \in 1..Len(rx[c]) : y[i] = rx[c][i] /\ i \in 1..Len(y)
    BY <1>1, <2>1, AppendObjects
  <2>3. ASSUME NEW m, Known(c, m) PROVE Known(c, m)'
    BY <2>1, <2>2, <2>3 DEF Known, StillServed
  <2>4. ASSUME NEW q \in Requests[c], asked'[c] = Append(asked[c], q), x.op = q.op, x.no = Len(asked[c]) + 1,
               NEW m \in 1..Len(asked'[c]), IsLookup(asked'[c], m), m \notin 1..Len(asked[c])
        PROVE  Known(c, m)'
    <3>1. PICK b : b = asked'[c]
      OBVIOUS
    <3>2. Len(b) = Len(asked[c]) + 1 /\ b[Len(asked[c]) + 1] = q
      BY <1>1, <2>4, <3>1
    <3>3. m = Len(asked[c]) + 1
      BY <1>1, <2>4, <3>1, <3>2
    <3>4. x.op = "lookup" /\ x.no = m
      BY <2>4, <3>1, <3>2, <3>3 DEF IsLookup
    <3> QED
      BY <2>1, <2>2, <3>4 DEF Known
  <2>5. ASSUME NEW m \in 1..Len(asked'[c]), IsLookup(asked'[c], m), m \in 1..Len(asked[c]) PROVE IsLookup(asked[c], m)
    BY <1>1, <2>5, AskedStays DEF IsLookup
  <2>6. ASSUME Alive(c)', NEW m \in 1..Len(asked'[c]), IsLookup(asked'[c], m) PROVE Known(c, m)'
    <3>1. CASE m \in 1..Len(asked[c])
      BY <2>3, <2>5, <2>6, <3>1 DEF Flow, FlowKnown
    <3>2. CASE m \notin 1..Len(asked[c])
      BY <2>4, <2>6, <3>2
    <3> QED
      BY <3>1, <3>2
  <2> QED
    BY <2>6 DEF FlowKnown
<1> QED
  BY <1>2, <1>3, <1>4, <1>5, <1>6, <1>7 DEF Flow

\* The client of c is gone.
LEMMA GoneFlow ==
  ASSUME ServerInv, [Next]_vars, NEW c \in Conns, Flow(c), StillServed(c), tx'[c] = <<>>, peer'[c] = "closed",
         Connected(c)' => Connected(c)
  PROVE  Flow(c)'
<1>1. FlowAnswers(c)' /\ FlowRead(c)' /\ FlowQueue(c)' /\ FlowPart(c)'
  BY DEF FlowAnswers, Answers, FlowRead, FlowQueue, FlowPart
<1>2. FlowVectors(c)' /\ FlowOwn(c)'
  BY FlowVectorsStay, FlowOwnStays DEF Flow, ServerInv
<1>3. FlowOrder(c)'
  BY DEF Flow, FlowOrder, StillServed
<1>4. FlowKnown(c)'
  BY DEF FlowKnown, Alive, Up
<1> QED
  BY <1>1, <1>2, <1>3, <1>4 DEF Flow

\* A connection that is made has no past.
LEMMA NewFlow ==
  ASSUME NEW c \in Conns, tx'[c] = <<>>, asked'[c] = <<>>,
         \A t \in Threads, k \in Slots : ~Serves(t, k, c)', ~Connected(c)'
  PROVE  Flow(c)'
<1>1. FlowAnswers(c)' /\ FlowRead(c)' /\ FlowQueue(c)' /\ FlowPart(c)'
  BY DEF FlowAnswers, Answers, FlowRead, FlowQueue, FlowPart
<1>2. FlowVectors(c)' /\ FlowOrder(c)' /\ FlowOwn(c)'
  BY DEF FlowVectors, FlowOrder, FlowOwn
<1>3. FlowKnown(c)'
  BY DEF FlowKnown
<1> QED
  BY <1>1, <1>2, <1>3 DEF Flow

\* A client's steps keep the answers right.
LEMMA ClientFlow ==
  ASSUME ServerInv, Own, [Next]_vars, NEW d \in Conns, client_hashserver2(d), NEW c \in Conns, Flow(c)
  PROVE  Flow(c)'
<1>1. SameServes /\ fdt' = fdt /\ th' = th /\ sockets' = sockets
  BY ClientOwn DEF cdata
<1>2. /\ rx \in [Conns -> Seq(Object)] /\ asked \in [Conns -> Seq(Request)] /\ tx \in [Conns -> Seq(Unit)]
      /\ peer \in [Conns -> Up \cup {"new", "closed"}] /\ backlog \in SUBSET Conns /\ ThreadsOK
  BY DEF ServerInv, Types
<1>3. StillServed(c) /\ (Connected(c)' <=> Connected(c))
  BY <1>1, StillServedSame DEF Connected
<1>4. ASSUME rx'[c] = rx[c], asked'[c] = asked[c], tx'[c] = tx[c], c \in backlog' <=> c \in backlog,
             peer'[c] = peer[c] \/ (peer[c] \in Up /\ peer'[c] \in Up)
      PROVE  Flow(c)'
  <2>1. Still(c)
    BY <1>3, <1>4 DEF Still, Alive, Up
  <2> QED
    BY <1>2, <1>3, <2>1, StillFlow
<1>5. ASSUME c # d PROVE Flow(c)'
  <2>1. rx'[c] = rx[c] /\ asked'[c] = asked[c] /\ tx'[c] = tx[c] /\ (c \in backlog' <=> c \in backlog) /\ peer'[c] = peer[c]
    BY <1>2, <1>5 DEF client_hashserver2, Continue, openconn, SendPart, sendquery_, SendValue, Sent, readvalue,
       BatchDone, ReadFails, closeconn, PeerGone, kernel
  <2> QED
    BY <1>4, <2>1
<1>6. ASSUME c = d, Sent(d) \/ readvalue(d) \/ BatchDone(d) PROVE Flow(c)'
  <2>1. /\ rx' = rx /\ asked' = asked /\ tx' = tx /\ backlog' = backlog
        /\ peer'[c] = peer[c] \/ (peer[c] \in Up /\ peer'[c] \in Up)
    BY <1>2, <1>6 DEF Sent, readvalue, BatchDone, kernel, Up
  <2> QED
    BY <1>4, <2>1
<1>7. ASSUME c = d, openconn(d) PROVE Flow(c)'
  <2>1. peer[c] = "new" /\ asked' = asked /\ tx' = tx
    BY <1>7 DEF openconn
  <2>2. tx[c] = <<>> /\ asked[c] = <<>> /\ \A f \in Fds : fdt[f] # c
    BY <2>1 DEF ServerInv, KernelOK
  <2>3. ASSUME NEW t \in Threads, NEW k \in Slots PROVE ~Serves(t, k, c)
    BY <2>2, HeldFacts DEF Serves
  <2>4. ~Connected(c)
    BY <2>2 DEF Connected
  <2> QED
    BY <1>1, <1>3, <2>1, <2>2, <2>3, <2>4, NewFlow DEF SameServes
<1>8. ASSUME c = d, ReadFails(d) \/ closeconn(d) PROVE Flow(c)'
  <2>1. tx'[c] = <<>> /\ peer'[c] = "closed"
    BY <1>2, <1>8 DEF ReadFails, closeconn, PeerGone
  <2> QED
    BY <1>3, <2>1, GoneFlow
<1>9. ASSUME c = d, SendPart(d) \/ SendValue(d) PROVE Flow(c)'
  <2>1. /\ asked' = asked /\ tx' = tx /\ peer[c] \in Up /\ peer[c] # "closed" /\ backlog' = backlog
        /\ \E x \in {[op |-> "part"], [op |-> "value"]} : rx'[c] = Append(rx[c], x)
    BY <1>2, <1>9 DEF SendPart, SendValue, Up
  <2>2. PICK x \in {[op |-> "part"], [op |-> "value"]} : rx'[c] = Append(rx[c], x)
    BY <2>1
  <2>3. x \in Object
    BY DEF Object
  <2>4. Alive(c)' => Alive(c)
    BY <1>3, <2>1 DEF Alive
  <2> QED
    BY <1>3, <2>1, <2>2, <2>3, <2>4, SendFlow
<1>10. ASSUME c = d, NEW q \in Requests[d], sendquery_(d, q) PROVE Flow(c)'
  <2>1. PICK x : x = [op |-> q.op, key |-> q.key, no |-> Len(asked[c]) + 1]
    OBVIOUS
  <2>2. Len(asked[c]) + 1 \in Nat
    BY <1>2
  <2>3. x \in Object /\ x.op = q.op /\ x.no = Len(asked[c]) + 1
    BY <1>10, <2>1, <2>2, QueryObject
  <2>4. /\ asked'[c] = Append(asked[c], q) /\ tx' = tx /\ peer[c] \in Up /\ peer[c] # "closed" /\ backlog' = backlog
        /\ rx'[c] = Append(rx[c], x)
    BY <1>2, <1>10, <2>1 DEF sendquery_, Up
  <2>5. Alive(c)' => Alive(c)
    BY <1>3, <2>4 DEF Alive
  <2> QED
    BY <1>3, <1>10, <2>3, <2>4, <2>5, SendFlow
<1> QED
  BY <1>5, <1>6, <1>7, <1>8, <1>9, <1>10 DEF client_hashserver2, Continue


\* The slot that is filled has no answers waiting.
LEMMA SetSocketFlow ==
  ASSUME ServerInv, Own, IovHeld, SetSocket, NEW c \in Conns, Flow(c)
  PROVE  Flow(c)' /\ IovHeld'
<1>1. /\ \A u \in Threads, k \in Slots : /\ Held(u, k)' <=> Held(u, k) \/ (u = cid /\ k = sid)
                                         /\ Held(u, k) => sockets'[u][k] = sockets[u][k]
      /\ sid \in Slots /\ cid \in Threads /\ ~Held(cid, sid) /\ UNCHANGED <<kernel, peers, th>>
  BY SetSocketHeld
<1>2. \A u \in Threads, k \in Slots : Serves(u, k, c)' <=> Serves(u, k, c) \/ (u = cid /\ k = sid /\ c = fdt[s1])
  BY SetSocketOwn
<1>3. fdt' = fdt /\ rx' = rx /\ tx' = tx /\ backlog' = backlog /\ peer' = peer /\ asked' = asked /\ th' = th
  BY <1>1 DEF kernel, peers
<1>4. th[cid].iov[sid] = <<>>
  BY <1>1 DEF IovHeld
<1>5. ASSUME NEW u \in Threads, NEW k \in Slots, Serves(u, k, c)' PROVE Serves(u, k, c) \/ th[u].iov[k] = <<>>
  BY <1>2, <1>4, <1>5
<1>6. ASSUME NEW u \in Threads, NEW k \in Slots, Serves(u, k, c)
      PROVE  Serves(u, k, c)' /\ sockets'[u][k] = sockets[u][k]
  BY <1>1, <1>2, <1>6 DEF Serves
<1>7. FlowAnswers(c)' /\ FlowRead(c)' /\ FlowQueue(c)'
  BY <1>3 DEF Flow, FlowAnswers, FlowRead, FlowQueue, WasRead
<1>8. FlowVectors(c)'
  <2>1. \A w : VectorsOK(w, c)' <=> VectorsOK(w, c)
    BY <1>3 DEF VectorsOK, WasRead
  <2>2. VectorsOK(<<>>, c)
    BY DEF VectorsOK
  <2>3. ASSUME NEW u \in Threads, NEW k \in Slots, Serves(u, k, c)' PROVE VectorsOK(th[u].iov[k], c)
    BY <1>5, <2>2, <2>3 DEF Flow, FlowVectors
  <2>4. ASSUME NEW u \in Threads, NEW k \in Slots, Serves(u, k, c)' PROVE VectorsOK(th[u].iov[k], c)'
    <3>1. PICK w : w = th[u].iov[k]
      OBVIOUS
    <3>2. VectorsOK(w, c)'
      BY <2>1, <2>3, <2>4, <3>1
    <3> QED
      BY <1>3, <3>1, <3>2
  <2> QED
    BY <2>4 DEF FlowVectors
<1>9. FlowOrder(c)'
  <2>1. ASSUME NEW u \in Threads, NEW k \in Slots, Serves(u, k, c)', NEW j \in 1..Len(th[u].iov[k]),
               NEW q \in Queue(th[u], c)
        PROVE  th[u].iov[k][j].no < q.no
    BY <1>5, <2>1 DEF Flow, FlowOrder
  <2> QED
    BY <1>3, <2>1 DEF FlowOrder
<1>10. FlowPart(c)'
  BY <1>3, <1>6 DEF Flow, FlowPart
<1>11. FlowKnown(c)'
  <2>1. \A m : Known(c, m) => Known(c, m)'
    BY <1>3, <1>6 DEF Known
  <2>2. Alive(c)' => Alive(c)
    BY <1>3 DEF Alive, Connected
  <2> QED
    BY <1>3, <2>1, <2>2 DEF Flow, FlowKnown
<1>12. FlowOwn(c)'
  <2>1. ASSUME Connected(c), NEW t \in Threads, NEW q \in Queue(th[t], c)
        PROVE  Serves(t, q.sid, c)' /\ sockets'[t][q.sid] = q.socket
    <3>1. q.sid \in Slots
      BY <2>1, QueueType DEF ServerInv, ThreadsOK
    <3>2. Serves(t, q.sid, c) /\ sockets[t][q.sid] = q.socket
      BY <2>1 DEF Flow, FlowOwn
    <3> QED
      BY <1>6, <3>1, <3>2
  <2>2. Connected(c)' => Connected(c)
    BY <1>3 DEF Connected
  <2> QED
    BY <1>3, <2>1, <2>2 DEF FlowOwn
<1>13. IovHeld'
  BY <1>1, <1>3 DEF IovHeld
<1> QED
  BY <1>7, <1>8, <1>9, <1>10, <1>11, <1>12, <1>13 DEF Flow

\* A connection that is not accepted yet has no lookup in a batch.
LEMMA NoQueueYet ==
  ASSUME ServerInv, BatchTraced, NEW c \in backlog, NEW t \in Threads
  PROVE  Queue(th[t], c) = {}
<1>1. th[t] \in Thread /\ th[t].k \in Nat
  BY DEF ServerInv, ThreadsOK, Thread
<1>2. ASSUME NEW q \in Queue(th[t], c) PROVE FALSE
  <2>1. PICK j \in th[t].k + 1..Len(th[t].batch) : q = th[t].batch[j] /\ q.op = "lookup" /\ q.from = c
    BY <1>1, <1>2, QueueFacts
  <2>2. j \in 1..Len(th[t].batch)
    BY <1>1
  <2>3. QueryRead(q)
    BY <2>1, <2>2 DEF BatchTraced
  <2> QED
    BY <2>1, <2>3 DEF QueryRead
<1> QED
  BY <1>2

\* The acceptor's steps keep the answers right.
LEMMA AcceptorFlow ==
  ASSUME ServerInv, Own, IovHeld, BatchTraced, tcpserver, NEW c \in Conns, Flow(c)
  PROVE  Flow(c)' /\ IovHeld'
<1>1. CASE SetSocket
  BY <1>1, SetSocketFlow
<1>2. CASE Choose \/ WaitForRoom \/ open_socket \/ CountActive
  <2>1. SameServes /\ SameHeld /\ UNCHANGED <<kernel, peers, sockets, th, mixed>>
    BY <1>2, AcceptorOwn
  <2>2. StillServed(c)
    BY <2>1, StillServedSame
  <2>3. Still(c)
    BY <2>1 DEF Still, Alive, Connected, kernel, peers
  <2>4. IovHeld'
    BY <2>1 DEF IovHeld, SameHeld
  <2> QED
    BY <2>2, <2>3, <2>4, StillFlow DEF ServerInv
<1>3. CASE Accept
  <2>1. PICK d \in backlog, f \in Fds :
           /\ fdt[f] = NULL /\ fdt' = [fdt EXCEPT ![f] = d] /\ backlog' = backlog \ {d}
           /\ UNCHANGED <<rx, tx, peers, cdata, th, ready, mixed>>
    BY <1>3, AcceptEffect
  <2>2. SameServes /\ SameHeld
    BY <1>3, AcceptOwn
  <2>3. StillServed(c)
    BY <2>1, <2>2, StillServedSame DEF cdata
  <2>4. fdt \in [Fds -> Conns \cup {NULL}]
    BY DEF ServerInv, Types
  <2>5. Connected(c)' => Connected(c) \/ c = d
    BY <2>1, <2>4 DEF Connected
  <2>6. c = d => \A t \in Threads : Queue(th[t], c) = {}
    BY NoQueueYet
  <2>7. Alive(c)' => Alive(c)
    BY <2>1, <2>5 DEF Alive, peers
  <2>8. Still(c)
    BY <2>1, <2>5, <2>6, <2>7 DEF Still, peers
  <2>9. IovHeld'
    BY <2>1, <2>2 DEF IovHeld, SameHeld
  <2> QED
    BY <2>3, <2>8, <2>9, StillFlow DEF ServerInv
<1> QED
  BY <1>1, <1>2, <1>3 DEF tcpserver

\* What a thread with an unchanged batch still has to handle.
LEMMA SameQueue ==
  ASSUME NEW q, NEW r, r.batch = q.batch, r.k = q.k, NEW c
  PROVE  Queue(r, c) = Queue(q, c)
BY DEF Queue

\* A connection that is closed gets no more answers.
LEMMA FcloseFlow ==
  ASSUME ServerInv, Own, IovHeld, [Next]_vars, NEW t \in Threads, Fclose(t), NEW c \in Conns, Flow(c)
  PROVE  Flow(c)' /\ IovHeld'
<1>1. PICK r \in Thread, f \in Fds :
        /\ r = [th[t] EXCEPT !.pc = "close"] /\ th' = [th EXCEPT ![t] = r] /\ th[t].pc = "fclose"
        /\ Held(t, th[t].i) /\ f = sockets[t][th[t].i]
        /\ fdt' = [fdt EXCEPT ![f] = NULL] /\ rx' = [d \in Conns |-> IF d = fdt[f] THEN <<>> ELSE rx[d]]
        /\ UNCHANGED <<tx, backlog, peers, acceptor, sockets, nsockets, active_clients, ready, mixed>>
  BY FcloseEffect
<1>2. th \in [Threads -> Thread] /\ fdt \in [Fds -> Conns \cup {NULL}] /\ th[t].i \in Slots /\ Local(th[t])
  BY DEF ServerInv, ThreadsOK, Types, Thread
<1>3. /\ th'[t] = r /\ r.batch = th[t].batch /\ r.k = th[t].k /\ r.iov = th[t].iov
      /\ \A u \in Threads : u # t => th'[u] = th[u]
  BY <1>1, <1>2 DEF Thread
<1>4. \A u \in Threads : /\ th'[u].iov = th[u].iov /\ th'[u].batch = th[u].batch /\ th'[u].k = th[u].k
                         /\ Queue(th'[u], c) = Queue(th[u], c)
  BY <1>3, SameQueue
<1>5. \A u \in Threads, k \in Slots : Serves(u, k, c)' <=> Serves(u, k, c) /\ ~(u = t /\ k = th[t].i)
  BY FcloseOwn
<1>6. \A k \in Slots : th[t].iov[k] = <<>>
  BY <1>1, <1>2 DEF Local
<1>7. IovHeld'
  <2>1. \A u \in Threads, k \in Slots : Held(u, k)' <=> Held(u, k) /\ ~(u = t /\ k = th[t].i)
    BY FcloseHeld
  <2> QED
    BY <1>4, <1>6, <2>1 DEF IovHeld
<1>8. CASE c # fdt[f]
  <2>1. ~Serves(t, th[t].i, c)
    BY <1>1, <1>8 DEF Serves
  <2>2. StillServed(c)
    BY <1>1, <1>4, <1>5, <2>1 DEF StillServed
  <2>3. Connected(c)' => Connected(c)
    BY <1>1, <1>2, ConstantFacts DEF Connected
  <2>4. Still(c)
    BY <1>1, <1>8, <2>3 DEF Still, Alive, peers
  <2> QED
    BY <1>7, <2>2, <2>4, StillFlow DEF ServerInv
<1>9. CASE c = fdt[f]
  <2>1. ~Connected(c)' /\ c \notin backlog
    <3>1. ASSUME NEW g \in Fds, fdt'[g] = c PROVE FALSE
      <4>1. g # f /\ fdt[g] = c /\ c # NULL
        BY <1>1, <1>2, <3>1, ConstantFacts
      <4> QED
        BY <1>9, <4>1 DEF ServerInv, KernelOK
    <3> QED
      BY <1>9, <3>1 DEF Connected, ServerInv, KernelOK
  <2>2. tx' = tx /\ peer' = peer /\ asked' = asked /\ backlog' = backlog
    BY <1>1 DEF peers
  <2>3. FlowAnswers(c)' /\ FlowRead(c)' /\ FlowQueue(c)'
    <3>1. FlowRead(c)'
      BY <2>2, FlowReadStays DEF Flow
    <3> QED
      BY <1>4, <2>2, <3>1 DEF Flow, FlowAnswers, FlowQueue
  <2>4. FlowVectors(c)'
    <3>1. ASSUME NEW u \in Threads, NEW k \in Slots, Serves(u, k, c)' PROVE VectorsOK(th[u].iov[k], c)'
      <4>1. PICK w : w = th[u].iov[k]
        OBVIOUS
      <4>2. VectorsOK(w, c)
        BY <1>5, <3>1, <4>1 DEF Flow, FlowVectors
      <4>3. VectorsOK(w, c)'
        BY <2>2, <4>2, VectorsStay
      <4> QED
        BY <1>4, <4>1, <4>3
    <3> QED
      BY <3>1 DEF FlowVectors
  <2>5. FlowOrder(c)'
    BY <1>4, <1>5 DEF Flow, FlowOrder
  <2>6. FlowPart(c)'
    <3>1. ASSUME tx[c] # <<>>, tx[c][Len(tx[c])].n # Size(tx[c][Len(tx[c])].v) PROVE FALSE
      <4>1. PICK u \in Threads, k \in Slots : Serves(u, k, c) /\ th[u].iov[k] # <<>>
        BY <3>1 DEF Flow, FlowPart
      <4>2. Serves(t, th[t].i, c)
        BY <1>1, <1>9 DEF Serves
      <4>3. u = t /\ k = th[t].i
        BY <1>2, <4>1, <4>2, ServesUnique
      <4> QED
        BY <1>6, <4>1, <4>3
    <3> QED
      BY <2>2, <3>1 DEF FlowPart
  <2>7. FlowKnown(c)' /\ FlowOwn(c)'
    BY <2>1, <2>2 DEF FlowKnown, FlowOwn, Alive
  <2> QED
    BY <1>7, <2>3, <2>4, <2>5, <2>6, <2>7 DEF Flow
<1> QED
  BY <1>8, <1>9


-----------------------------------------------------------------------------
(* AnswersRight: the steps of a client thread. *)

\* The connections and the slots stay as they are while thread t does its step.
Steady(t, r) == th' = [th EXCEPT ![t] = r] /\ SameServes /\ SameHeld /\ UNCHANGED <<fdt, backlog, peer, asked>>

\* The steps of clientgo but fclose are steady.
LEMMA ThreadSteady ==
  ASSUME ServerInv, Own, NEW t \in Threads, clientgo(t), ~Fclose(t), ~mixed', NEW r \in Thread, th' = [th EXCEPT ![t] = r]
  PROVE  Steady(t, r)
BY QuietStep, HeldSameServes, PeersStay DEF Steady

\* What a steady step leaves as it is.
LEMMA SteadyFacts ==
  ASSUME ThreadsOK, NEW t \in Threads, NEW r \in Thread, Steady(t, r)
  PROVE  /\ th'[t] = r /\ \A u \in Threads : u # t => th'[u] = th[u]
         /\ \A c \in Conns : (Alive(c)' <=> Alive(c)) /\ (Connected(c)' <=> Connected(c))
         /\ \A u \in Threads, k \in Slots, c \in Conns : Serves(u, k, c) => sockets'[u][k] = sockets[u][k]
         /\ \A u \in Threads, k \in Slots, c \in Conns : Serves(u, k, c)' <=> Serves(u, k, c)
<1>1. th'[t] = r /\ \A u \in Threads : u # t => th'[u] = th[u]
  BY DEF Steady, ThreadsOK
<1>2. \A c \in Conns : (Alive(c)' <=> Alive(c)) /\ (Connected(c)' <=> Connected(c))
  BY DEF Steady, Alive, Connected
<1>3. \A u \in Threads, k \in Slots, c \in Conns : Serves(u, k, c) => sockets'[u][k] = sockets[u][k]
  BY DEF Steady, SameHeld, Serves
<1> QED
  BY <1>1, <1>2, <1>3 DEF Steady, SameServes

\* The step is about other connections than c.
LEMMA SteadyFlow ==
  ASSUME ServerInv, NEW t \in Threads, NEW r \in Thread, Steady(t, r), NEW c \in Conns, Flow(c),
         tx'[c] = tx[c], rx'[c] = rx[c], Queue(r, c) = Queue(th[t], c),
         \A k \in Slots : Serves(t, k, c) => r.iov[k] = th[t].iov[k]
  PROVE  Flow(c)'
<1>1. ThreadsOK
  BY DEF ServerInv
<1>2. StillServed(c)
  BY <1>1, SteadyFacts DEF StillServed
<1>3. Still(c)
  BY <1>1, SteadyFacts DEF Still, Steady
<1> QED
  BY <1>1, <1>2, <1>3, StillFlow

\* Answers wait for slots that are held if those of t do.
LEMMA SteadyHeld ==
  ASSUME ServerInv, IovHeld, NEW t \in Threads, NEW r \in Thread, Steady(t, r),
         \A k \in Slots : r.iov[k] # <<>> => Held(t, k)
  PROVE  IovHeld'
<1>1. ASSUME NEW u \in Threads, NEW k \in Slots, th'[u].iov[k] # <<>> PROVE Held(u, k)
  BY <1>1, SteadyFacts DEF IovHeld, ServerInv
<1> QED
  BY <1>1 DEF IovHeld, Steady, SameHeld

\* Neither batch nor answers change.
LEMMA IdleFlow ==
  ASSUME ServerInv, IovHeld, NEW t \in Threads, NEW r \in Thread, Steady(t, r), Idles(t, r), NEW c \in Conns, Flow(c)
  PROVE  Flow(c)' /\ IovHeld'
<1>1. tx'[c] = tx[c] /\ rx'[c] = rx[c] /\ r.iov = th[t].iov /\ Queue(r, c) = Queue(th[t], c)
  BY SameQueue DEF Idles
<1> QED
  BY <1>1, SteadyFlow, SteadyHeld DEF IovHeld

\* A thread that has nothing left to handle.
LEMMA EmptyQueue ==
  ASSUME NEW r, r.batch = <<>>, NEW c, r.k \in Nat
  PROVE  Queue(r, c) = {}
BY DEF Queue

\* The next slot is written.
LEMMA WriteNextFlow ==
  ASSUME ServerInv, IovHeld, NEW t \in Threads, NEW r \in Thread, Steady(t, r), WritesNext(t, r), UNCHANGED <<rx, tx>>,
         NEW c \in Conns, Flow(c)
  PROVE  Flow(c)' /\ IovHeld'
<1>1. th[t] \in Thread /\ th[t].batch = <<>>
  BY DEF ServerInv, ThreadsOK, Local, WritesNext
<1>2. r.iov = th[t].iov /\ r.batch = <<>>
  BY <1>1 DEF WritesNext, Thread
<1>3. r.k \in Nat /\ th[t].k \in Nat
  BY <1>1 DEF Thread
<1>4. Queue(r, c) = {} /\ Queue(th[t], c) = {}
  BY <1>1, <1>2, <1>3, EmptyQueue
<1> QED
  BY <1>2, <1>4, SteadyFlow, SteadyHeld DEF IovHeld

\* The answers of a slot are given up: its client is gone.
LEMMA WriteErrorFlow ==
  ASSUME ServerInv, Own, IovHeld, [Next]_vars, NEW t \in Threads, NEW r \in Thread, Steady(t, r), NEW s \in Slots,
         WritesNothing(t, r, s), UNCHANGED <<rx, tx>>, NEW c \in Conns, Flow(c)
  PROVE  Flow(c)' /\ IovHeld'
<1>1. th[t] \in Thread /\ th[t].batch = <<>> /\ th[t].iov \in [Slots -> Seq(Unit)]
  BY DEF ServerInv, ThreadsOK, Local, WritesNothing, Thread
<1>2. r.batch = th[t].batch /\ r.k = th[t].k /\ r.iov = [th[t].iov EXCEPT ![s] = <<>>]
  BY <1>1 DEF WritesNothing, Thread
<1>3. r.iov[s] = <<>> /\ \A k \in Slots : k # s => r.iov[k] = th[t].iov[k]
  BY <1>1, <1>2
<1>4. Queue(r, c) = Queue(th[t], c)
  BY <1>2, SameQueue
<1>5. IovHeld'
  BY <1>3, SteadyHeld DEF IovHeld
<1>6. CASE ~Serves(t, s, c)
  BY <1>3, <1>4, <1>5, <1>6, SteadyFlow
<1>7. CASE Serves(t, s, c)
  <2>1. ConnOf(sockets[t][s]) = c /\ c # NULL
    BY <1>7, HeldFacts, ConstantFacts DEF Serves
  <2>2. peer[c] = "closed"
    BY <2>1 DEF WritesNothing
  <2>3. tx'[c] = <<>> /\ peer'[c] = "closed"
    BY <2>2 DEF ServerInv, KernelOK, Steady
  <2>4. /\ th'[t] = r /\ (\A u \in Threads : u # t => th'[u] = th[u])
        /\ (\A u \in Threads, k \in Slots : Serves(u, k, c)' <=> Serves(u, k, c))
        /\ (\A u \in Threads, k \in Slots : Serves(u, k, c) => sockets'[u][k] = sockets[u][k])
        /\ (Connected(c)' <=> Connected(c))
    BY SteadyFacts DEF ServerInv
  <2>5. \A u \in Threads : Queue(th'[u], c) = Queue(th[u], c)
    BY <1>4, <2>4
  <2>6. ASSUME NEW u \in Threads, NEW k \in Slots PROVE th'[u].iov[k] = th[u].iov[k] \/ th'[u].iov[k] = <<>>
    BY <1>3, <2>4
  <2>7. FlowAnswers(c)' /\ FlowRead(c)' /\ FlowQueue(c)' /\ FlowPart(c)'
    BY <2>3 DEF FlowAnswers, Answers, FlowRead, FlowQueue, FlowPart
  <2>8. FlowVectors(c)'
    <3>1. VectorsOK(<<>>, c)
      BY DEF VectorsOK
    <3>2. ASSUME NEW u \in Threads, NEW k \in Slots, Serves(u, k, c)' PROVE VectorsOK(th[u].iov[k], c)'
      <4>1. PICK w : w = th'[u].iov[k]
        OBVIOUS
      <4>2. VectorsOK(w, c)
        BY <2>4, <2>6, <3>1, <3>2, <4>1 DEF Flow, FlowVectors
      <4>3. VectorsOK(w, c)'
        BY <2>3, <4>2, VectorsStay
      <4> QED
        BY <4>1, <4>3
    <3> QED
      BY <3>2 DEF FlowVectors
  <2>9. FlowOrder(c)'
    <3>1. ASSUME NEW u \in Threads, NEW k \in Slots, Serves(u, k, c), NEW j \in 1..Len(th'[u].iov[k]),
                 NEW q \in Queue(th'[u], c)
          PROVE  th'[u].iov[k][j].no < q.no
      <4>1. th'[u].iov[k] # <<>>
        BY <3>1
      <4>2. th'[u].iov[k] = th[u].iov[k]
        BY <2>6, <4>1
      <4> QED
        BY <2>5, <3>1, <4>2 DEF Flow, FlowOrder
    <3> QED
      BY <2>4, <3>1 DEF FlowOrder
  <2>10. FlowKnown(c)'
    BY <2>3 DEF FlowKnown, Alive, Up
  <2>11. FlowOwn(c)'
    <3>1. ASSUME Connected(c), NEW u \in Threads, NEW q \in Queue(th[u], c)
          PROVE  Serves(u, q.sid, c)' /\ sockets'[u][q.sid] = q.socket
      <4>1. q.sid \in Slots
        BY <3>1, QueueType DEF ServerInv, ThreadsOK
      <4>2. Serves(u, q.sid, c) /\ sockets[u][q.sid] = q.socket
        BY <3>1 DEF Flow, FlowOwn
      <4> QED
        BY <2>4, <4>1, <4>2
    <3> QED
      BY <2>4, <2>5, <3>1 DEF FlowOwn
  <2> QED
    BY <1>5, <2>7, <2>8, <2>9, <2>10, <2>11 DEF Flow
<1> QED
  BY <1>6, <1>7


\* A lookup joins a batch.
Joins(q, r, x) == q.k = 0 /\ r.k = 0 /\ r.batch = Append(q.batch, x)

\* What waits in a batch once a query joins it.
LEMMA QueueJoins ==
  ASSUME NEW q \in Thread, NEW r \in Thread, NEW x \in Query, Joins(q, r, x), NEW c
  PROVE  \A p : p \in Queue(r, c) <=> p \in Queue(q, c) \/ (p = x /\ x.op = "lookup" /\ x.from = c)
<1> USE DEF Joins
<1>1. q.batch \in Seq(Query)
  BY DEF Thread
<1>2. PICK b \in Seq(Query) : b = q.batch
  BY <1>1
<1>3. PICK y : y = r.batch
  OBVIOUS
<1>4. /\ Len(y) = Len(b) + 1 /\ y[Len(b) + 1] = x /\ Len(b) \in Nat
      /\ \A i \in 1..Len(b) : y[i] = b[i] /\ i \in 1..Len(y)
      /\ \A i \in 1..Len(y) : i = Len(b) + 1 \/ i \in 1..Len(b)
  BY <1>2, <1>3, AppendQueries
<1>5. ASSUME NEW p
      PROVE  /\ p \in Queue(r, c) <=> \E j \in 1..Len(y) : p = y[j] /\ p.op = "lookup" /\ p.from = c
             /\ p \in Queue(q, c) <=> \E j \in 1..Len(b) : p = b[j] /\ p.op = "lookup" /\ p.from = c
  <2>1. r.k + 1..Len(r.batch) = 1..Len(y) /\ q.k + 1..Len(q.batch) = 1..Len(b)
    BY <1>2, <1>3
  <2>2. p \in Queue(r, c) <=> \E j \in r.k + 1..Len(r.batch) : p = r.batch[j] /\ p.op = "lookup" /\ p.from = c
    BY QueueFacts, SMTT(30)
  <2>3. p \in Queue(q, c) <=> \E j \in q.k + 1..Len(q.batch) : p = q.batch[j] /\ p.op = "lookup" /\ p.from = c
    BY QueueFacts
  <2> QED
    BY <1>2, <1>3, <2>1, <2>2, <2>3
<1>6. Len(b) + 1 \in 1..Len(y)
  BY <1>4
<1> QED
  BY <1>4, <1>5, <1>6

\* A query is handled.
LEMMA QueueHandled ==
  ASSUME ThreadsOK, NEW t \in Threads, NEW r \in Thread, NEW iov, Handles(t, r, iov), NEW c
  PROVE  /\ \A p : p \in Queue(th[t], c) <=> p \in Queue(r, c) \/ (p = Current(t) /\ p.op = "lookup" /\ p.from = c)
         /\ Ordered(th[t].batch) /\ Current(t).op = "lookup" /\ Current(t).from = c =>
              \A p \in Queue(r, c) : Current(t).no < p.no
<1>1. th[t] \in Thread /\ th[t].pc = "handle"
  BY DEF ThreadsOK, Handles
<1>2. /\ th[t].k + 1 \in 1..Len(th[t].batch) /\ th[t].k \in Nat /\ Len(th[t].batch) \in Nat
  BY <1>1, CurrentFacts DEF Thread
<1>3. PICK b, k : b = th[t].batch /\ k = th[t].k
  OBVIOUS
<1>4. k \in Nat /\ Len(b) \in Nat /\ k + 1 \in 1..Len(b) /\ Current(t) = b[k + 1]
  BY <1>2, <1>3 DEF Current
<1>5. ASSUME NEW p
      PROVE  p \in Queue(r, c) <=> \E j \in k + 2..Len(b) : p = b[j] /\ p.op = "lookup" /\ p.from = c
  <2>1. CASE k + 1 = Len(b)
    <3>1. r.batch = <<>> /\ r.k = 0
      BY <1>1, <1>3, <2>1 DEF Handles, Thread
    <3>2. Queue(r, c) = {}
      BY <3>1, EmptyQueue
    <3>3. k + 2..Len(b) = {}
      BY <1>4, <2>1
    <3> QED
      BY <3>2, <3>3
  <2>2. CASE k + 1 # Len(b)
    <3>1. r.batch = b /\ r.k = k + 1
      BY <1>1, <1>3, <2>2 DEF Handles, Thread
    <3>2. (k + 1) + 1 = k + 2
      BY <1>4
    <3> QED
      BY <3>1, <3>2, QueueFacts
  <2> QED
    BY <2>1, <2>2
<1>6. \A j \in k + 1..Len(b) : j = k + 1 \/ j \in k + 2..Len(b)
  BY <1>4
<1>7. \A j \in k + 2..Len(b) : j \in k + 1..Len(b) /\ j \in 1..Len(b) /\ k + 1 < j
  BY <1>4
<1>8. k + 1 \in k + 1..Len(b)
  BY <1>4
<1>9. ASSUME NEW p PROVE p \in Queue(th[t], c) <=> p \in Queue(r, c) \/ (p = Current(t) /\ p.op = "lookup" /\ p.from = c)
  <2>1. p \in Queue(th[t], c) <=> \E j \in k + 1..Len(b) : p = b[j] /\ p.op = "lookup" /\ p.from = c
    BY <1>1, <1>3, QueueFacts
  <2> QED
    BY <1>4, <1>5, <1>6, <1>7, <1>8, <2>1
<1>10. ASSUME Ordered(b), Current(t).op = "lookup", Current(t).from = c, NEW p \in Queue(r, c) PROVE Current(t).no < p.no
  <2>1. PICK j \in k + 2..Len(b) : p = b[j] /\ p.op = "lookup" /\ p.from = c
    BY <1>5, <1>10
  <2> QED
    BY <1>4, <1>7, <1>10, <2>1 DEF Ordered
<1> QED
  BY <1>3, <1>9, <1>10

\* An insert is handled.
LEMMA InsertFlow ==
  ASSUME ServerInv, IovHeld, NEW t \in Threads, NEW r \in Thread, Steady(t, r), Handles(t, r, th[t].iov),
         Current(t).op = "insert", UNCHANGED <<rx, tx>>, NEW c \in Conns, Flow(c)
  PROVE  Flow(c)' /\ IovHeld'
<1>1. th[t] \in Thread /\ ThreadsOK
  BY DEF ServerInv, ThreadsOK
<1>2. r.iov = th[t].iov
  BY <1>1 DEF Handles, Thread
<1>3. Queue(r, c) = Queue(th[t], c)
  <2>1. \A p : p \in Queue(th[t], c) <=> p \in Queue(r, c) \/ (p = Current(t) /\ p.op = "lookup" /\ p.from = c)
    BY <1>1, QueueHandled
  <2> QED
    BY <2>1
<1> QED
  BY <1>2, <1>3, SteadyFlow, SteadyHeld DEF IovHeld

\* What is left of a stream.
LEMMA TailObjects ==
  ASSUME NEW s \in Seq(Object), s # <<>>, NEW y, y = Tail(s), NEW i \in 1..Len(s), i # 1
  PROVE  i - 1 \in 1..Len(y) /\ y[i - 1] = s[i]
<1>1. Len(y) = Len(s) - 1 /\ Len(s) \in Nat
  OBVIOUS
<1>2. i - 1 \in 1..Len(y)
  BY <1>1
<1>3. y[i - 1] = s[(i - 1) + 1]
  BY <1>2
<1> QED
  BY <1>2, <1>3

\* A query is read: a lookup goes from the stream to the batch.
LEMMA ReadFlow ==
  ASSUME ServerInv, Own, FramedOK, RxTraced, IovHeld, [Next]_vars, NEW t \in Threads, NEW r \in Thread, Steady(t, r),
         NEW d \in Conns, Reads(t, d, r), tx' = tx, NEW c \in Conns, Flow(c)
  PROVE  Flow(c)' /\ IovHeld'
<1>1. ThreadsOK /\ th[t] \in Thread /\ rx \in [Conns -> Seq(Object)]
  BY DEF ServerInv, ThreadsOK, Types
<1>2. /\ r.k = 0 /\ th[t].k = 0 /\ r.iov = th[t].iov /\ \A s \in Slots : th[t].iov[s] = <<>>
      /\ \/ r.batch = th[t].batch /\ rx[d][1].op # "lookup"
         \/ \E q \in Query : /\ r.batch = Append(th[t].batch, q) /\ q.from = d /\ q.sid = th[t].i
                             /\ q.socket = sockets[t][th[t].i]
                             /\ q.op = "lookup" => /\ rx[d][1].op = "lookup"
                                                   /\ q.no = rx[d][1].no /\ q.key = rx[d][1].key
                             /\ q.op = "lookup" \/ th[t].pc = "value"
  BY ReadsJoins
<1>9. r.k = 0 /\ th[t].k = 0
  BY <1>2
<1>10. ASSUME NEW q \in Query, r.batch = Append(th[t].batch, q)
       PROVE  \A p : p \in Queue(r, c) <=> p \in Queue(th[t], c) \/ (p = q /\ q.op = "lookup" /\ q.from = c)
  <2>1. Joins(th[t], r, q)
    BY <1>9, <1>10 DEF Joins
  <2> QED
    BY <1>1, <2>1, QueueJoins
<1>3. IovHeld'
  BY <1>2, SteadyHeld
<1>4. /\ Held(t, th[t].i) /\ d = fdt[sockets[t][th[t].i]] /\ rx[d] # <<>> /\ rx' = [rx EXCEPT ![d] = Tail(@)]
      /\ th[t].i \in Slots
  BY <1>1 DEF Reads, Thread
<1>5. Serves(t, th[t].i, d)
  BY <1>4 DEF Serves
<1>6. \A u \in Threads, k \in Slots : th'[u].iov[k] = th[u].iov[k]
  BY <1>1, <1>2, SteadyFacts
<1>7. CASE c # d
  <2>1. Queue(r, c) = Queue(th[t], c)
    <3>1. CASE r.batch = th[t].batch
      BY <1>2, <3>1, SameQueue
    <3>2. ASSUME NEW q \in Query, r.batch = Append(th[t].batch, q), q.from = d PROVE Queue(r, c) = Queue(th[t], c)
      <4>1. \A p : p \in Queue(r, c) <=> p \in Queue(th[t], c) \/ (p = q /\ q.op = "lookup" /\ q.from = c)
        BY <1>10, <3>2
      <4> QED
        BY <1>7, <3>2, <4>1
    <3> QED
      BY <1>2, <3>1, <3>2
  <2>2. rx'[c] = rx[c]
    BY <1>1, <1>4, <1>7
  <2> QED
    BY <1>2, <1>3, <2>1, <2>2, SteadyFlow
<1>8. CASE c = d
  <2>1. /\ th'[t] = r /\ (\A u \in Threads : u # t => th'[u] = th[u])
        /\ (\A u \in Threads, k \in Slots : Serves(u, k, c)' <=> Serves(u, k, c))
        /\ (\A u \in Threads, k \in Slots : Serves(u, k, c) => sockets'[u][k] = sockets[u][k])
        /\ (Connected(c)' <=> Connected(c)) /\ (Alive(c)' <=> Alive(c)) /\ peer' = peer /\ asked' = asked
    BY <1>1, SteadyFacts DEF Steady
  <2>2. \A p \in Queue(th[t], c) : p \in Queue(r, c)
    <3>1. CASE r.batch = th[t].batch
      BY <1>2, <3>1, SameQueue
    <3>2. ASSUME NEW q \in Query, r.batch = Append(th[t].batch, q) PROVE \A p \in Queue(th[t], c) : p \in Queue(r, c)
      BY <1>10, <3>2
    <3> QED
      BY <1>2, <3>1, <3>2
  <2>3. ASSUME NEW p \in Queue(r, c), p \notin Queue(th[t], c)
        PROVE  /\ rx[c][1].op = "lookup" /\ p.no = rx[c][1].no /\ p.sid = th[t].i /\ p.socket = sockets[t][th[t].i]
    <3>1. CASE r.batch = th[t].batch
      BY <1>2, <2>3, <3>1, SameQueue
    <3>2. ASSUME NEW q \in Query, r.batch = Append(th[t].batch, q), q.from = d, q.sid = th[t].i,
                 q.socket = sockets[t][th[t].i],
                 q.op = "lookup" => rx[d][1].op = "lookup" /\ q.no = rx[d][1].no
          PROVE  /\ rx[c][1].op = "lookup" /\ p.no = rx[c][1].no /\ p.sid = th[t].i /\ p.socket = sockets[t][th[t].i]
      <4>1. p = q /\ q.op = "lookup"
        BY <1>10, <2>3, <3>2
      <4> QED
        BY <1>8, <3>2, <4>1
    <3> QED
      BY <1>2, <3>1, <3>2
  <2>4. ASSUME Alive(c), rx[c][1].op = "lookup" PROVE \E p \in Queue(r, c) : p.no = rx[c][1].no
    <3>1. th[t].pc # "value"
      <4>1. Frame(rx[c], Middle(c), peer[c])
        BY <2>4 DEF FramedOK
      <4>2. Middle(c) = {}
        BY <1>4, <1>8, <2>4, <4>1 DEF Frame
      <4> QED
        BY <1>5, <1>8, <4>2 DEF Middle
    <3>2. PICK q \in Query : /\ r.batch = Append(th[t].batch, q) /\ q.from = d
                             /\ q.op = "lookup" => q.no = rx[d][1].no
                             /\ q.op = "lookup" \/ th[t].pc = "value"
      BY <1>2, <1>8, <2>4
    <3>3. q \in Queue(r, c)
      BY <1>8, <1>10, <3>1, <3>2
    <3> QED
      BY <1>8, <3>1, <3>2, <3>3
  <2>5. rx[c] \in Seq(Object) /\ rx[c] # <<>> /\ rx'[c] = Tail(rx[c]) /\ 1 \in 1..Len(rx[c])
    BY <1>1, <1>4, <1>8, NotEmpty
  <2>6. FlowAnswers(c)' /\ FlowRead(c)'
    BY <2>1, FlowReadStays DEF Flow, FlowAnswers
  <2>7. FlowQueue(c)'
    <3>1. ASSUME NEW u \in Threads, NEW q \in Queue(th'[u], c), NEW x \in 1..Len(tx[c]) PROVE tx[c][x].no < q.no
      <4>1. CASE q \in Queue(th[u], c)
        BY <4>1 DEF Flow, FlowQueue
      <4>2. CASE q \notin Queue(th[u], c)
        <5>1. u = t /\ q \in Queue(r, c)
          BY <2>1, <3>1, <4>2
        <5>2. rx[c][1].op = "lookup" /\ q.no = rx[c][1].no
          BY <2>3, <4>2, <5>1
        <5>3. Ahead(rx[c], tx[c][x].no)
          BY DEF Flow, FlowRead, WasRead
        <5> QED
          BY <2>5, <5>2, <5>3 DEF Ahead
      <4> QED
        BY <4>1, <4>2
    <3> QED
      BY <3>1 DEF FlowQueue
  <2>8. FlowVectors(c)'
    <3>1. ASSUME NEW u \in Threads, NEW k \in Slots, Serves(u, k, c)' PROVE VectorsOK(th[u].iov[k], c)'
      <4>1. PICK w : w = th[u].iov[k]
        OBVIOUS
      <4>2. VectorsOK(w, c)
        BY <2>1, <3>1, <4>1 DEF Flow, FlowVectors
      <4>3. VectorsOK(w, c)'
        BY <2>1, <4>2, VectorsStay
      <4> QED
        BY <1>6, <4>1, <4>3
    <3> QED
      BY <3>1 DEF FlowVectors
  <2>9. FlowOrder(c)'
    <3>1. ASSUME NEW u \in Threads, NEW k \in Slots, Serves(u, k, c), NEW j \in 1..Len(th[u].iov[k]),
                 NEW q \in Queue(th'[u], c)
          PROVE  th[u].iov[k][j].no < q.no
      <4>1. u # t
        BY <1>2, <3>1
      <4> QED
        BY <2>1, <3>1, <4>1 DEF Flow, FlowOrder
    <3> QED
      BY <1>6, <2>1, <3>1 DEF FlowOrder
  <2>10. FlowPart(c)'
    BY <1>6, <2>1 DEF Flow, FlowPart
  <2>11. FlowKnown(c)'
    <3>1. ASSUME Alive(c), NEW m, Known(c, m) PROVE Known(c, m)'
      <4>1. CASE \E x \in 1..Len(tx[c]) : tx[c][x].no = m
        BY <4>1 DEF Known
      <4>2. CASE \E i \in 1..Len(rx[c]) : rx[c][i].op = "lookup" /\ rx[c][i].no = m
        <5>1. PICK i \in 1..Len(rx[c]) : rx[c][i].op = "lookup" /\ rx[c][i].no = m
          BY <4>2
        <5>2. CASE i = 1
          <6>1. PICK p \in Queue(r, c) : p.no = m
            BY <2>4, <3>1, <5>1, <5>2
          <6>2. p \in Queue(th'[t], c)
            BY <2>1, <6>1
          <6> QED
            BY <6>1, <6>2 DEF Known
        <5>3. CASE i # 1
          <6>1. i - 1 \in 1..Len(rx'[c]) /\ rx'[c][i - 1] = rx[c][i]
            BY <2>5, <5>3, TailObjects
          <6> QED
            BY <5>1, <6>1 DEF Known
        <5> QED
          BY <5>2, <5>3
      <4>3. CASE \E u \in Threads : \E q \in Queue(th[u], c) : q.no = m
        <5>1. PICK u \in Threads : \E q \in Queue(th[u], c) : q.no = m
          BY <4>3
        <5>2. \E q \in Queue(th'[u], c) : q.no = m
          BY <2>1, <2>2, <5>1
        <5> QED
          BY <5>2 DEF Known
      <4>4. CASE \E u \in Threads, k \in Slots : Serves(u, k, c) /\ \E j \in 1..Len(th[u].iov[k]) : th[u].iov[k][j].no = m
        BY <1>6, <2>1, <4>4 DEF Known
      <4> QED
        BY <3>1, <4>1, <4>2, <4>3, <4>4 DEF Known
    <3> QED
      BY <2>1, <3>1 DEF Flow, FlowKnown
  <2>12. FlowOwn(c)'
    <3>1. ASSUME Connected(c), NEW u \in Threads, NEW q \in Queue(th'[u], c)
          PROVE  q.sid \in Slots /\ Serves(u, q.sid, c) /\ sockets[u][q.sid] = q.socket
      <4>1. CASE q \in Queue(th[u], c)
        <5>1. q.sid \in Slots
          BY <1>1, <4>1, QueueType DEF ThreadsOK
        <5> QED
          BY <3>1, <4>1, <5>1 DEF Flow, FlowOwn
      <4>2. CASE q \notin Queue(th[u], c)
        <5>1. u = t /\ q \in Queue(r, c)
          BY <2>1, <3>1, <4>2
        <5> QED
          BY <1>4, <1>5, <1>8, <2>3, <4>2, <5>1
      <4> QED
        BY <4>1, <4>2
    <3> QED
      BY <2>1, <3>1 DEF FlowOwn
  <2> QED
    BY <1>3, <2>6, <2>7, <2>8, <2>9, <2>10, <2>11, <2>12 DEF Flow
<1> QED
  BY <1>7, <1>8


\* An answer joins those that wait.
LEMMA VectorsAppend ==
  ASSUME NEW w \in Seq(Unit), NEW e \in Unit, NEW c \in Conns, VectorsOK(w, c), WasRead(c, e.no),
         e.v \in {NULL, asked[c][e.no].key}, \A j \in 1..Len(w) : w[j].no < e.no,
         \A x \in 1..Len(tx[c]) : tx[c][x].no < e.no, e.n = 0
  PROVE  VectorsOK(Append(w, e), c)
<1>1. PICK z : z = Append(w, e)
  OBVIOUS
<1>2. /\ Len(z) = Len(w) + 1 /\ z[Len(w) + 1] = e /\ Len(w) \in Nat
      /\ \A i \in 1..Len(w) : z[i] = w[i] /\ i \in 1..Len(z)
      /\ \A i \in 1..Len(z) : i = Len(w) + 1 \/ i \in 1..Len(w)
  BY <1>1, AppendUnits
<1>3. \A j \in 1..Len(z) : z[j] = e \/ (j \in 1..Len(w) /\ z[j] = w[j])
  BY <1>2
<1>4. \A j \in 1..Len(z) : WasRead(c, z[j].no) /\ z[j].v \in {NULL, asked[c][z[j].no].key}
  BY <1>3 DEF VectorsOK
<1>5. ASSUME NEW i \in 1..Len(z), NEW j \in 1..Len(z), i < j PROVE z[i].no < z[j].no
  <2>1. i \in 1..Len(w) /\ z[i] = w[i]
    BY <1>2, <1>5
  <2>2. CASE j = Len(w) + 1
    BY <1>2, <2>1, <2>2
  <2>3. CASE j # Len(w) + 1
    <3>1. j \in 1..Len(w) /\ z[j] = w[j]
      BY <1>2, <2>3
    <3> QED
      BY <1>5, <2>1, <3>1 DEF VectorsOK
  <2> QED
    BY <2>2, <2>3
<1>6. \A j \in 1..Len(z), x \in 1..Len(tx[c]) : tx[c][x].no < z[j].no \/ (z[j].n = 1 /\ tx[c][x].no = z[j].no)
  BY <1>3, SMTT(30) DEF VectorsOK
<1>7. \A j \in 1..Len(z) : z[j].n = 1 /\ peer[c] # "closed" => tx[c] # <<>> /\ tx[c][Len(tx[c])] = z[j]
  BY <1>3 DEF VectorsOK
<1>8. VectorsOK(z, c)
  BY <1>4, <1>5, <1>6, <1>7 DEF VectorsOK
<1> QED
  BY <1>1, <1>8

\* The lookup that is handled, while descriptors are not confused: if its slot
\* has the descriptor it had, it serves the connection that asked, and otherwise
\* that connection is no more.
LEMMA CurrentOwner ==
  ASSUME ServerInv, BatchTraced, NEW t \in Threads, NEW r \in Thread, NEW iov, HandlesLookup(t, r, iov), ~mixed',
         NEW c \in Conns, c = Current(t).from, Flow(c)
  PROVE  /\ Current(t) \in Queue(th[t], c) /\ QueryRead(Current(t)) /\ Current(t).sid \in Slots
         /\ sockets[t][Current(t).sid] = Current(t).socket => Serves(t, Current(t).sid, c)
         /\ sockets[t][Current(t).sid] # Current(t).socket => ~Alive(c)
<1>1. ThreadsOK /\ Handles(t, r, iov) /\ Current(t).op = "lookup" /\ th[t].pc = "handle"
  BY DEF ServerInv, HandlesLookup, Handles
<1>2. /\ th[t].k + 1 \in 1..Len(th[t].batch) /\ Current(t) \in Query /\ Current(t).sid \in Slots
  BY <1>1, CurrentFacts
<1>3. Current(t).socket \in Fds
  BY <1>2 DEF Query
<1>4. Current(t) \in Queue(th[t], c)
  BY <1>1, QueueHandled
<1>5. QueryRead(Current(t))
  BY <1>2 DEF BatchTraced, Current
<1>6. Connected(c) => Serves(t, Current(t).sid, c) /\ sockets[t][Current(t).sid] = Current(t).socket
  BY <1>4 DEF Flow, FlowOwn
<1>7. ASSUME sockets[t][Current(t).sid] = Current(t).socket PROVE Connected(c)
  <2>1. ConnOf(Current(t).socket) = c
    BY <1>7 DEF HandlesLookup
  <2>2. fdt[Current(t).socket] = c
    BY <1>3, <2>1 DEF ConnOf
  <2> QED
    BY <1>3, <2>2 DEF Connected
<1>8. c \notin backlog
  BY <1>1, <1>5 DEF QueryRead
<1> QED
  BY <1>2, <1>4, <1>5, <1>6, <1>7, <1>8 DEF Alive

\* A lookup is handled: it goes from the batch to the answers that wait, or its
\* connection is no more.
LEMMA LookupFlow ==
  ASSUME ServerInv, Own, BatchTraced, IovHeld, [Next]_vars, ~mixed', NEW t \in Threads, NEW r \in Thread, Steady(t, r),
         NEW iov \in [Slots -> Seq(Unit)], HandlesLookup(t, r, iov), \A x \in Conns : Flow(x), NEW c \in Conns
  PROVE  Flow(c)' /\ IovHeld'
<1>1. ThreadsOK /\ th[t] \in Thread /\ th[t].iov \in [Slots -> Seq(Unit)] /\ th[t].pc = "handle"
  BY DEF ServerInv, ThreadsOK, HandlesLookup, Handles, Thread
<1>2. Handles(t, r, iov) /\ Current(t).op = "lookup" /\ rx' = rx /\ tx' = tx
  BY DEF HandlesLookup
<1>3. PICK q, e, s, d : q = Current(t) /\ e = Answer(t) /\ s = q.sid /\ d = q.from
  OBVIOUS
<1>4. /\ q \in Query /\ e \in Unit /\ s \in Slots /\ e.v \in {NULL, q.key} /\ e.n = 0 /\ e.no = q.no /\ q.op = "lookup"
      /\ d \in Conns
  BY <1>1, <1>2, <1>3, CurrentFacts DEF Query
<1>5. /\ q \in Queue(th[t], d) /\ QueryRead(q)
      /\ sockets[t][s] = q.socket => Serves(t, s, d)
      /\ sockets[t][s] # q.socket => ~Alive(d)
  BY <1>3, <1>4, CurrentOwner
<1>6. r.iov = iov
  BY <1>1, <1>2 DEF Handles, Thread
<1>7. \/ sockets[t][s] = q.socket /\ iov[s] = Append(th[t].iov[s], e) /\ \A k \in Slots : k # s => iov[k] = th[t].iov[k]
      \/ sockets[t][s] # q.socket /\ iov = th[t].iov
  BY <1>1, <1>3, <1>4 DEF HandlesLookup
<1>8. \A x : \A p : p \in Queue(th[t], x) <=> p \in Queue(r, x) \/ (p = q /\ p.op = "lookup" /\ p.from = x)
  BY <1>1, <1>2, <1>3, QueueHandled
<1>9. \A p \in Queue(r, d) : q.no < p.no
  <2>1. Ordered(th[t].batch)
    BY DEF BatchTraced
  <2> QED
    BY <1>1, <1>2, <1>3, <2>1, QueueHandled
<1>10. IovHeld'
  <2>1. ASSUME NEW k \in Slots, r.iov[k] # <<>> PROVE Held(t, k)
    BY <1>5, <1>6, <1>7, <2>1 DEF IovHeld, Serves
  <2> QED
    BY <2>1, SteadyHeld
<1>11. Flow(c)
  OBVIOUS
<1>12. CASE c # d
  <2>1. Queue(r, c) = Queue(th[t], c)
    BY <1>3, <1>8, <1>12
  <2>2. ASSUME NEW k \in Slots, Serves(t, k, c) PROVE r.iov[k] = th[t].iov[k]
    <3>1. CASE k # s
      BY <1>6, <1>7, <3>1
    <3>2. CASE k = s
      <4>1. ~Serves(t, s, d)
        BY <1>12, <2>2, <3>2 DEF Serves
      <4> QED
        BY <1>5, <1>6, <1>7, <4>1
    <3> QED
      BY <3>1, <3>2
  <2> QED
    BY <1>2, <1>10, <1>11, <2>1, <2>2, SteadyFlow
<1>13. CASE c = d
  <2>1. /\ th'[t] = r /\ (\A u \in Threads : u # t => th'[u] = th[u])
        /\ (\A u \in Threads, k \in Slots : Serves(u, k, c)' <=> Serves(u, k, c))
        /\ (\A u \in Threads, k \in Slots : Serves(u, k, c) => sockets'[u][k] = sockets[u][k])
        /\ (Connected(c)' <=> Connected(c)) /\ (Alive(c)' <=> Alive(c)) /\ peer' = peer /\ asked' = asked
    BY <1>1, SteadyFacts DEF Steady
  <2>2. \A u \in Threads : Queue(th'[u], c) \subseteq Queue(th[u], c)
    BY <1>8, <2>1
  <2>3. ASSUME NEW u \in Threads, NEW k \in Slots
        PROVE  \/ th'[u].iov[k] = th[u].iov[k]
               \/ u = t /\ k = s /\ Serves(t, s, c) /\ th'[u].iov[k] = Append(th[t].iov[s], e)
    <3>1. CASE u # t
      BY <2>1, <3>1
    <3>2. CASE u = t /\ k # s
      BY <1>6, <1>7, <2>1, <3>2
    <3>3. CASE u = t /\ k = s
      BY <1>5, <1>6, <1>7, <1>13, <2>1, <3>3
    <3> QED
      BY <3>1, <3>2, <3>3
  <2>4. ASSUME NEW k \in Slots PROVE th[t].iov[k] \in Seq(Unit)
    BY <1>1
  <2>5. /\ Len(Append(th[t].iov[s], e)) = Len(th[t].iov[s]) + 1 /\ Append(th[t].iov[s], e)[Len(th[t].iov[s]) + 1] = e
        /\ Len(th[t].iov[s]) + 1 \in 1..Len(Append(th[t].iov[s], e))
        /\ \A i \in 1..Len(th[t].iov[s]) : /\ Append(th[t].iov[s], e)[i] = th[t].iov[s][i]
                                           /\ i \in 1..Len(Append(th[t].iov[s], e))
        /\ \A i \in 1..Len(Append(th[t].iov[s], e)) : i = Len(th[t].iov[s]) + 1 \/ i \in 1..Len(th[t].iov[s])
    <3>1. PICK w \in Seq(Unit) : w = th[t].iov[s]
      BY <1>4, <2>4
    <3>2. PICK z : z = Append(w, e)
      OBVIOUS
    <3>3. /\ Len(z) = Len(w) + 1 /\ z[Len(w) + 1] = e /\ Len(w) + 1 \in 1..Len(z)
          /\ \A i \in 1..Len(w) : z[i] = w[i] /\ i \in 1..Len(z)
          /\ \A i \in 1..Len(z) : i = Len(w) + 1 \/ i \in 1..Len(w)
      <4>1. e \in Unit
        BY <1>4
      <4> QED
        BY <3>2, <4>1, AppendUnits
    <3> QED
      BY <3>1, <3>2, <3>3
  <2>6. FlowAnswers(c)' /\ FlowRead(c)'
    BY <1>2, <1>11, <2>1, FlowReadStays DEF Flow, FlowAnswers
  <2>7. FlowQueue(c)'
    BY <1>2, <1>11, <2>2 DEF Flow, FlowQueue
  <2>8. FlowVectors(c)'
    <3>1. \A z : VectorsOK(z, c)' <=> VectorsOK(z, c)
      BY <1>2, <2>1 DEF VectorsOK, WasRead
    <3>2. ASSUME Serves(t, s, c) PROVE VectorsOK(Append(th[t].iov[s], e), c)
      <4>1. VectorsOK(th[t].iov[s], c)
        BY <1>4, <1>11, <3>2 DEF Flow, FlowVectors
      <4>2. WasRead(c, e.no) /\ e.v \in {NULL, asked[c][e.no].key}
        BY <1>3, <1>4, <1>5, <1>13 DEF QueryRead
      <4>3. \A j \in 1..Len(th[t].iov[s]) : th[t].iov[s][j].no < e.no
        BY <1>4, <1>5, <1>11, <1>13, <3>2 DEF Flow, FlowOrder
      <4>4. \A x \in 1..Len(tx[c]) : tx[c][x].no < e.no
        BY <1>4, <1>5, <1>11, <1>13 DEF Flow, FlowQueue
      <4> QED
        BY <1>4, <2>4, <4>1, <4>2, <4>3, <4>4, VectorsAppend
    <3>3. ASSUME NEW u \in Threads, NEW k \in Slots, Serves(u, k, c)' PROVE VectorsOK(th[u].iov[k], c)'
      <4>1. PICK z : z = th'[u].iov[k]
        OBVIOUS
      <4>2. Serves(u, k, c)
        BY <2>1, <3>3
      <4>3. CASE z = th[u].iov[k]
        <5>1. VectorsOK(z, c)
          BY <1>11, <4>2, <4>3 DEF Flow, FlowVectors
        <5> QED
          BY <3>1, <4>1, <5>1
      <4>4. CASE Serves(t, s, c) /\ z = Append(th[t].iov[s], e)
        <5>1. VectorsOK(z, c)
          BY <3>2, <4>4
        <5> QED
          BY <3>1, <4>1, <5>1
      <4> QED
        BY <2>3, <4>1, <4>3, <4>4
    <3> QED
      BY <3>3 DEF FlowVectors
  <2>9. FlowOrder(c)'
    <3>1. ASSUME NEW u \in Threads, NEW k \in Slots, Serves(u, k, c), NEW j \in 1..Len(th'[u].iov[k]),
                 NEW p \in Queue(th'[u], c)
          PROVE  th'[u].iov[k][j].no < p.no
      <4>1. p \in Queue(th[u], c)
        BY <2>2, <3>1
      <4>2. CASE th'[u].iov[k] = th[u].iov[k]
        BY <1>11, <3>1, <4>1, <4>2 DEF Flow, FlowOrder
      <4>3. CASE u = t /\ k = s /\ th'[u].iov[k] = Append(th[t].iov[s], e)
        <5>1. CASE j \in 1..Len(th[t].iov[s])
          <6>1. th'[u].iov[k][j] = th[t].iov[s][j]
            BY <2>5, <4>3, <5>1
          <6>2. th[t].iov[s][j].no < p.no
            BY <1>11, <3>1, <4>1, <4>3, <5>1 DEF Flow, FlowOrder
          <6> QED
            BY <6>1, <6>2
        <5>2. CASE j \notin 1..Len(th[t].iov[s])
          <6>1. th'[u].iov[k][j] = e
            BY <2>5, <3>1, <4>3, <5>2
          <6>2. p \in Queue(r, d)
            BY <1>13, <2>1, <3>1, <4>3
          <6> QED
            BY <1>4, <1>9, <6>1, <6>2
        <5> QED
          BY <5>1, <5>2
      <4> QED
        BY <2>3, <4>2, <4>3
    <3> QED
      BY <2>1, <3>1 DEF FlowOrder
  <2>10. FlowPart(c)'
    <3>1. ASSUME NEW u \in Threads, NEW k \in Slots, th[u].iov[k] # <<>>, th[u].iov[k][1].n = 1
          PROVE  th'[u].iov[k] # <<>> /\ th'[u].iov[k][1].n = 1
      <4>1. u # t
        <5>1. ASSUME u = t PROVE FALSE
          <6>1. 1 \in 1..Len(th[t].iov[k])
            BY <2>4, <3>1, <5>1, NotEmpty
          <6> QED
            BY <1>1, <3>1, <5>1, <6>1, Unwritten
        <5> QED
          BY <5>1
      <4> QED
        BY <2>1, <3>1, <4>1
    <3> QED
      BY <1>2, <1>11, <2>1, <3>1 DEF Flow, FlowPart
  <2>11. FlowKnown(c)'
    <3>1. ASSUME Alive(c), NEW m, Known(c, m) PROVE Known(c, m)'
      <4>1. CASE \E x \in 1..Len(tx[c]) : tx[c][x].no = m
        BY <1>2, <4>1 DEF Known
      <4>2. CASE \E i \in 1..Len(rx[c]) : rx[c][i].op = "lookup" /\ rx[c][i].no = m
        BY <1>2, <4>2 DEF Known
      <4>3. ASSUME NEW u \in Threads, NEW p \in Queue(th[u], c), p.no = m PROVE Known(c, m)'
        <5>1. CASE p \in Queue(th'[u], c)
          BY <4>3, <5>1 DEF Known
        <5>2. CASE p \notin Queue(th'[u], c)
          <6>1. u = t /\ p = q
            BY <1>8, <2>1, <4>3, <5>2
          <6>2. sockets[t][s] = q.socket
            BY <1>5, <1>13, <3>1
          <6>3. Serves(t, s, c)' /\ th'[t].iov[s] = Append(th[t].iov[s], e)
            BY <1>4, <1>5, <1>6, <1>7, <1>13, <2>1, <6>2
          <6>4. \E j \in 1..Len(th'[t].iov[s]) : th'[t].iov[s][j].no = m
            BY <1>4, <2>5, <4>3, <6>1, <6>3
          <6> QED
            BY <1>4, <6>3, <6>4 DEF Known
        <5> QED
          BY <5>1, <5>2
      <4>4. ASSUME NEW u \in Threads, NEW k \in Slots, Serves(u, k, c), NEW j \in 1..Len(th[u].iov[k]),
                   th[u].iov[k][j].no = m
            PROVE  Known(c, m)'
        <5>1. \E i \in 1..Len(th'[u].iov[k]) : th'[u].iov[k][i].no = m
          <6>1. CASE th'[u].iov[k] = th[u].iov[k]
            BY <4>4, <6>1
          <6>2. CASE u = t /\ k = s /\ th'[u].iov[k] = Append(th[t].iov[s], e)
            BY <2>5, <4>4, <6>2
          <6> QED
            BY <2>3, <6>1, <6>2
        <5> QED
          BY <2>1, <4>4, <5>1 DEF Known
      <4> QED
        BY <3>1, <4>1, <4>2, <4>3, <4>4 DEF Known
    <3> QED
      BY <1>11, <2>1, <3>1 DEF Flow, FlowKnown
  <2>12. FlowOwn(c)'
    <3>1. ASSUME Connected(c), NEW u \in Threads, NEW p \in Queue(th'[u], c)
          PROVE  p.sid \in Slots /\ Serves(u, p.sid, c) /\ sockets[u][p.sid] = p.socket
      <4>1. p \in Queue(th[u], c)
        BY <2>2, <3>1
      <4>2. p.sid \in Slots
        BY <1>1, <4>1, QueueType DEF ThreadsOK
      <4> QED
        BY <1>11, <3>1, <4>1, <4>2 DEF Flow, FlowOwn
    <3> QED
      BY <2>1, <3>1 DEF FlowOwn
  <2> QED
    BY <1>10, <2>6, <2>7, <2>8, <2>9, <2>10, <2>11, <2>12 DEF Flow
<1> QED
  BY <1>12, <1>13


\* One unit of the first answer for slot k is written: of its answers, w, those
\* left to write are y.
Written(t, r, k, e, w, y) ==
  /\ r.batch = th[t].batch /\ r.k = th[t].k /\ th[t].batch = <<>> /\ th[t].k \in Nat
  /\ w \in Seq(Unit) /\ w # <<>> /\ e = w[1] /\ y \in Seq(Unit)
  /\ \A l \in Slots : l # k => r.iov[l] = th[t].iov[l]
  /\ \A j \in 2..Len(w) : w[j].n = 0
  /\ e.n = 0 \/ (e.n = 1 /\ e.v # NULL)
  /\ \/ y = Tail(w) /\ e.n + 1 = Size(e.v)
     \/ e.n = 0 /\ e.v # NULL /\ Len(y) = Len(w) /\ y[1] = More(e) /\ \A j \in 2..Len(w) : y[j] = w[j]

\* writev takes a unit.
LEMMA VectorWritten ==
  ASSUME ThreadsOK, NEW t \in Threads, NEW r \in Thread, NEW k \in Slots, NEW e \in Unit, NEW c, WritesUnit(t, r, k, e, c),
         NEW w, w = th[t].iov[k], NEW y, y = r.iov[k]
  PROVE  Written(t, r, k, e, w, y)
<1>1. PICK q \in Thread : q = th[t]
  BY DEF ThreadsOK
<1>2. Local(q)
  BY <1>1 DEF ThreadsOK
<1>3. /\ q.iov \in [Slots -> Seq(Unit)] /\ r.iov \in [Slots -> Seq(Unit)] /\ q.k \in Nat
      /\ q.pc = "write" /\ w = q.iov[k] /\ w # <<>> /\ e = w[1]
  BY <1>1 DEF WritesUnit, Thread
<1>4. w \in Seq(Unit) /\ y \in Seq(Unit) /\ 1 \in 1..Len(w)
  BY <1>3, NotEmpty
<1>5. r.batch = q.batch /\ r.k = q.k
  BY <1>1 DEF WritesUnit, Thread
<1>6. q.batch = <<>>
  BY <1>2, <1>3 DEF Local
<1>7. \A j \in 1..Len(w) : w[j].n = 0 \/ (w[j].n = 1 /\ w[j].v # NULL /\ j = 1)
  BY <1>2, <1>3 DEF Local
<1>8. /\ r.batch = th[t].batch /\ r.k = th[t].k /\ th[t].batch = <<>> /\ th[t].k \in Nat /\ q.iov = th[t].iov
      /\ w \in Seq(Unit) /\ w # <<>> /\ e = w[1] /\ y \in Seq(Unit) /\ \A j \in 2..Len(w) : w[j].n = 0
  BY <1>1, <1>3, <1>4, <1>5, <1>6, <1>7
<1>9. CASE /\ (e.n = 0 /\ e.v = NULL) \/ (e.n = 1 /\ e.v # NULL)
           /\ r = [q EXCEPT !.iov = [q.iov EXCEPT ![k] = Tail(q.iov[k])], !.pins = Unpinned(q.pins, <<e>>)]
  <2>1. r.iov = [q.iov EXCEPT ![k] = Tail(q.iov[k])]
    BY <1>9 DEF Thread
  <2>2. y = Tail(w) /\ \A l \in Slots : l # k => r.iov[l] = q.iov[l]
    BY <1>3, <2>1
  <2>3. e.n + 1 = Size(e.v)
    BY <1>9 DEF Size
  <2>4. e.n = 0 \/ (e.n = 1 /\ e.v # NULL)
    BY <1>9
  <2> QED
    BY <1>8, <2>2, <2>3, <2>4 DEF Written
<1>10. CASE /\ e.n = 0 /\ e.v # NULL
            /\ r = [q EXCEPT !.iov = [q.iov EXCEPT ![k] = [q.iov[k] EXCEPT ![1] = More(e)]]]
  <2>1. r.iov = [q.iov EXCEPT ![k] = [q.iov[k] EXCEPT ![1] = More(e)]]
    BY <1>10 DEF Thread
  <2>2. y = [w EXCEPT ![1] = More(e)] /\ \A l \in Slots : l # k => r.iov[l] = q.iov[l]
    BY <1>3, <2>1
  <2>3. Len(y) = Len(w) /\ y[1] = More(e) /\ \A j \in 2..Len(w) : y[j] = w[j]
    BY <1>4, <2>2, MoreType
  <2>4. e.n = 0 /\ e.v # NULL
    BY <1>10
  <2> QED
    BY <1>8, <2>2, <2>3, <2>4 DEF Written
<1> QED
  BY <1>1, <1>9, <1>10 DEF WritesUnit

\* What is left of the answers that wait.
LEMMA TailUnits ==
  ASSUME NEW w \in Seq(Unit), w # <<>>, NEW y, y = Tail(w)
  PROVE  /\ \A j \in 1..Len(y) : j + 1 \in 2..Len(w) /\ j + 1 \in 1..Len(w) /\ y[j] = w[j + 1]
         /\ \A j \in 2..Len(w) : j - 1 \in 1..Len(y) /\ y[j - 1] = w[j]
OBVIOUS

\* The answers that wait once the first of them is on the connection, z.
LEMMA VectorsTail ==
  ASSUME NEW w \in Seq(Unit), w # <<>>, NEW c \in Conns, tx \in [Conns -> Seq(Unit)], VectorsOK(w, c),
         \A j \in 2..Len(w) : w[j].n = 0, NEW u \in Unit, u.no = w[1].no, NEW z, z = Append(tx[c], u) \/ z = tx[c],
         tx'[c] = z, rx' = rx, asked' = asked, peer' = peer, NEW y, y = Tail(w)
  PROVE  VectorsOK(y, c)'
<1>1. \A j \in 1..Len(y) : j + 1 \in 2..Len(w) /\ j + 1 \in 1..Len(w) /\ y[j] = w[j + 1]
  BY TailUnits
<1>2. \A j \in 1..Len(y) : WasRead(c, y[j].no)' /\ y[j].v \in {NULL, asked'[c][y[j].no].key}
  BY <1>1 DEF VectorsOK, WasRead
<1>3. ASSUME NEW i \in 1..Len(y), NEW j \in 1..Len(y), i < j PROVE y[i].no < y[j].no
  <2>1. i + 1 \in 1..Len(w) /\ j + 1 \in 1..Len(w) /\ i + 1 < j + 1 /\ y[i] = w[i + 1] /\ y[j] = w[j + 1]
    BY <1>1, <1>3
  <2> QED
    BY <2>1 DEF VectorsOK
<1>4. \A j \in 1..Len(y) : y[j].n = 0
  BY <1>1
<1>5. ASSUME NEW j \in 1..Len(y), NEW x \in 1..Len(tx'[c]) PROVE tx'[c][x].no < y[j].no
  <2>1. PICK i \in 2..Len(w) : i \in 1..Len(w) /\ 1 < i /\ y[j] = w[i]
    <3>1. j + 1 \in 2..Len(w) /\ y[j] = w[j + 1]
      BY <1>1
    <3>2. \A i \in 2..Len(w) : i \in 1..Len(w) /\ 1 < i
      OBVIOUS
    <3> QED
      BY <3>1, <3>2
  <2>2. 1 \in 1..Len(w) /\ w[i].n = 0
    BY <2>1
  <2>3. w[1].no < w[i].no
    BY <2>1, <2>2 DEF VectorsOK
  <2>4. CASE x \in 1..Len(tx[c]) /\ tx'[c][x] = tx[c][x]
    BY <2>1, <2>2, <2>4 DEF VectorsOK
  <2>5. CASE tx'[c][x] = u
    BY <2>1, <2>3, <2>5
  <2>6. (x \in 1..Len(tx[c]) /\ tx'[c][x] = tx[c][x]) \/ tx'[c][x] = u
    <3>1. CASE z = tx[c]
      BY <3>1
    <3>2. CASE z = Append(tx[c], u)
      <4>1. tx[c] \in Seq(Unit)
        OBVIOUS
      <4> QED
        BY <1>5, <3>2, <4>1, AppendUnits
    <3> QED
      BY <3>1, <3>2
  <2> QED
    BY <2>4, <2>5, <2>6
<1> QED
  BY <1>2, <1>3, <1>4, <1>5 DEF VectorsOK

\* The answers that wait once the first unit of the first of them is on the
\* connection.
LEMMA VectorsBegun ==
  ASSUME NEW w \in Seq(Unit), w # <<>>, NEW c \in Conns, tx \in [Conns -> Seq(Unit)], VectorsOK(w, c),
         \A j \in 2..Len(w) : w[j].n = 0, NEW u \in Unit, u.no = w[1].no, u.v = w[1].v, u.n = 1, w[1].n = 0, NEW z,
         z = Append(tx[c], u) \/ (z = tx[c] /\ z = <<>> /\ peer[c] = "closed"),
         tx'[c] = z, rx' = rx, asked' = asked, peer' = peer, NEW y, Len(y) = Len(w), y[1] = u,
         \A j \in 2..Len(w) : y[j] = w[j]
  PROVE  VectorsOK(y, c)'
<1>1. /\ \A j \in 1..Len(y) : j \in 1..Len(w) /\ y[j].no = w[j].no /\ y[j].v = w[j].v
      /\ \A j \in 1..Len(y) : (j = 1 /\ y[j] = u) \/ (j \in 2..Len(w) /\ y[j] = w[j] /\ y[j].n = 0)
      /\ Len(w) \in Nat /\ 1 \in 1..Len(w)
  <2>1. Len(w) \in Nat /\ 1 \in 1..Len(w)
    BY NotEmpty
  <2>2. ASSUME NEW j \in 1..Len(y) PROVE j \in 1..Len(w) /\ (j = 1 \/ j \in 2..Len(w))
    BY <2>1
  <2> QED
    BY <2>1, <2>2
<1>2. \A j \in 1..Len(y) : WasRead(c, y[j].no)' /\ y[j].v \in {NULL, asked'[c][y[j].no].key}
  BY <1>1 DEF VectorsOK, WasRead
<1>3. ASSUME NEW i \in 1..Len(y), NEW j \in 1..Len(y), i < j PROVE y[i].no < y[j].no
  BY <1>1, <1>3 DEF VectorsOK
<1>4. ASSUME NEW j \in 1..Len(y), NEW x \in 1..Len(tx'[c])
      PROVE  tx'[c][x].no < y[j].no \/ (y[j].n = 1 /\ tx'[c][x].no = y[j].no)
  <2>1. z = Append(tx[c], u) /\ tx[c] \in Seq(Unit)
    BY <1>4
  <2>2. (x \in 1..Len(tx[c]) /\ tx'[c][x] = tx[c][x]) \/ tx'[c][x] = u
    BY <1>4, <2>1, AppendUnits
  <2>3. CASE x \in 1..Len(tx[c]) /\ tx'[c][x] = tx[c][x]
    <3>1. j \in 1..Len(w) /\ w[j].n = 0 /\ y[j].no = w[j].no
      BY <1>1
    <3> QED
      BY <2>3, <3>1 DEF VectorsOK
  <2>4. CASE tx'[c][x] = u
    <3>1. CASE j = 1
      BY <1>1, <2>4, <3>1
    <3>2. CASE j # 1
      <4>1. j \in 1..Len(w) /\ y[j] = w[j] /\ 1 < j
        BY <1>1, <3>2
      <4>2. w[1].no < w[j].no
        BY <1>1, <4>1 DEF VectorsOK
      <4> QED
        BY <2>4, <4>1, <4>2
    <3> QED
      BY <3>1, <3>2
  <2> QED
    BY <2>2, <2>3, <2>4
<1>5. ASSUME NEW j \in 1..Len(y), y[j].n = 1, peer'[c] # "closed" PROVE tx'[c] # <<>> /\ tx'[c][Len(tx'[c])] = y[j]
  <2>1. y[j] = u
    BY <1>1, <1>5
  <2>2. z = Append(tx[c], u) /\ tx[c] \in Seq(Unit)
    BY <1>5
  <2>3. z # <<>> /\ z[Len(z)] = u
    BY <2>2, AppendUnits
  <2> QED
    BY <2>1, <2>3
<1> QED
  BY <1>2, <1>3, <1>4, <1>5 DEF VectorsOK


\* What is written next to a connection that is served comes after what is on it.
LEMMA WriteFollows ==
  ASSUME ServerInv, Own, NEW t \in Threads, NEW k \in Slots, NEW c \in Conns, Serves(t, k, c), Flow(c), peer[c] # "closed",
         \A u \in Threads : Queue(th[u], c) = {}, NEW w \in Seq(Unit), w = th[t].iov[k], w # <<>>, NEW e \in Unit, e = w[1],
         e.n = 0 \/ (e.n = 1 /\ e.v # NULL)
  PROVE  Follows(tx[c], asked[c], More(e))
<1>1. More(e).v = e.v /\ More(e).n = e.n + 1 /\ More(e).no = e.no /\ e.no \in Nat
  BY DEF More, Unit
<1>2. VectorsOK(w, c)
  BY DEF Flow, FlowVectors
<1>3. 1 \in 1..Len(w) /\ Len(w) \in Nat
  BY NotEmpty
<1>4. WasRead(c, e.no)
  BY <1>2, <1>3 DEF VectorsOK
<1>5. CASE e.n = 0
  <2>1. ASSUME tx[c] # <<>>, tx[c][Len(tx[c])].n # Size(tx[c][Len(tx[c])].v) PROVE FALSE
    <3>1. PICK u \in Threads, l \in Slots : Serves(u, l, c) /\ th[u].iov[l] # <<>> /\ th[u].iov[l][1].n = 1
      BY <2>1 DEF Flow, FlowPart
    <3>2. u = t /\ l = k
      BY <3>1, ServesUnique
    <3> QED
      BY <1>5, <3>1, <3>2
  <2>2. \A x \in 1..Len(tx[c]) : tx[c][x].no < e.no
    BY <1>2, <1>3, <1>5 DEF VectorsOK
  <2>3. ASSUME NEW m \in 1..e.no, IsLookup(asked[c], m), m # e.no PROVE \E x \in 1..Len(tx[c]) : tx[c][x].no = m
    <3>1. Alive(c)
      BY ServedAlive
    <3>2. Known(c, m)
      BY <2>3, <3>1 DEF Flow, FlowKnown, IsLookup
    <3>3. ASSUME NEW i \in 1..Len(rx[c]), rx[c][i].op = "lookup", rx[c][i].no = m PROVE FALSE
      <4>1. e.no < m
        BY <1>4, <3>3 DEF WasRead, Ahead
      <4> QED
        BY <1>1, <4>1
    <3>4. ASSUME NEW u \in Threads, NEW l \in Slots, Serves(u, l, c), NEW j \in 1..Len(th[u].iov[l]),
                 th[u].iov[l][j].no = m
          PROVE  FALSE
      <4>1. u = t /\ l = k
        BY <3>4, ServesUnique
      <4>2. j \in 1..Len(w) /\ w[j].no = m
        BY <3>4, <4>1
      <4>3. 1 < j
        BY <1>3, <2>3, <4>2
      <4>4. e.no < m
        BY <1>2, <1>3, <4>2, <4>3 DEF VectorsOK
      <4> QED
        BY <1>1, <4>4
    <3> QED
      BY <3>2, <3>3, <3>4 DEF Known
  <2>4. More(e).n = 1
    BY <1>1, <1>5
  <2> QED
    BY <1>1, <2>1, <2>2, <2>3, <2>4 DEF Follows
<1>6. CASE e.n = 1 /\ e.v # NULL
  <2>1. tx[c] # <<>> /\ tx[c][Len(tx[c])] = e
    BY <1>2, <1>3, <1>6 DEF VectorsOK
  <2>2. e = [v |-> e.v, n |-> 1, no |-> e.no]
    BY <1>6 DEF Unit
  <2>3. More(e).n = 2
    BY <1>1, <1>6
  <2> QED
    BY <1>1, <1>6, <2>1, <2>2, <2>3 DEF Follows
<1> QED
  BY <1>5, <1>6

\* A unit is written: it follows what is on the connection.
LEMMA WriteUnitFlow ==
  ASSUME ServerInv, Own, IovHeld, [Next]_vars, NEW t \in Threads, NEW r \in Thread, Steady(t, r), NEW k \in Slots,
         NEW e \in Unit, NEW d \in Conns, WritesUnit(t, r, k, e, d), rx' = rx, NEW c \in Conns, Flow(c)
  PROVE  Flow(c)' /\ IovHeld'
<1>1. ThreadsOK /\ Types
  BY DEF ServerInv
<1>2. PICK w, y : w = th[t].iov[k] /\ y = r.iov[k]
  OBVIOUS
<1>3. /\ r.batch = th[t].batch /\ r.k = th[t].k /\ th[t].batch = <<>> /\ th[t].k \in Nat
      /\ w \in Seq(Unit) /\ w # <<>> /\ e = w[1] /\ y \in Seq(Unit)
      /\ \A l \in Slots : l # k => r.iov[l] = th[t].iov[l]
      /\ \A j \in 2..Len(w) : w[j].n = 0
      /\ e.n = 0 \/ (e.n = 1 /\ e.v # NULL)
      /\ \/ y = Tail(w) /\ e.n + 1 = Size(e.v)
         \/ e.n = 0 /\ e.v # NULL /\ Len(y) = Len(w) /\ y[1] = More(e) /\ \A j \in 2..Len(w) : y[j] = w[j]
  <2>1. Written(t, r, k, e, w, y)
    BY <1>1, <1>2, VectorWritten
  <2> QED
    BY <2>1 DEF Written
<1>4. Held(t, k)
  BY <1>2, <1>3 DEF IovHeld
<1>5. Serves(t, k, d)
  <2>1. ConnOf(sockets[t][k]) = fdt[sockets[t][k]]
    BY <1>4, HeldFacts
  <2> QED
    BY <1>4, <2>1 DEF WritesUnit, Serves
<1>6. IovHeld'
  <2>1. \A l \in Slots : r.iov[l] # <<>> => Held(t, l)
    BY <1>3, <1>4 DEF IovHeld
  <2> QED
    BY <2>1, SteadyHeld
<1>7. PICK u : u = More(e)
  OBVIOUS
<1>8. u \in Unit /\ u.v = e.v /\ u.n = e.n + 1 /\ u.no = e.no /\ e.n \in Nat
  BY <1>7, MoreType DEF More, Unit
<1>9. tx \in [Conns -> Seq(Unit)] /\ asked \in [Conns -> Seq(Request)]
  BY <1>1 DEF Types
<1>10. tx' = [tx EXCEPT ![d] = IF peer[d] = "closed" THEN tx[d] ELSE Append(tx[d], u)]
  BY <1>7 DEF WritesUnit
<1>11. Queue(r, c) = Queue(th[t], c)
  BY <1>3, SameQueue
<1>12. CASE c # d
  <2>1. tx'[c] = tx[c]
    BY <1>9, <1>10, <1>12
  <2>2. ASSUME NEW l \in Slots, Serves(t, l, c) PROVE r.iov[l] = th[t].iov[l]
    <3>1. l # k
      BY <1>5, <1>12, <2>2 DEF Serves
    <3> QED
      BY <1>3, <3>1
  <2> QED
    BY <1>6, <1>11, <2>1, <2>2, SteadyFlow
<1>13. CASE c = d
  <2>1. /\ th'[t] = r /\ (\A v \in Threads : v # t => th'[v] = th[v])
        /\ (\A v \in Threads, l \in Slots : Serves(v, l, c)' <=> Serves(v, l, c))
        /\ (Connected(c)' <=> Connected(c)) /\ (Alive(c)' <=> Alive(c)) /\ peer' = peer /\ asked' = asked
    BY <1>1, SteadyFacts DEF Steady
  <2>2. PICK z : z = tx'[c]
    OBVIOUS
  <2>3. \/ peer[c] = "closed" /\ z = tx[c] /\ z = <<>>
        \/ peer[c] # "closed" /\ z = Append(tx[c], u)
    <3>1. z = IF peer[c] = "closed" THEN tx[c] ELSE Append(tx[c], u)
      BY <1>9, <1>10, <1>13, <2>2
    <3>2. peer[c] = "closed" => tx[c] = <<>>
      BY DEF ServerInv, KernelOK
    <3> QED
      BY <3>1, <3>2
  <2>4. tx[c] \in Seq(Unit) /\ asked[c] \in Seq(Request)
    BY <1>9
  <2>5. \A v \in Threads : Queue(th[v], c) = {}
    <3>1. Connected(c)
      BY <1>5, <1>13, HeldFacts DEF Serves, Connected
    <3>2. ASSUME NEW v \in Threads, NEW q \in Queue(th[v], c) PROVE v = t
      <4>1. q.sid \in Slots
        BY <1>1, <3>2, QueueType DEF ThreadsOK
      <4>2. Serves(v, q.sid, c)
        BY <3>1, <3>2 DEF Flow, FlowOwn
      <4> QED
        BY <1>5, <1>13, <4>1, <4>2, ServesUnique
    <3>3. Queue(th[t], c) = {}
      BY <1>3, EmptyQueue
    <3> QED
      BY <3>2, <3>3
  <2>6. \A v \in Threads : Queue(th'[v], c) = {}
    BY <1>11, <2>1, <2>5
  <2>7. ASSUME NEW v \in Threads, NEW l \in Slots, Serves(v, l, c) PROVE v = t /\ l = k
    BY <1>5, <1>13, <2>7, ServesUnique
  <2>8. VectorsOK(w, c)
    BY <1>2, <1>5, <1>13 DEF Flow, FlowVectors
  <2>9. WasRead(c, u.no) /\ u.v \in {NULL, asked[c][u.no].key}
    <3>1. 1 \in 1..Len(w)
      BY <1>3, NotEmpty
    <3> QED
      BY <1>3, <1>8, <2>8, <3>1 DEF VectorsOK
  <2>10. FlowAnswers(c)'
    <3>1. Answers(tx[c], asked[c])
      BY DEF Flow, FlowAnswers
    <3>2. ASSUME peer[c] # "closed" PROVE Answers(Append(tx[c], u), asked[c])
      <4>1. Follows(tx[c], asked[c], u)
        BY <1>2, <1>3, <1>5, <1>7, <1>13, <2>5, <3>2, WriteFollows
      <4>2. IsLookup(asked[c], u.no)
        BY <2>9 DEF WasRead
      <4> QED
        BY <1>8, <2>4, <2>9, <3>1, <4>1, <4>2, AnswersAppend
    <3>3. Answers(z, asked[c])
      BY <2>3, <3>1, <3>2
    <3> QED
      BY <2>1, <2>2, <3>3 DEF FlowAnswers
  <2>11. FlowRead(c)'
    <3>1. \A n : WasRead(c, n) => WasRead(c, n)'
      BY <2>1 DEF WasRead
    <3>2. ASSUME NEW x \in 1..Len(z) PROVE WasRead(c, z[x].no)
      <4>1. CASE z = tx[c]
        BY <3>2, <4>1 DEF Flow, FlowRead
      <4>2. CASE z = Append(tx[c], u)
        <5>1. z[x] = u \/ (x \in 1..Len(tx[c]) /\ z[x] = tx[c][x])
          BY <1>8, <2>4, <3>2, <4>2, AppendUnits
        <5> QED
          BY <2>9, <5>1 DEF Flow, FlowRead
      <4> QED
        BY <2>3, <4>1, <4>2
    <3> QED
      BY <2>2, <3>1, <3>2 DEF FlowRead
  <2>12. FlowQueue(c)' /\ FlowOrder(c)' /\ FlowOwn(c)'
    BY <2>6 DEF FlowQueue, FlowOrder, FlowOwn
  <2>13. FlowVectors(c)'
    <3>1. VectorsOK(y, c)'
      <4>1. CASE y = Tail(w)
        BY <1>3, <1>8, <1>9, <2>1, <2>2, <2>3, <2>8, <4>1, VectorsTail
      <4>2. CASE e.n = 0 /\ Len(y) = Len(w) /\ y[1] = More(e) /\ \A j \in 2..Len(w) : y[j] = w[j]
        <5>1. u.no = w[1].no /\ u.v = w[1].v /\ u.n = 1 /\ w[1].n = 0 /\ y[1] = u
          BY <1>3, <1>7, <1>8, <4>2
        <5>2. z = Append(tx[c], u) \/ (z = tx[c] /\ z = <<>> /\ peer[c] = "closed")
          BY <2>3
        <5>3. tx'[c] = z /\ peer' = peer /\ asked' = asked /\ u \in Unit
          BY <1>8, <2>1, <2>2
        <5>4. w \in Seq(Unit) /\ w # <<>> /\ \A j \in 2..Len(w) : w[j].n = 0
          BY <1>3
        <5> QED
          BY <1>9, <2>8, <4>2, <5>1, <5>2, <5>3, <5>4, VectorsBegun
      <4> QED
        BY <1>3, <4>1, <4>2
    <3>2. ASSUME NEW v \in Threads, NEW l \in Slots, Serves(v, l, c)' PROVE VectorsOK(th[v].iov[l], c)'
      <4>1. v = t /\ l = k
        BY <2>1, <2>7, <3>2
      <4>2. th'[v].iov[l] = y
        BY <1>2, <2>1, <4>1
      <4> QED
        BY <3>1, <4>2
    <3> QED
      BY <3>2 DEF FlowVectors
  <2>14. FlowPart(c)'
    <3>1. ASSUME z # <<>>, z[Len(z)].n # Size(z[Len(z)].v) PROVE y # <<>> /\ y[1].n = 1
      <4>1. z = Append(tx[c], u)
        BY <2>3, <3>1
      <4>2. z[Len(z)] = u
        BY <1>8, <2>4, <4>1, AppendUnits
      <4>3. e.n = 0 /\ Len(y) = Len(w) /\ y[1] = u
        BY <1>3, <1>7, <1>8, <3>1, <4>2
      <4>4. Len(w) >= 1
        BY <1>3, NotEmpty
      <4> QED
        BY <1>3, <1>8, <4>3, <4>4
    <3>2. Serves(t, k, c)' /\ th'[t].iov[k] = y
      BY <1>2, <1>5, <1>13, <2>1
    <3> QED
      BY <2>2, <3>1, <3>2 DEF FlowPart
  <2>15. FlowKnown(c)'
    <3>1. ASSUME Alive(c), NEW m, Known(c, m) PROVE Known(c, m)'
      <4>1. z = Append(tx[c], u)
        BY <2>3, <3>1 DEF Alive, Up
      <4>2. /\ Len(tx[c]) + 1 \in 1..Len(z) /\ z[Len(tx[c]) + 1] = u
            /\ \A x \in 1..Len(tx[c]) : z[x] = tx[c][x] /\ x \in 1..Len(z)
        BY <1>8, <2>4, <4>1, AppendUnits
      <4>3. CASE \E x \in 1..Len(tx[c]) : tx[c][x].no = m
        BY <2>2, <4>2, <4>3 DEF Known
      <4>4. CASE \E i \in 1..Len(rx[c]) : rx[c][i].op = "lookup" /\ rx[c][i].no = m
        BY <4>4 DEF Known
      <4>5. ASSUME NEW v \in Threads, NEW l \in Slots, Serves(v, l, c), NEW j \in 1..Len(th[v].iov[l]),
                   th[v].iov[l][j].no = m
            PROVE  Known(c, m)'
        <5>1. v = t /\ l = k
          BY <2>7, <4>5
        <5>2. j \in 1..Len(w) /\ w[j].no = m
          BY <1>2, <4>5, <5>1
        <5>3. CASE j = 1
          <6>1. u.no = m
            BY <1>3, <1>8, <5>2, <5>3
          <6> QED
            BY <2>2, <4>2, <6>1 DEF Known
        <5>4. CASE j # 1
          <6>1. j \in 2..Len(w)
            BY <1>3, <5>2, <5>4
          <6>2. \E i \in 1..Len(y) : y[i].no = m
            <7>1. CASE y = Tail(w)
              <8>1. j - 1 \in 1..Len(y) /\ y[j - 1] = w[j]
                BY <1>3, <6>1, <7>1, TailUnits
              <8> QED
                BY <5>2, <8>1
            <7>2. CASE Len(y) = Len(w) /\ \A i \in 2..Len(w) : y[i] = w[i]
              BY <5>2, <6>1, <7>2
            <7> QED
              BY <1>3, <7>1, <7>2
          <6>3. Serves(t, k, c)' /\ th'[t].iov[k] = y
            BY <1>2, <1>5, <1>13, <2>1
          <6> QED
            BY <6>2, <6>3 DEF Known
        <5> QED
          BY <5>3, <5>4
      <4> QED
        BY <2>5, <3>1, <4>3, <4>4, <4>5 DEF Known
    <3> QED
      BY <2>1, <3>1 DEF Flow, FlowKnown
  <2> QED
    BY <1>6, <2>10, <2>11, <2>12, <2>13, <2>14, <2>15 DEF Flow
<1> QED
  BY <1>12, <1>13


-----------------------------------------------------------------------------
(* AnswersRight: the invariant, and what follows from it. *)

\* The steps of clientgo but fclose keep the answers right.
LEMMA ThreadFlow ==
  ASSUME ServerInv, Own, FramedOK, RxTraced, BatchTraced, IovHeld, \A x \in Conns : Flow(x), ~mixed', [Next]_vars,
         NEW t \in Threads, clientgo(t), ~Fclose(t), NEW c \in Conns
  PROVE  Flow(c)' /\ IovHeld'
<1>1. PICK r \in Thread : Steps(t, r)
  BY ThreadCases
<1>2. Steady(t, r) /\ Flow(c)
  BY <1>1, ThreadSteady DEF Steps
<1>3. ASSUME Idles(t, r) PROVE Flow(c)' /\ IovHeld'
  BY <1>2, <1>3, IdleFlow
<1>4. ASSUME NEW d \in Conns, Reads(t, d, r), tx' = tx PROVE Flow(c)' /\ IovHeld'
  BY <1>2, <1>4, ReadFlow
<1>5. ASSUME NEW iov \in [Slots -> Seq(Unit)], HandlesLookup(t, r, iov) PROVE Flow(c)' /\ IovHeld'
  BY <1>2, <1>5, LookupFlow
<1>6. ASSUME Handles(t, r, th[t].iov), Current(t).op = "insert", UNCHANGED <<rx, tx>> PROVE Flow(c)' /\ IovHeld'
  BY <1>2, <1>6, InsertFlow
<1>7. ASSUME NEW k \in Slots, NEW e \in Unit, NEW d \in Conns, WritesUnit(t, r, k, e, d), rx' = rx
      PROVE  Flow(c)' /\ IovHeld'
  BY <1>2, <1>7, WriteUnitFlow
<1>8. ASSUME NEW k \in Slots, WritesNothing(t, r, k), UNCHANGED <<rx, tx>> PROVE Flow(c)' /\ IovHeld'
  BY <1>2, <1>8, WriteErrorFlow
<1>9. ASSUME WritesNext(t, r), UNCHANGED <<rx, tx>> PROVE Flow(c)' /\ IovHeld'
  BY <1>2, <1>9, WriteNextFlow
<1> QED
  BY <1>1, <1>3, <1>4, <1>5, <1>6, <1>7, <1>8, <1>9 DEF Steps

\* Answers go where they belong, while no descriptor has been confused with
\* another.
AnswerInv == mixed \/ (Own /\ \A c \in Conns : IovHeld /\ Flow(c))

\* Every step keeps the answers right, or records that two descriptors are
\* confused.
LEMMA AnswerStep ==
  ASSUME ServerInv, RxTraced, BatchTraced, KeptInv, AnswerInv, [Next]_vars
  PROVE  AnswerInv'
<1> SUFFICES ASSUME ~mixed' PROVE Own' /\ \A c \in Conns : IovHeld' /\ Flow(c)'
  BY DEF AnswerInv
<1>1. ~mixed
  BY MixedStays
<1>2. Own /\ FramedOK /\ \A c \in Conns : IovHeld /\ Flow(c)
  BY <1>1 DEF AnswerInv, KeptInv
<1>3. Own'
  BY <1>2, OwnStep DEF OwnInv
<1>4. ASSUME IovHeld, th' = th, sockets' = sockets PROVE IovHeld'
  BY <1>4 DEF IovHeld, Held
<1>5. ASSUME NEW c \in Conns PROVE Flow(c)' /\ IovHeld'
  <2>1. IovHeld /\ Flow(c)
    BY <1>2
  <2>2. ASSUME NEW d \in Conns, client_hashserver2(d) PROVE Flow(c)' /\ IovHeld'
    <3>1. th' = th /\ sockets' = sockets
      BY <2>2 DEF client_hashserver2, Continue, openconn, SendPart, sendquery_, SendValue, Sent, readvalue,
           BatchDone, ReadFails, closeconn, cdata
    <3> QED
      BY <1>2, <1>4, <2>1, <2>2, <3>1, ClientFlow
  <2>3. ASSUME tcpserver PROVE Flow(c)' /\ IovHeld'
    BY <1>2, <2>1, <2>3, AcceptorFlow
  <2>4. ASSUME NEW t \in Threads, Fclose(t) PROVE Flow(c)' /\ IovHeld'
    BY <1>2, <2>1, <2>4, FcloseFlow
  <2>5. ASSUME NEW t \in Threads, clientgo(t), ~Fclose(t) PROVE Flow(c)' /\ IovHeld'
    BY <1>2, <2>1, <2>5, ThreadFlow
  <2>6. ASSUME UNCHANGED vars PROVE Flow(c)' /\ IovHeld'
    <3>1. /\ th' = th /\ sockets' = sockets /\ fdt' = fdt /\ rx' = rx /\ tx' = tx /\ peer' = peer /\ asked' = asked
          /\ backlog' = backlog
      BY <2>6 DEF vars, cdata, kernel, peers
    <3>2. StillServed(c)
      BY <3>1, UnchangedHeld, HeldSameServes, StillServedSame
    <3>3. Still(c)
      BY <3>1 DEF Still, Alive, Connected
    <3> QED
      BY <1>4, <2>1, <3>1, <3>2, <3>3, StillFlow DEF ServerInv
  <2> QED
    BY <2>2, <2>3, <2>4, <2>5, <2>6 DEF Next, Spin
<1> QED
  BY <1>3, <1>5

\* The invariant that AnswersRight follows from.
LEMMA AnswerInvariant == Spec => []AnswerInv
<1>1. Init => AnswerInv
  <2> SUFFICES ASSUME Init PROVE AnswerInv
    OBVIOUS
  <2>1. Own
    BY DEF Init, Own, Held, Opening
  <2>2. \A t \in Threads, k \in Slots : th[t].iov[k] = <<>> /\ ~Held(t, k)
    BY DEF Init, Held
  <2>3. ASSUME NEW c \in Conns PROVE Flow(c)
    <3>1. tx[c] = <<>> /\ asked[c] = <<>>
      BY DEF Init
    <3>2. ~Connected(c)
      BY ConstantFacts DEF Init, Connected
    <3>3. \A t \in Threads, k \in Slots : ~Serves(t, k, c)
      BY <2>2 DEF Serves
    <3> QED
      BY <3>1, <3>2, <3>3 DEF Flow, FlowAnswers, Answers, FlowRead, FlowQueue, FlowVectors, FlowOrder, FlowPart, FlowKnown,
         FlowOwn
  <2> QED
    BY <2>1, <2>2, <2>3 DEF AnswerInv, IovHeld
<1>2. ServerInv /\ RxTraced /\ BatchTraced /\ KeptInv /\ AnswerInv /\ [Next]_vars => AnswerInv'
  BY AnswerStep
<1> QED
  BY <1>1, <1>2, ServerInvariant, RxInvariant, BatchInvariant, KeptInvariant, PTL DEF Spec

\* The units that begin an answer, up to the one at j, are as many as the lookups
\* up to the one it answers.
LEMMA AnswersCount ==
  ASSUME NEW w \in Seq(Unit), NEW a \in Seq(Request), Answers(w, a), NEW j \in 1..Len(w), w[j].n = 1, NEW L,
         L = {i \in DOMAIN a : a[i].op = "lookup"}
  PROVE  Cardinality({m \in L : m <= w[j].no}) = Cardinality({m \in 1..j : w[m].n = 1})
<1> DEFINE S == {m \in 1..j : w[m].n = 1}
           T == {m \in L : m <= w[j].no}
           f == [m \in S |-> w[m].no]
<1>1. j \in Nat /\ \A m \in 1..j : m \in 1..Len(w)
  OBVIOUS
<1>2. \A x \in 1..Len(w) : w[x] \in Unit
  OBVIOUS
<1>3. \A x \in 1..Len(w) : w[x].no \in Nat
  BY <1>2 DEF Unit
<1>4. \A i : i \in L <=> IsLookup(a, i)
  BY DEF IsLookup
<1>5. ASSUME NEW m \in S PROVE w[m].no \in T
  <2>1. m \in 1..Len(w) /\ (m = j \/ m < j)
    BY <1>1
  <2>2. IsLookup(a, w[m].no)
    BY <2>1 DEF Answers
  <2>3. w[m].no <= w[j].no
    <3>1. CASE m = j
      BY <1>3, <3>1
    <3>2. CASE m < j
      BY <2>1, <3>2 DEF Answers
    <3> QED
      BY <2>1, <3>1, <3>2
  <2> QED
    BY <1>4, <2>2, <2>3
<1>6. f \in [S -> T]
  BY <1>5
<1>7. ASSUME NEW m \in S, NEW n \in S, f[m] = f[n] PROVE m = n
  <2>1. m \in 1..Len(w) /\ n \in 1..Len(w) /\ w[m].n = 1 /\ w[n].n = 1 /\ w[m].no = w[n].no
    BY <1>1, <1>7
  <2>2. CASE m < n
    <3>1. w[m].no < w[n].no
      BY <2>1, <2>2 DEF Answers
    <3> QED
      BY <1>3, <2>1, <3>1
  <2>3. CASE n < m
    <3>1. w[n].no < w[m].no
      BY <2>1, <2>3 DEF Answers
    <3> QED
      BY <1>3, <2>1, <3>1
  <2> QED
    BY <2>1, <2>2, <2>3
<1>8. ASSUME NEW i \in T PROVE \E m \in S : f[m] = i
  <2>1. IsLookup(a, i) /\ i <= w[j].no
    BY <1>4
  <2>2. i \in 1..w[j].no
    BY <1>3, <2>1 DEF IsLookup
  <2>3. PICK m \in 1..j : w[m].n = 1 /\ w[m].no = i
    BY <2>1, <2>2 DEF Answers
  <2> QED
    BY <2>3
<1>9. f \in Bijection(S, T)
  BY <1>6, <1>7, <1>8 DEF Bijection, Injection, Surjection, IsInjective
<1>10. IsFiniteSet(S)
  <2>1. IsFiniteSet(1..j)
    BY <1>1, FS_Interval
  <2> QED
    BY <2>1, FS_Subset
<1> QED
  BY <1>9, <1>10, FS_Bijection DEF ExistsBijection

\* write_iovs sends, on every connection, whole answers to the lookups made on it,
\* the n-th to the n-th, each with nothing or the value of the key that was
\* asked for, however many batches, threads and connections come between, as
\* long as no descriptor has been confused with another.
THEOREM AnswersInOrder == Spec => []AnswersRight
<1>1. ASSUME ServerInv, AnswerInv, ~mixed, NEW c \in Conns, NEW j \in DOMAIN tx[c]
      PROVE  IF tx[c][j].n = 1
               THEN /\ \E i \in Lookups(c) :
                         /\ tx[c][j].v \in {NULL, asked[c][i].key}
                         /\ Cardinality({m \in Lookups(c) : m <= i}) = Cardinality({m \in 1..j : tx[c][m].n = 1})
                    /\ j > 1 => tx[c][j - 1].n = Size(tx[c][j - 1].v)
               ELSE j > 1 /\ tx[c][j].n = 2 /\ tx[c][j - 1] = [tx[c][j] EXCEPT !.n = 1]
  <2>1. PICK w \in Seq(Unit), a \in Seq(Request) : w = tx[c] /\ a = asked[c]
    BY <1>1 DEF ServerInv, Types
  <2>2. Answers(w, a)
    BY <1>1, <2>1 DEF AnswerInv, Flow, FlowAnswers
  <2>3. j \in 1..Len(w) /\ w[j] \in Unit
    BY <1>1, <2>1
  <2>4. IsLookup(a, w[j].no) /\ w[j].v \in {NULL, a[w[j].no].key} /\ Whole(w, j)
    BY <2>2, <2>3 DEF Answers
  <2>5. Lookups(c) = {i \in DOMAIN a : a[i].op = "lookup"}
    BY <2>1 DEF Lookups
  <2>6. CASE w[j].n = 1
    <3>1. Cardinality({m \in Lookups(c) : m <= w[j].no}) = Cardinality({m \in 1..j : w[m].n = 1})
      BY <2>2, <2>3, <2>5, <2>6, AnswersCount
    <3>2. w[j].no \in Lookups(c)
      BY <2>4, <2>5 DEF IsLookup
    <3>3. j > 1 => w[j - 1].n = Size(w[j - 1].v)
      BY <2>4, <2>6 DEF Whole
    <3> QED
      BY <2>1, <2>4, <2>6, <3>1, <3>2, <3>3
  <2>7. CASE w[j].n # 1
    <3>1. w[j].n = 2 /\ j > 1 /\ w[j - 1] = [v |-> w[j].v, n |-> 1, no |-> w[j].no]
      BY <2>4, <2>7 DEF Whole
    <3>2. [w[j] EXCEPT !.n = 1] = [v |-> w[j].v, n |-> 1, no |-> w[j].no]
      BY <2>3 DEF Unit
    <3> QED
      BY <2>1, <2>7, <3>1, <3>2
  <2> QED
    BY <2>6, <2>7
<1>2. ServerInv /\ AnswerInv => AnswersRight
  BY <1>1 DEF AnswersRight, AnswersToAsker
<1> QED
  BY <1>2, ServerInvariant, AnswerInvariant, PTL
=============================================================================
