----------------------------- MODULE HashServer -----------------------------
(***************************************************************************)
(* The key/value server hashserver2.c and the TCP clients that use it      *)
(* through hashclient.c.  An acceptor gives every connection to a client   *)
(* thread; a client thread gathers requests from its sockets into a batch, *)
(* performs the batch on the hash table, and writes the values it looked   *)
(* up back to the sockets, releasing each value once it is written.        *)
(*                                                                         *)
(* The kernel is part of the model: descriptors are small numbers that are *)
(* used again as soon as they are free, and a socket's slot, the stream on *)
(* it and the queries of a batch know a connection by its descriptor only. *)
(* The hash table is the cache MpHashTable and LockingHashTable describe:  *)
(* a lookup returns NULL or a pinned value that was marked ready.  The     *)
(* value of a key is represented by the key.                               *)
(***************************************************************************)
EXTENDS Integers, Sequences, FiniteSets, SequencesExt, FiniteSetsExt

CONSTANTS
  nclients,            \* client threads
  MAX_SOCKETS,         \* per client thread
  batch_size,
  MAX_VALUE_SIZE, VALUE_BUFFER_SIZE,   \* values have size 1, or 0 ("insert0")
  Conns,               \* connections TCP clients may make
  Keys, NULL,
  Requests,            \* requests the TCP clients make, by connection: [op, key]
  MaxRequests,         \* bound: requests made in all
  SOCKBUF              \* units of answers a connection buffers

ASSUME ServerAssumption ==
  /\ nclients \in Nat \ {0} /\ MAX_SOCKETS \in Nat \ {0} /\ batch_size \in Nat \ {0}
  /\ MAX_VALUE_SIZE \in Nat \ {0} /\ VALUE_BUFFER_SIZE = 2 * MAX_VALUE_SIZE
  /\ Requests \in [Conns -> SUBSET [op : {"lookup", "insert", "insert0", "bad"}, key : Keys]]
  /\ NULL \notin Keys \cup Conns /\ SOCKBUF \in Nat \ {0} /\ IsFiniteSet(Conns)

Threads == 0..nclients - 1
Slots == 0..MAX_SOCKETS - 1
Fds == 1..Cardinality(Conns)

VARIABLES
  \* kernel: descriptors, requests and answers of connections, accept queue
  fdt, rx, tx, backlog,
  \* TCP clients: where they are, their requests, units of answers read
  peer, asked, got,
  \* tcpserver: where it is, and its s1, cid and i of open_socket
  apc, s1, cid, sid,
  \* struct client_data, and active_clients
  sockets, fin, nsockets, active_clients,
  \* client threads
  th,
  \* keys with a value in the hash table that is ready
  ready,
  \* history: a descriptor was used for another connection than it was meant for
  mixed

kernel == <<fdt, rx, tx, backlog>>
peers == <<peer, asked, got>>
acceptor == <<apc, s1, cid, sid>>
cdata == <<sockets, fin, nsockets, active_clients>>
vars == <<kernel, peers, acceptor, cdata, th, ready, mixed>>

\* run_server
Init ==
  /\ fdt = [f \in Fds |-> NULL] /\ backlog = {}
  /\ rx = [c \in Conns |-> <<>>] /\ tx = [c \in Conns |-> <<>>]
  /\ peer = [c \in Conns |-> "new"]
  /\ asked = [c \in Conns |-> <<>>] /\ got = [c \in Conns |-> 0]
  /\ apc = "accept" /\ s1 = 0 /\ cid = 0 /\ sid = 0
  /\ sockets = [t \in Threads |-> [k \in Slots |-> -1]]
  /\ fin = [t \in Threads |-> [k \in Slots |-> 0]]
  /\ nsockets = [t \in Threads |-> 0] /\ active_clients = 0
  /\ th = [t \in Threads |->
             [pc |-> "gather", i |-> 0, last |-> 0, batch |-> <<>>, key |-> NULL, values |-> <<>>,
              k |-> 0, iov |-> [s \in Slots |-> <<>>], pins |-> [v \in Keys |-> 0]]]
  /\ ready = {} /\ mixed = FALSE

-----------------------------------------------------------------------------
(* TCP clients: client_hashserver2 sends a batch of requests, reads the    *)
(* answers to its lookups, and goes on or closes the connection.           *)

One(b) == IF b THEN 1 ELSE 0

Up == {"send", "rest", "value", "read"}
Lookups(c) == {j \in DOMAIN asked[c] : asked[c][j].op = "lookup"}

\* Units of the answer v on the wire: a size, and the value if there is one.
Size(v) == IF v = NULL THEN 1 ELSE 2
AnswersRead(c) == Cardinality({j \in 1..got[c] : tx[c][j].n = Size(tx[c][j].v)})

openconn(c) ==
  /\ peer[c] = "new"
  /\ peer' = [peer EXCEPT ![c] = "send"] /\ backlog' = backlog \cup {c}
  /\ UNCHANGED <<fdt, rx, tx, asked, got, acceptor, cdata, th, ready, mixed>>

MoreRequests == SumFunction([c \in Conns |-> Len(asked[c]) + One(peer[c] = "rest")]) < MaxRequests

\* Part of a query has left, the rest has not.
SendPart(c) ==
  /\ peer[c] = "send" /\ MoreRequests
  /\ peer' = [peer EXCEPT ![c] = "rest"]
  /\ rx' = [rx EXCEPT ![c] = Append(@, [op |-> "part"])]
  /\ UNCHANGED <<fdt, tx, backlog, asked, got, acceptor, cdata, th, ready, mixed>>

\* The struct hash_query of a request; the value of an insert follows, unless
\* its size is 0.  From here to the answer the request's number on its
\* connection goes with it (no), which is history.
sendquery_(c, q) ==
  /\ peer[c] = "rest" \/ (peer[c] = "send" /\ MoreRequests)
  /\ rx' = [rx EXCEPT ![c] = Append(@, [op |-> q.op, key |-> q.key, no |-> Len(asked[c]) + 1])]
  /\ asked' = [asked EXCEPT ![c] = Append(@, q)]
  /\ peer' = [peer EXCEPT ![c] = IF q.op = "insert" THEN "value" ELSE "send"]
  /\ UNCHANGED <<fdt, tx, backlog, got, acceptor, cdata, th, ready, mixed>>

SendValue(c) ==
  /\ peer[c] = "value"
  /\ rx' = [rx EXCEPT ![c] = Append(@, [op |-> "value"])]
  /\ peer' = [peer EXCEPT ![c] = "send"]
  /\ UNCHANGED <<fdt, tx, backlog, asked, got, acceptor, cdata, th, ready, mixed>>

\* The end of sendqueries.
Sent(c) ==
  /\ peer[c] = "send" /\ asked[c] # <<>>
  /\ peer' = [peer EXCEPT ![c] = "read"]
  /\ UNCHANGED <<kernel, asked, got, acceptor, cdata, th, ready, mixed>>

\* readvalue, a unit at a time.
readvalue(c) ==
  /\ peer[c] = "read" /\ AnswersRead(c) < Cardinality(Lookups(c)) /\ got[c] < Len(tx[c])
  /\ got' = [got EXCEPT ![c] = @ + 1]
  /\ UNCHANGED <<kernel, peer, asked, acceptor, cdata, th, ready, mixed>>

\* All answers are there: the next batch.
BatchDone(c) ==
  /\ peer[c] = "read" /\ AnswersRead(c) = Cardinality(Lookups(c))
  /\ peer' = [peer EXCEPT ![c] = "send"]
  /\ UNCHANGED <<kernel, asked, got, acceptor, cdata, th, ready, mixed>>

\* The client's end is closed: nobody reads what is still on the way to it.
PeerGone(c) ==
  /\ peer' = [peer EXCEPT ![c] = "closed"]
  /\ tx' = [tx EXCEPT ![c] = <<>>] /\ got' = [got EXCEPT ![c] = 0]

\* readvalue fails when the server has closed the connection: the client
\* gives up.
ReadFails(c) ==
  /\ peer[c] = "read" /\ AnswersRead(c) < Cardinality(Lookups(c)) /\ got[c] = Len(tx[c])
  /\ c \notin backlog /\ \A f \in Fds : fdt[f] # c
  /\ PeerGone(c)
  /\ UNCHANGED <<fdt, rx, backlog, asked, acceptor, cdata, th, ready, mixed>>

\* closeconn, or a client that dies, at any point; what it sent last may be
\* lost.
closeconn(c) ==
  /\ peer[c] \in Up
  /\ PeerGone(c)
  /\ \E left \in {rx[c], <<>>} : rx' = [rx EXCEPT ![c] = left]
  /\ UNCHANGED <<fdt, backlog, asked, acceptor, cdata, th, ready, mixed>>

-----------------------------------------------------------------------------
(* tcpserver *)

\* accept: the lowest free descriptor.
Accept ==
  /\ apc = "accept"
  /\ \E c \in backlog :
       /\ backlog' = backlog \ {c}
       /\ s1' = Min({f \in Fds : fdt[f] = NULL})
       /\ fdt' = [fdt EXCEPT ![s1'] = c]
  /\ apc' = "choose" /\ cid' = 0 /\ sid' = 1
  /\ UNCHANGED <<rx, tx, peers, cdata, th, ready, mixed>>

\* The client thread with the fewest connections; they may close meanwhile.
Choose ==
  /\ apc = "choose"
  /\ IF sid < nclients
       THEN /\ cid' = IF nsockets[sid] < nsockets[cid] THEN sid ELSE cid
            /\ sid' = sid + 1 /\ UNCHANGED apc
       ELSE apc' = "wait" /\ sid' = 0 /\ UNCHANGED cid
  /\ UNCHANGED <<kernel, peers, s1, cdata, th, ready, mixed>>

WaitForRoom ==
  /\ apc = "wait" /\ nsockets[cid] < MAX_SOCKETS
  /\ apc' = "open"
  /\ UNCHANGED <<kernel, peers, s1, cid, sid, cdata, th, ready, mixed>>

\* open_socket up to the counter: slot by slot until one is unused.  When
\* fdopen fails the acceptor goes on; nobody closes the descriptor.
open_socket ==
  /\ apc = "open"
  /\ \/ /\ sockets[cid][sid] # -1
        /\ sid' = (sid + 1) % MAX_SOCKETS /\ UNCHANGED <<apc, s1, cid, fin, nsockets>>
     \/ /\ sockets[cid][sid] = -1
        /\ fin' = [fin EXCEPT ![cid][sid] = s1]
        /\ nsockets' = [nsockets EXCEPT ![cid] = @ + 1]
        /\ apc' = "set" /\ UNCHANGED <<s1, cid, sid>>
     \/ /\ sockets[cid][sid] = -1
        /\ fin' = [fin EXCEPT ![cid][sid] = 0]
        /\ apc' = "accept" /\ s1' = 0 /\ cid' = 0 /\ sid' = 0 /\ UNCHANGED nsockets
  /\ UNCHANGED <<kernel, peers, sockets, active_clients, th, ready, mixed>>

SetSocket ==
  /\ apc = "set"
  /\ sockets' = [sockets EXCEPT ![cid][sid] = s1]
  /\ apc' = "count"
  /\ UNCHANGED <<kernel, peers, s1, cid, sid, fin, nsockets, active_clients, th, ready, mixed>>

CountActive ==
  /\ apc = "count"
  /\ active_clients' = active_clients + 1
  /\ apc' = "accept" /\ s1' = 0 /\ cid' = 0 /\ sid' = 0
  /\ UNCHANGED <<kernel, peers, sockets, fin, nsockets, th, ready, mixed>>

-----------------------------------------------------------------------------
(* clientgo: gathering a batch *)

Goto(t, l) == th' = [th EXCEPT ![t].pc = l]

\* The connection a descriptor stands for.
ConnOf(f) == IF f \in Fds THEN fdt[f] ELSE NULL

\* Mutant: a stream with nothing to read is taken for a broken one.
StreamBroken(t) == LET c == ConnOf(fin[t][th[t].i]) IN IF c # NULL /\ rx[c] # <<>> THEN "object" ELSE "error"

\* What read_object finds on the stream of the current slot: a whole object,
\* nothing yet (1, retry later), or the end of the stream (2).
Stream(t) ==
  LET c == ConnOf(fin[t][th[t].i])
  IN CASE c = NULL -> "error"
       [] c # NULL /\ rx[c] # <<>> -> "object"
       [] c # NULL /\ rx[c] = <<>> /\ peer[c] = "closed" -> "error"
       [] OTHER -> "retry"

ReadObject(t) == LET c == ConnOf(fin[t][th[t].i]) IN rx' = [rx EXCEPT ![c] = Tail(@)]
NextObject(t) == Head(rx[ConnOf(fin[t][th[t].i])])

Inserts(b) == Cardinality({j \in DOMAIN b : b[j].op = "insert"})
BatchFull(t) ==
  \/ Len(th[t].batch) >= batch_size
  \/ Inserts(th[t].batch) + MAX_VALUE_SIZE >= VALUE_BUFFER_SIZE

\* Mutant: a scan goes on until the batch is full.
AdvanceOnly(t) == th' = [th EXCEPT ![t].i = (th[t].i + 1) % MAX_SOCKETS, ![t].pc = "gather"]

\* On to the next slot; a batch ends when the scan is back where it last read.
Advance(t) ==
  LET n == (th[t].i + 1) % MAX_SOCKETS
  IN th' = [th EXCEPT ![t].i = n,
                      ![t].pc = IF th[t].batch # <<>> /\ n = th[t].last THEN "do" ELSE "gather"]

\* A query from the current slot joins the batch.
AddQuery(t, op, k, no) ==
  LET i == th[t].i
  IN [th[t] EXCEPT !.pc = "gather", !.last = i,
        !.batch = Append(@, [op |-> op, key |-> k, no |-> no, sid |-> i, socket |-> sockets[t][i],
                             from |-> ConnOf(fin[t][i])])]

\* The switch on optype; the rest of a query that came in parts is waited for.
ReadQuery(t) ==
  LET q == NextObject(t)
  IN /\ th' = [th EXCEPT ![t] =
           CASE q.op = "part" -> [@ EXCEPT !.pc = "rest"]
             [] q.op = "lookup" -> AddQuery(t, "lookup", q.key, q.no)
             [] q.op = "insert" -> [@ EXCEPT !.pc = "value", !.last = th[t].i, !.key = q.key]
             [] q.op = "insert0" -> [@ EXCEPT !.pc = "spin", !.last = th[t].i]
             [] OTHER -> [@ EXCEPT !.pc = "fclose", !.last = th[t].i]]
     /\ ReadObject(t)

Gather(t) ==
  /\ th[t].pc = "gather" /\ ~BatchFull(t)
  /\ IF sockets[t][th[t].i] = -1 \/ Stream(t) = "retry"
       THEN Advance(t) /\ UNCHANGED rx
       ELSE \/ Stream(t) = "object" /\ ReadQuery(t)
            \/ Stream(t) = "error" /\ Goto(t, "fclose") /\ UNCHANGED rx
  /\ UNCHANGED <<fdt, tx, backlog, peers, acceptor, cdata, ready, mixed>>

\* read_object in the middle of a query: it does not return without the rest.
ReadRest(t) ==
  /\ th[t].pc = "rest"
  /\ \/ Stream(t) = "object" /\ ReadQuery(t)
     \/ Stream(t) = "error" /\ Goto(t, "fclose") /\ UNCHANGED rx
  /\ UNCHANGED <<fdt, tx, backlog, peers, acceptor, cdata, ready, mixed>>

\* The value of an insert is waited for.
ReadValue(t) ==
  /\ th[t].pc = "value"
  /\ \/ /\ Stream(t) = "object" /\ ReadObject(t)
        /\ th' = [th EXCEPT ![t] = [AddQuery(t, "insert", th[t].key, 0) EXCEPT !.key = NULL]]
     \/ /\ Stream(t) = "error" /\ UNCHANGED rx
        /\ th' = [th EXCEPT ![t].pc = "fclose", ![t].key = NULL]
  /\ UNCHANGED <<fdt, tx, backlog, peers, acceptor, cdata, ready, mixed>>

\* A value of size 0: fread returns 0 and sets no error, so read_object
\* returns 1 and is called again, for ever.
Spin(t) == th[t].pc = "spin" /\ UNCHANGED vars

EndGather(t) ==
  /\ th[t].pc = "gather" /\ BatchFull(t)
  /\ Goto(t, "do")
  /\ UNCHANGED <<kernel, peers, acceptor, cdata, ready, mixed>>

-----------------------------------------------------------------------------
(* close_socket, and what clientgo does around it *)

\* fclose frees the stream and closes the descriptor under it...
Fclose(t) ==
  LET f == fin[t][th[t].i]
  IN /\ th[t].pc = "fclose"
     /\ fdt' = [fdt EXCEPT ![f] = NULL]
     /\ rx' = [c \in Conns |-> IF c = fdt[f] THEN <<>> ELSE rx[c]]
     /\ fin' = [fin EXCEPT ![t][th[t].i] = 0]
     /\ Goto(t, "close")
     /\ UNCHANGED <<tx, backlog, peers, acceptor, sockets, nsockets, active_clients, ready, mixed>>

\* ... and close closes whatever has that number by now.
Close(t) ==
  LET f == sockets[t][th[t].i]
  IN /\ th[t].pc = "close"
     /\ fdt' = [fdt EXCEPT ![f] = NULL]
     /\ mixed' = (mixed \/ fdt[f] # NULL)
     /\ Goto(t, "uncount")
     /\ UNCHANGED <<rx, tx, backlog, peers, acceptor, cdata, ready>>

\* Mutant: the thread's count keeps the closed connection.
UncountSocketNot(t) ==
  /\ th[t].pc = "uncount"
  /\ Goto(t, "clear")
  /\ UNCHANGED <<kernel, peers, acceptor, cdata, ready, mixed>>

UncountSocket(t) ==
  /\ th[t].pc = "uncount"
  /\ nsockets' = [nsockets EXCEPT ![t] = @ - 1]
  /\ Goto(t, "clear")
  /\ UNCHANGED <<kernel, peers, acceptor, sockets, fin, active_clients, ready, mixed>>

\* Mutant: the slot looks like one with descriptor 0.
ClearSlotZero(t) ==
  /\ th[t].pc = "clear"
  /\ sockets' = [sockets EXCEPT ![t][th[t].i] = 0]
  /\ Goto(t, "inactive")
  /\ UNCHANGED <<kernel, peers, acceptor, fin, nsockets, active_clients, ready, mixed>>

ClearSlot(t) ==
  /\ th[t].pc = "clear"
  /\ sockets' = [sockets EXCEPT ![t][th[t].i] = -1]
  /\ Goto(t, "inactive")
  /\ UNCHANGED <<kernel, peers, acceptor, fin, nsockets, active_clients, ready, mixed>>

UncountActive(t) ==
  /\ th[t].pc = "inactive"
  /\ active_clients' = active_clients - 1
  /\ Goto(t, "closed")
  /\ UNCHANGED <<kernel, peers, acceptor, sockets, fin, nsockets, ready, mixed>>

\* The acceptor may have used the slot again.
AfterClose(t) ==
  /\ th[t].pc = "closed"
  /\ IF sockets[t][th[t].i] = -1 THEN Advance(t) ELSE Goto(t, "gather")
  /\ UNCHANGED <<kernel, peers, acceptor, cdata, ready, mixed>>

-----------------------------------------------------------------------------
(* Performing a batch *)

\* One query of doqueries.  A lookup pins the value it returns; an insert puts
\* an element in place that is not ready.
doqueries(t) ==
  LET q == th[t].batch[Len(th[t].values) + 1]
      next == IF Len(th[t].values) + 1 = Len(th[t].batch) THEN "handle" ELSE "do"
  IN /\ th[t].pc = "do"
     /\ \/ \* nothing found: the key is new, evicted or not ready
           /\ q.op = "lookup"
           /\ th' = [th EXCEPT ![t].pc = next, ![t].values = Append(@, NULL)]
           /\ UNCHANGED ready
        \/ /\ q.op = "lookup" /\ q.key \in ready
           /\ th' = [th EXCEPT ![t].pc = next, ![t].values = Append(@, q.key), ![t].pins[q.key] = @ + 1]
           /\ UNCHANGED ready
        \/ /\ q.op = "insert"
           /\ th' = [th EXCEPT ![t].pc = next, ![t].values = Append(@, q.key)]
           /\ ready' = ready \ {q.key}
     /\ UNCHANGED <<kernel, peers, acceptor, cdata, mixed>>

\* The thread's record after it has handled its k-th value.
Handled(t, iov) ==
  LET done == th[t].k + 1 = Len(th[t].batch)
  IN th' = [th EXCEPT ![t] =
        IF done THEN [@ EXCEPT !.pc = "write", !.k = 0, !.batch = <<>>, !.values = <<>>, !.iov = iov]
                ELSE [@ EXCEPT !.k = th[t].k + 1, !.iov = iov]]

\* Mutant: values are written to the slot whoever has it now.
HandleLookupUnchecked(t) ==
  LET q == th[t].batch[th[t].k + 1]
      v == th[t].values[th[t].k + 1]
  IN /\ th[t].pc = "handle" /\ q.op = "lookup"
     /\ Handled(t, [th[t].iov EXCEPT ![q.sid] = Append(@, [v |-> v, n |-> 0, no |-> q.no])])
     /\ UNCHANGED <<kernel, peers, acceptor, cdata, ready, mixed>>

\* A value looked up goes to the slot the query came from, if the slot still
\* has the descriptor it had then.
HandleLookup(t) ==
  LET q == th[t].batch[th[t].k + 1]
      v == th[t].values[th[t].k + 1]
      same == sockets[t][q.sid] = q.socket
  IN /\ th[t].pc = "handle" /\ q.op = "lookup"
     /\ Handled(t, IF same THEN [th[t].iov EXCEPT ![q.sid] = Append(@, [v |-> v, n |-> 0, no |-> q.no])]
                           ELSE th[t].iov)
     /\ mixed' = (mixed \/ (same /\ ConnOf(q.socket) # q.from))
     /\ UNCHANGED <<kernel, peers, acceptor, cdata, ready>>

\* The value is written into the element and marked ready.
HandleInsert(t) ==
  LET q == th[t].batch[th[t].k + 1]
  IN /\ th[t].pc = "handle" /\ q.op = "insert"
     /\ ready' = ready \cup {q.key}
     /\ Handled(t, th[t].iov)
     /\ UNCHANGED <<kernel, peers, acceptor, cdata, mixed>>

-----------------------------------------------------------------------------
(* write_iovs for every slot that has answers; th[t].k is the slot *)

\* release_value for values that are written or will not be.
Unpinned(pins, vs) == [v \in Keys |-> pins[v] - Cardinality({j \in DOMAIN vs : vs[j].v = v})]

\* Mutant: a value is released as soon as part of it is written.
WriteUnitEarly(t) ==
  LET k == th[t].k
      e == Head(th[t].iov[k])
      c == ConnOf(sockets[t][k])
  IN /\ c # NULL /\ Len(tx[c]) - got[c] < SOCKBUF
     /\ tx' = [tx EXCEPT ![c] = IF peer[c] = "closed" THEN @ ELSE Append(tx[c], [e EXCEPT !.n = e.n + 1])]
     /\ th' = [th EXCEPT ![t] =
           IF e.n + 1 = Size(e.v)
             THEN [@ EXCEPT !.iov[k] = Tail(@)]
             ELSE [@ EXCEPT !.iov[k][1].n = @ + 1, !.pins = Unpinned(@, <<e>>)]]

\* writev takes part of what is left, here a unit; a value all of which is
\* written is released.
WriteUnit(t) ==
  LET k == th[t].k
      e == Head(th[t].iov[k])
      c == ConnOf(sockets[t][k])
  IN /\ c # NULL /\ Len(tx[c]) - got[c] < SOCKBUF
     /\ tx' = [tx EXCEPT ![c] = IF peer[c] = "closed" THEN @ ELSE Append(tx[c], [e EXCEPT !.n = e.n + 1])]
     /\ th' = [th EXCEPT ![t] =
           IF e.n + 1 = Size(e.v)
             THEN [@ EXCEPT !.iov[k] = Tail(th[t].iov[k]), !.pins = Unpinned(th[t].pins, <<e>>)]
             ELSE [@ EXCEPT !.iov[k][1].n = e.n + 1]]

\* writev fails: all that is left is released.
WriteError(t) ==
  LET k == th[t].k
      c == ConnOf(sockets[t][k])
  IN /\ c \notin {x \in Conns : peer[x] # "closed"}
     /\ th' = [th EXCEPT ![t].iov[k] = <<>>, ![t].pins = Unpinned(@, th[t].iov[k])]
     /\ UNCHANGED tx

write_iovs(t) ==
  /\ th[t].pc = "write" /\ th[t].iov[th[t].k] # <<>>
  /\ WriteUnit(t) \/ WriteError(t)
  /\ UNCHANGED <<fdt, rx, backlog, peers, acceptor, cdata, ready, mixed>>

\* The next slot, or the next batch.
WriteNext(t) ==
  /\ th[t].pc = "write" /\ th[t].iov[th[t].k] = <<>>
  /\ th' = [th EXCEPT ![t] =
        IF th[t].k + 1 < MAX_SOCKETS THEN [@ EXCEPT !.k = th[t].k + 1]
                                     ELSE [@ EXCEPT !.k = 0, !.pc = "gather", !.i = th[t].last]]
  /\ UNCHANGED <<kernel, peers, acceptor, cdata, ready, mixed>>

-----------------------------------------------------------------------------
\* What a TCP client that does not go away goes on to do.
Continue(c) ==
  \/ SendValue(c) \/ Sent(c) \/ readvalue(c) \/ ReadFails(c)
  \/ peer[c] = "rest" /\ \E q \in Requests[c] : sendquery_(c, q)

client_hashserver2(c) ==
  \/ openconn(c) \/ SendPart(c) \/ BatchDone(c) \/ closeconn(c) \/ Continue(c)
  \/ \E q \in Requests[c] : sendquery_(c, q)

tcpserver == Accept \/ Choose \/ WaitForRoom \/ open_socket \/ SetSocket \/ CountActive

close_socket(t) ==
  Fclose(t) \/ Close(t) \/ UncountSocket(t) \/ ClearSlot(t) \/ UncountActive(t) \/ AfterClose(t)

clientgo(t) ==
  \/ Gather(t) \/ ReadRest(t) \/ ReadValue(t) \/ EndGather(t) \/ close_socket(t)
  \/ doqueries(t) \/ HandleLookup(t) \/ HandleInsert(t) \/ write_iovs(t) \/ WriteNext(t)

Next ==
  \/ \E c \in Conns : client_hashserver2(c)
  \/ tcpserver
  \/ \E t \in Threads : clientgo(t) \/ Spin(t)

Spec == Init /\ [][Next]_vars

\* Every thread of the server runs; the TCP clients need not do anything.
FairSpec ==
  /\ Spec
  /\ WF_vars(tcpserver)
  /\ \A t \in Threads : WF_vars(clientgo(t))

-----------------------------------------------------------------------------
\* A slot is -1 or a descriptor, and the acceptor, the slots and the batch of a
\* client thread stay inside their arrays (open_socket, clientgo).
TypeOK ==
  /\ fdt \in [Fds -> Conns \cup {NULL}] /\ backlog \subseteq Conns
  /\ peer \in [Conns -> Up \cup {"new", "closed"}]
  /\ apc \in {"accept", "choose", "wait", "open", "set", "count"}
  /\ s1 \in {0} \cup Fds /\ cid \in Threads /\ sid \in IF apc = "choose" THEN 1..nclients ELSE Slots
  /\ sockets \in [Threads -> [Slots -> {-1} \cup Fds]]
  /\ fin \in [Threads -> [Slots -> {0} \cup Fds]]
  /\ \A t \in Threads : Len(th[t].batch) <= batch_size /\ Len(th[t].values) <= Len(th[t].batch)

UsedSlots(t) == {k \in Slots : sockets[t][k] # -1}

\* The counters the acceptor balances and waits on agree with the slots,
\* although acceptor and client thread change them around each other
\* (open_socket, close_socket): a thread never has more connections than
\* slots, and active_clients counts the slots in use.
SocketsCounted ==
  /\ \A t \in Threads :
       /\ nsockets[t] = Cardinality(UsedSlots(t)) + One(apc = "set" /\ cid = t) - One(th[t].pc = "clear")
       /\ nsockets[t] <= MAX_SOCKETS
  /\ active_clients = Cardinality({s \in Threads \X Slots : sockets[s[1]][s[2]] # -1})
                        + Cardinality({t \in Threads : th[t].pc = "inactive"}) - One(apc = "count")

\* References a client thread has to values in the table: looked up and not
\* handled yet, or waiting to be written.
References(t, v) ==
  LET waiting == {j \in th[t].k + 1..Len(th[t].values) :
                    th[t].pc \in {"do", "handle"} /\ th[t].batch[j].op = "lookup" /\ th[t].values[j] = v}
      unwritten == UNION {{s} \X {j \in DOMAIN th[t].iov[s] : th[t].iov[s][j].v = v} : s \in Slots}
  IN Cardinality(waiting) + Cardinality(unwritten)

\* write_iovs never releases a value it has yet to write, nor one twice: the
\* element stays pinned while its bytes are on the way, short writes included.
IovPinned == \A t \in Threads, v \in Keys : th[t].pins[v] >= References(t, v)

\* "this loop must go through every returned value, even if sockets are
\* broken, otherwise there will be memory leaks" (clientgo).
NoLeak == \A t \in Threads, v \in Keys : th[t].pins[v] = References(t, v)

\* The units on a connection are whole answers to the lookups made on it, the
\* n-th to the n-th, each with nothing or the value of the key.
AnswersToAsker ==
  \A c \in Conns : \A j \in DOMAIN tx[c] :
    IF tx[c][j].n = 1
      THEN /\ \E i \in Lookups(c) :
                /\ tx[c][j].v \in {NULL, asked[c][i].key}
                /\ Cardinality({m \in Lookups(c) : m <= i}) = Cardinality({m \in 1..j : tx[c][m].n = 1})
           /\ j > 1 => tx[c][j - 1].n = Size(tx[c][j - 1].v)
      ELSE j > 1 /\ tx[c][j].n = 2 /\ tx[c][j - 1] = [tx[c][j] EXCEPT !.n = 1]

\* ... as long as no descriptor has been confused with another.
AnswersRight == ~mixed => AnswersToAsker

Connected(c) == \E f \in Fds : fdt[f] = c

\* The server drops no client that goes by the protocol: an accepted
\* connection stays until its client closes it or sends an unknown request, as
\* long as no descriptor has been confused with another.
WellBehavedKept ==
  \A c \in Conns :
    peer[c] \in Up /\ c \notin backlog /\ (\A j \in 1..Len(asked[c]) : asked[c][j].op # "bad")
      => Connected(c) \/ mixed

\* A client thread has the connection, and is not about to close another
\* one's slot that has its descriptor.
Taken(c) ==
  \E t \in Threads, k \in Slots :
    ConnOf(sockets[t][k]) = c /\ ~(th[t].i = k /\ th[t].pc \in {"close", "uncount", "clear"})

\* The thread that serves connection c can do nothing because of a client: it
\* waits in read_object for the rest of a request, spins on a value of size 0,
\* or waits in write_iovs for another client that does not read.
HeldUp(c) ==
  \E t \in Threads : \E k \in Slots :
    /\ ConnOf(sockets[t][k]) = c
    /\ \/ th[t].pc \in {"rest", "value"} /\ Stream(t) = "retry"
       \/ th[t].pc = "spin"
       \/ LET d == ConnOf(sockets[t][th[t].k])
          IN th[t].pc = "write" /\ d \notin {c, NULL} /\ Len(tx[d]) - got[d] >= SOCKBUF

\* A client that waits for answers on a connection the server has taken, and
\* that reads what arrives, gets them all, unless another client holds its
\* thread up for ever: read_object, the loop around it and write_iovs have no
\* timeout.  Nothing is asked of the other clients, but that the requests come
\* to an end (MaxRequests).
LookupsAnswered ==
  \A c \in Conns :
    WF_vars(Continue(c)) /\ []<>~HeldUp(c) =>
      (peer[c] = "read" /\ Taken(c) ~> AnswersRead(c) = Cardinality(Lookups(c)) \/ peer[c] = "closed" \/ mixed)
=============================================================================
