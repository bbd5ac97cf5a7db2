---------------------------- MODULE MpHashTable ----------------------------
(***************************************************************************)
(* The life of elements in the message-passing hash table: one partition,  *)
(* its server (hash_table_server) and its clients.  Elements are shared    *)
(* memory: a client fills the value of an element it inserted and reads    *)
(* values it looked up while the server evicts, replaces and frees.  Only  *)
(* the server touches reference counts; clients ask it to with messages.   *)
(*                                                                         *)
(* Messages and answers are FIFO between one client and the server, which  *)
(* ClientServer shows of the pipeline; they may be delayed at will.        *)
(* Partitions share nothing, so one stands for all.                        *)
(***************************************************************************)
EXTENDS PartitionOps

CONSTANTS
  Clients, Keys, Sizes,
  MaxRequests   \* bound: requests a client makes

ASSUME ValuesAssumption == Keys \subseteq Nat /\ Sizes \subseteq Nat

VARIABLES
  p,            \* struct partition
  el,           \* key, size, ref_count, DATA_READY_MASK of every element
  live,         \* elements that are allocated
  data,         \* the key whose value is in the element, NULL while unwritten
  pc, ins,      \* server: "idle" or in hash_insert, its client, key and size
  in,           \* messages on their way to the server, per client
  out,          \* answers on their way back, per client
  held,         \* values a client got from lookups: [e, key], with counts
  filling,      \* values a client got from inserts and has not marked ready
  asked         \* number of requests made, per client

vars == <<p, el, live, data, pc, ins, in, out, held, filling, asked>>
clientvars == <<in, held, filling, asked>>

NoElem == [key |-> 0, size |-> 0, ref |-> 0, mask |-> FALSE]
NoInsert == [c |-> NULL, key |-> 0, size |-> 0]
Handles == [e : Elems, key : Keys]

Init ==
  /\ p = EmptyPartition /\ el = [e \in Elems |-> NoElem]
  /\ live = {} /\ data = [e \in Elems |-> NULL]
  /\ pc = "idle" /\ ins = NoInsert
  /\ in = [c \in Clients |-> <<>>] /\ out = [c \in Clients |-> <<>>]
  /\ held = [c \in Clients |-> [h \in Handles |-> 0]]
  /\ filling = [c \in Clients |-> {}]
  /\ asked = [c \in Clients |-> 0]

-----------------------------------------------------------------------------
(* Clients *)

Send(c, m) == in' = [in EXCEPT ![c] = Append(@, m)]

\* smp_hash_lookup, smp_hash_insert
smp_hash_request(c, m) ==
  /\ asked[c] < MaxRequests
  /\ Send(c, m) /\ asked' = [asked EXCEPT ![c] = @ + 1]
  /\ UNCHANGED <<p, el, live, data, pc, ins, out, held, filling>>

\* smp_get_next; a NULL value leaves nothing to release.
smp_get_next(c) ==
  /\ out[c] # <<>>
  /\ LET a == Head(out[c])
         h == [e |-> a.e, key |-> a.key]
     IN CASE a.e = NULL -> UNCHANGED <<held, filling>>
          [] a.e # NULL /\ a.op = "lookup" ->
               held' = [held EXCEPT ![c][h] = @ + 1] /\ UNCHANGED filling
          [] OTHER -> filling' = [filling EXCEPT ![c] = @ \cup {h}] /\ UNCHANGED held
  /\ out' = [out EXCEPT ![c] = Tail(@)]
  /\ UNCHANGED <<p, el, live, data, pc, ins, in, asked>>

\* The client writes the value it is inserting.
Fill(c, h) ==
  /\ h \in filling[c] /\ data[h.e] # h.key
  /\ data' = [data EXCEPT ![h.e] = h.key]
  /\ UNCHANGED <<p, el, live, pc, ins, out, clientvars>>

\* mp_mark_ready, once the value is written.
mp_mark_ready(c, h) ==
  /\ h \in filling[c] /\ data[h.e] = h.key
  /\ Send(c, [op |-> "release", e |-> h.e])
  /\ filling' = [filling EXCEPT ![c] = @ \ {h}]
  /\ UNCHANGED <<p, el, live, data, pc, ins, out, held, asked>>

mp_release_value(c, h) ==
  /\ held[c][h] > 0
  /\ Send(c, [op |-> "release", e |-> h.e])
  /\ held' = [held EXCEPT ![c][h] = @ - 1]
  /\ UNCHANGED <<p, el, live, data, pc, ins, out, filling, asked>>

-----------------------------------------------------------------------------
(* The server *)

is_value_ready(e) == ~el[e].mask

\* Mutant: the bit that hides an element is not cleared.
ReleasedKeepMask(e) == [el[e] EXCEPT !.ref = @ - 1]

\* The new value of *e in mp_release_value_.
Released(e) == [el[e] EXCEPT !.mask = FALSE, !.ref = @ - 1]

\* Mutant: an element that leaves the table is freed although clients use it.
mp_release_value_now(e) ==
  /\ live' = live \ {e}
  /\ el' = [el EXCEPT ![e] = NoElem] /\ data' = [data EXCEPT ![e] = NULL]

\* The element is freed when the last reference goes.
mp_release_value_(e) ==
  IF Released(e).ref = 0 /\ ~Released(e).mask
    THEN /\ live' = live \ {e}
         /\ el' = [el EXCEPT ![e] = NoElem] /\ data' = [data EXCEPT ![e] = NULL]
    ELSE /\ el' = [el EXCEPT ![e] = Released(e)]
         /\ UNCHANGED <<live, data>>

Receive(c, op) ==
  /\ pc = "idle" /\ in[c] # <<>> /\ Head(in[c]).op = op
  /\ in' = [in EXCEPT ![c] = Tail(@)]

Answer(c, op, k, e) == out' = [out EXCEPT ![c] = Append(@, [op |-> op, key |-> k, e |-> e])]

\* Mutant: elements whose value is not written yet are found too.
ServeLookupUnready(c) ==
  /\ Receive(c, "lookup")
  /\ LET k == Head(in[c]).key
         e == Find(p, el, k)
     IN /\ p' = Touch(p, e)
        /\ IF e # NULL
             THEN el' = [el EXCEPT ![e].ref = @ + 1] /\ Answer(c, "lookup", k, e)
             ELSE UNCHANGED el /\ Answer(c, "lookup", k, NULL)
  /\ UNCHANGED <<live, data, pc, ins, held, filling, asked>>

\* Mutant: a lookup takes no reference.
ServeLookupNoRef(c) ==
  /\ Receive(c, "lookup")
  /\ LET k == Head(in[c]).key
         e == Find(p, el, k)
     IN /\ p' = Touch(p, e)
        /\ Answer(c, "lookup", k, IF e # NULL /\ is_value_ready(e) THEN e ELSE NULL)
  /\ UNCHANGED <<el, live, data, pc, ins, held, filling, asked>>

\* HASHOP_LOOKUP
ServeLookup(c) ==
  /\ Receive(c, "lookup")
  /\ LET k == Head(in[c]).key
         e == Find(p, el, k)
     IN /\ p' = Touch(p, e)
        /\ IF e # NULL /\ is_value_ready(e)
             THEN el' = [el EXCEPT ![e].ref = @ + 1] /\ Answer(c, "lookup", k, e)
             ELSE UNCHANGED el /\ Answer(c, "lookup", k, NULL)
  /\ UNCHANGED <<live, data, pc, ins, held, filling, asked>>

\* HASHOP_INSERT: hash_insert up to its loop.
ServeInsert(c) ==
  /\ Receive(c, "insert")
  /\ LET m == Head(in[c])
         e == Find(p, el, m.key)
         q == Touch(p, e)
         r == IF e # NULL THEN hash_remove(q, el, e) ELSE q
     IN /\ IF e # NULL THEN mp_release_value_(e) ELSE UNCHANGED <<el, live, data>>
        /\ p' = [r EXCEPT !.size = @ + elem_size(m.size)]
        /\ ins' = [c |-> c, key |-> m.key, size |-> elem_size(m.size)]
  /\ pc' = "evict"
  /\ UNCHANGED <<out, held, filling, asked>>

\* memalign finds no memory: clients still hold what was evicted.
NoMemory == live = Elems

\* One turn of the loop of hash_insert that evicts, or fails its assertion.
Evict ==
  /\ pc = "evict" /\ (p.size > max_size \/ NoMemory)
  /\ \/ /\ p.size > ins.size
        /\ \E l \in Victims(p) : p' = hash_remove(p, el, l) /\ mp_release_value_(l)
        /\ UNCHANGED pc
     \/ /\ ~(p.size > ins.size)
        /\ pc' = "abort" /\ UNCHANGED <<p, el, live, data>>
  /\ UNCHANGED <<ins, out, clientvars>>

\* Mutant: the inserting client has no reference of its own.
InsertLinkOneRef ==
  /\ pc = "evict" /\ p.size <= max_size
  /\ \E e \in Elems \ live :
       /\ live' = live \cup {e}
       /\ el' = [el EXCEPT ![e] = [key |-> ins.key, size |-> ins.size, ref |-> 1, mask |-> TRUE]]
       /\ p' = Link(p, e, ins.key)
       /\ Answer(ins.c, "insert", ins.key, e)
  /\ pc' = "idle" /\ ins' = NoInsert
  /\ UNCHANGED <<data, clientvars>>

\* The end of hash_insert, and ref_count = DATA_READY_MASK | 2.
InsertLink ==
  /\ pc = "evict" /\ p.size <= max_size
  /\ \E e \in Elems \ live :
       /\ live' = live \cup {e}
       /\ el' = [el EXCEPT ![e] = [key |-> ins.key, size |-> ins.size, ref |-> 2, mask |-> TRUE]]
       /\ p' = Link(p, e, ins.key)
       /\ Answer(ins.c, "insert", ins.key, e)
  /\ pc' = "idle" /\ ins' = NoInsert
  /\ UNCHANGED <<data, clientvars>>

\* HASHOP_RELEASE: a value released or marked ready.
ServeRelease(c) ==
  /\ Receive(c, "release")
  /\ mp_release_value_(Head(in[c]).e)
  /\ UNCHANGED <<p, pc, ins, out, held, filling, asked>>

-----------------------------------------------------------------------------
Request(c) ==
  \/ \E k \in Keys : smp_hash_request(c, [op |-> "lookup", key |-> k])
  \/ \E k \in Keys, sz \in Sizes : smp_hash_request(c, [op |-> "insert", key |-> k, size |-> sz])

\* What a client does with the values it has: it takes its answers, writes
\* and marks ready what it inserted, and releases what it looked up.
Handle(c) ==
  \/ smp_get_next(c)
  \/ \E h \in filling[c] : Fill(c, h) \/ mp_mark_ready(c, h)
  \/ \E h \in Handles : mp_release_value(c, h)

Server ==
  \/ \E c \in Clients : ServeLookup(c) \/ ServeInsert(c) \/ ServeRelease(c)
  \/ Evict \/ InsertLink

\* No client has anything, and nothing is on its way.
Quiet ==
  /\ pc = "idle"
  /\ \A c \in Clients : /\ in[c] = <<>> /\ out[c] = <<>> /\ filling[c] = {}
                        /\ \A h \in Handles : held[c][h] = 0

\* destroy_hash_table: every element of the table is given to
\* atomic_release_value_, which frees it when the whole word becomes 0.
destroy_hash_table ==
  /\ Quiet
  /\ live' = live \ {e \in InTable(p) : el[e].ref = 1 /\ ~el[e].mask}
  /\ p' = EmptyPartition /\ pc' = "destroyed"
  /\ UNCHANGED <<el, data, ins, out, clientvars>>

\* The assertion in hash_insert has stopped the process, or the table is gone.
Stopped == pc \in {"abort", "destroyed"} /\ UNCHANGED vars

Next ==
  \/ /\ pc \notin {"abort", "destroyed"}
     /\ \E c \in Clients : Request(c) \/ Handle(c)
  \/ Server \/ destroy_hash_table \/ Stopped

Spec == Init /\ [][Next]_vars

\* The server runs for ever and clients release what they get; they need not
\* make requests.
FairSpec == /\ Spec /\ WF_vars(Server)
            /\ \A c \in Clients : WF_vars(pc # "abort" /\ pc # "destroyed" /\ Handle(c))

-----------------------------------------------------------------------------
\* The partition's size and every ref_count stay natural numbers: hash_remove
\* and mp_release_value_ never take them below 0.
TypeOK ==
  /\ live \subseteq Elems /\ p.size \in Nat
  /\ \A e \in Elems : el[e].ref \in Nat /\ el[e].mask \in BOOLEAN
  /\ pc \in {"idle", "evict", "abort", "destroyed"}

Bool(b) == IF b THEN 1 ELSE 0

\* The places of a message of M in the clients' queues s.
Places(s, M) == UNION {{c} \X {i \in DOMAIN s[c] : s[c][i] \in M} : c \in Clients}

\* The references to e: values clients hold or are filling, answers they have
\* yet to take, releases on their way.
HeldRefs(e) == UNION {{x} \X (1..held[x[1]][x[2]]) : x \in Clients \X [e : {e}, key : Keys]}
FillRefs(e) == UNION {{c} \X (filling[c] \cap [e : {e}, key : Keys]) : c \in Clients}
AnswerRefs(e) == Places(out, [op : {"lookup", "insert"}, key : Keys, e : {e}])
ReleaseRefs(e) == Places(in, [op : {"release"}, e : {e}])

Refs(e) == Bool(e \in InTable(p)) + Cardinality(HeldRefs(e)) + Cardinality(FillRefs(e))
             + Cardinality(AnswerRefs(e)) + Cardinality(ReleaseRefs(e))

\* A reference count is exactly the number of references: the table's, and
\* those of all clients, wherever they are.  An element without references is
\* not allocated, so nothing is freed early, twice, or never.
RefCountExact ==
  pc # "destroyed" =>
    \A e \in Elems : Refs(e) = el[e].ref /\ (e \in live <=> Refs(e) > 0)

\* An element a client holds or fills keeps its memory and its key until the
\* client lets go, whatever is evicted or replaced meanwhile.
HeldAlive ==
  \A c \in Clients, h \in Handles :
    held[c][h] > 0 \/ h \in filling[c] => h.e \in live /\ el[h.e].key = h.key

\* A lookup returns only values that are completely written, and they stay so
\* while the client holds them.
HeldWritten ==
  \A c \in Clients, h \in Handles : held[c][h] > 0 => data[h.e] = h.key

\* When every value has been released, destroying the table frees everything.
DestroyFreesAll == pc = "destroyed" => live = {}

\* Every element that leaves the table is freed in the end.
EvictedFreed ==
  \A e \in Elems : e \in live \ InTable(p) ~> e \notin live \/ pc = "abort"
=============================================================================
