# SMPHashTable: TLA+ specification, model checking and proofs

SMPHashTable (CPHash) is a key/value cache for shared-memory machines.  The
table is split into partitions.  In the message-passing design each partition
belongs to one *server* thread, and *client* threads send it requests through
lock-free cache-line buffers; in the locking design client threads take the
lock of a partition.  A TCP server is built on either.

## The system

| component | state | operations | hard because |
|---|---|---|---|
| input buffer (`mpbuffers.c`) | ring of `INPB_COUNT` lines of `INPB_SIZE` words; client: `local_data`, `data_wr`; server: `data_rd` | `inpb_write`, `inpb_flush`, `inpb_read` | two threads share lines with word 0 as the only signal |
| output buffer (`mpbuffers.c`) | ring of `OUTB_SIZE` slots, `wr_index`; client: `local_rd_index`, cached `local_wr_index` | `outb_write`, `outb_read`, `outb_blocking_read` | the writer never waits; the reader's index is stale |
| client API (`smphashtable.c`) | `pending_data`: ring of values and servers, three indices, a count per server | `smp_hash_lookup`, `smp_hash_insert`, `smp_get_next`, `smp_try_get_next`, `mp_release_value`, `mp_mark_ready`, `smp_hash_doall` | answers of several servers are matched to requests by position; calls wait |
| servers (`smphashtable.c`) | per thread: `quitting`, `nclients`, client index, `localbuf` | `hash_table_server`, `start_`/`stop_hash_table_servers`, `create_hash_table_client` | clients appear and the stop arrives at any moment |
| partition (`partition.c`) | bucket chains, LRU list, `size` | `hash_lookup`, `hash_insert`, `hash_remove`, `lru`, `destroy_hash_partition` | two linkages and a byte count that must agree; eviction loop |
| element lifetime (`smphashtable.c`) | `ref_count` with `DATA_READY_MASK` | lookup, insert, release, mark ready, evict, destroy | clients use elements that the server evicts, replaces and frees |
| Anderson lock (`alock.c`) | `has_lock[]`, `next_slot` | `anderson_init`, `anderson_acquire`, `anderson_release` | several atomic steps; slots are reused |
| locking table (`smphashtable.c`) | the partitions, under locks | `locking_hash_*`, `atomic_*` | reference counts change outside the lock |
| TCP server (`hashserver2.c`) | per client thread: `sockets`, `fin`, `nsockets`, batch of queries, I/O vectors; `active_clients` | `tcpserver`, `open_socket`, `clientgo`, `doqueries`, `write_iovs`, `close_socket` | connections break and descriptors are used again while queries are under way; reads and writes are partial |
| TCP client (`hashclient.c`, `benchhashserver.c`) | a connection | `openconn`, `sendqueries`, `readvalue`, `closeconn` | may stop anywhere in a request |
| one-way buffer, statistics, counters, tests | | | |

A client puts requests into a local batch per server; a full batch, a forced
flush (`mp_mark_ready`) or the wait for an answer sends it as one line.  A
server polls one line of every client in turn, executes it on its partition
and writes the answers to the client's output ring.  A lookup returns a
pointer to a value in the partition's memory with a reference taken; the
client gives it back with a RELEASE message.  An insert returns a pointer to
an element that lookups do not find until the client has written the value
and marked it ready, which is a RELEASE message too.  In the locking design the
same operations run in the client thread, under the partition's lock, and
references are dropped with atomic instructions.  The TCP server's client
threads are clients of the table in either design: they gather a batch of
queries from their connections, perform it, and write the values that were
found straight from the table's memory, releasing each when it is written.

What makes the parts correct: batches arrive whole, once and in order; no
answer is overwritten or given to another request; every call returns; a
stop serves what was flushed; chains, LRU list and size agree and the
capacity is kept; an element lives exactly as long as somebody refers to it
and a lookup only sees complete values; the lock excludes and is fair; a TCP
client gets the answers to its own lookups, whole, in order and in the end, and
what the server looked up it gives back.

## Modules

| module | models |
|---|---|
| `BatchQueue` | abstract: a bounded FIFO of batches, what an input buffer promises |
| `InputBuffer` | `inpb_*` word by word; implements `BatchQueue` |
| `MCInputBuffer` | messages for TLC |
| `InputBufferProofs` | theorems about `InputBuffer` |
| `ClientServer` | clients (pending API and `smp_hash_doall`), servers, output rings, creating clients, stopping |
| `ClientServerProofs` | theorems about `ClientServer` |
| `PartitionOps` | operators on a partition: find, touch, remove, link, victims |
| `PartitionOpsProofs` | lemmas: what these operators do to chains, LRU list and size |
| `LruCache` | abstract: an LRU cache of bounded total size |
| `Partition` | one partition and its owner; implements `LruCache` |
| `PartitionProofs` | theorems about `Partition` |
| `MpHashTable` | life of elements between server and clients |
| `MpHashTableProofs` | theorems about `MpHashTable` |
| `AndersonLock` | `alock.c`, one access to shared memory per step |
| `AndersonLockProofs` | theorems about `AndersonLock` |
| `LockingHashTable` | composes `AndersonLock` with `PartitionOps`: the locking table and its atomic reference counts |
| `LockingHashTableProofs` | theorems about `LockingHashTable` |
| `MCLockingHashTable` | symmetry for TLC |
| `HashServer` | the TCP server, its clients and the kernel's descriptors and streams |
| `MCHashServer` | requests for TLC |
| `HashServerProofs` | theorems about `HashServer` |

Definitions have the names of the functions they model; a function with
several shared accesses or a loop that waits is split into actions that
`PROJECT.json` maps to its lines.  Definitions marked *Mutant* are faulty
variants of the definition after them and are used nowhere else: each shows
that a property would notice such a fault.

**InputBuffer.** One step per access to a shared word.  `FlushSpin`,
`FlushStore`, `FlushPublish` are the loop, the stores and the last store of
`inpb_flush`; `ReadTest`, `ReadCopy`, `ReadClear` those of `inpb_read`, whose
loop loads a word twice.  `__sync_synchronize` orders the client's stores, the
server's loads and its store stay in order on x86, and the data are volatile,
so interleaving is sequential.  `queue` and `got` are history variables.

**ClientServer.** Input buffers are FIFO queues of batches, as `InputBuffer`
justifies; a wait for a line is a guard.  Output rings keep their slots, the
writer's index and the reader's cached index; `outb_write` is two steps.  A
client is in one call at a time (`cpc`, `call`); steps that touch only its own
memory are merged with the shared access they follow.  Requests are numbered
by their client and an answer is the number of the request, which tells
answers apart and leaves the partition out.  A client releases only values it
got.  `stop_hash_table_servers` is called when no client is in a call, as the
tests and the benchmark do: it writes to the clients' half of the buffers.
The clients in `DoAllClients` call `smp_hash_doall` with any batch of queries
(`batch` holds its locals): the `Doall...` actions are its limit loop, the flush
before it waits, sending, the flush of all buffers and the final reads.  A
client uses either it or the pending API, as everything in the repository
does; mixing them would give each the other's answers.

**Partition.** `hash_insert` is its beginning, one `Evict` per turn of the
loop, and `InsertLink`; the failing assertion is the state `abort`.  Sizes are
in bytes with the code's rounding.  `memalign` is external: it may return NULL
in any turn (`NoElement`), upon which the loop evicts although there is room;
`fails` counts these turns of an insert and is history.  `LruCache` has a
`Fail` too, and its insert gives up an entry for each of them beyond those
that make room.

**MpHashTable.** One partition, its server, FIFO messages and answers of each
client, which may be delayed at will, so batching adds nothing.  The server's
steps are those of `Partition` with reference counts; only it touches
them.  `data` says which key's value is in an element.  Clients fill what
they insert, then mark it ready, and release what they looked up, as
`benchhashtable.c`, `testhashtable.c` and `hashserver2.c` do.  Memory is a
finite set of elements; `memalign` fails when all are in use.

**AndersonLock.** `Garbage` is what the flags that `anderson_init` does not
write may hold.

**LockingHashTable.** `TableSpec` adds to the lock's steps what the thread that
is inside does.  `hash_lookup` and the test of the bit, and then the atomic
increment, are two steps; `hash_insert` is split as in `Partition`;
`atomic_release_value` and `atomic_mark_ready` are single steps that need no
lock.  Threads follow `client_design3`: query, then release or fill and mark
ready.  The lock has a slot per thread and clear flags, without which nothing
holds (see `lock_too_few_slots`).

**HashServer.** Four kinds of processes: TCP clients (`client_hashserver2` over
`hashclient.c`), the acceptor (`tcpserver`), client threads (`clientgo`) and,
inside their steps, the kernel.  `fdt` maps descriptors to connections;
`accept` takes the lowest free one, and slots, streams and queries hold only
the number.  `rx` are the objects on the way to the server: a query, the value
of an insert, or a part of a query, after which `read_object` does not return
without the rest.  `tx` are the units of answers written, a size and a value,
so `writev` may stop between and inside values; `SOCKBUF` units fit until the
client reads.  A client may close or die anywhere.  `close_socket` is one step
per call (`fclose`, `close`, the counter, the slot), interleaved with the
acceptor's.  `doqueries` uses the table as the other modules establish it: a
lookup finds nothing, or a ready value that it pins; `pins` counts the
references.  A lookup carries its number on its connection from the client to
the units of its answer (`no`); it is history, which no guard reads and the
proofs follow.  A slot found free at line 419 and taken by line 477 with a stale
`r` makes the thread look at it again, which is a stutter here.  An insert of
size 0 has no value to follow it, and the thread that reads it never leaves the
loop around `read_object` (`Spin`).  `mixed`
records that a descriptor was used for another connection than the one it was
remembered for.

## Runs

| run | instance | shows |
|---|---|---|
| `input_buffer` | 2 lines of 3 words, messages of 1 and 2 words | the protocol implements `BatchQueue`, `IInv` is an invariant, no wait is for ever |
| `one_server` | 2 clients (pending API, `smp_hash_doall`), 5 inserts in all, 1 line of 2 words, output ring of 3 slots, 3 pending in all and 1 per server, 1 mark-ready | no answer is lost or overwritten at any bound; calls and the stop return; the last pass serves |
| `two_servers` | 2 servers, 2 clients (one of each kind), 3 lookups in all | answers keep the order of the requests, counts are exact, also while one server's answers are drained because the other is at the bound |
| `quit_drain` (violation) | 2 lines per buffer | flushed lines are left unserved at exit |
| `partition_lru` | 3 keys, 2 buckets, 3 elements, sizes 1, 65, 257, 400 in 400 bytes, `memalign` may fail in any turn | consistency, accounting, capacity; the assertion fails only on an empty table; LRU refinement |
| `partition_alloc` (violation) | 4 elements, the same code | what `memalign` is asked for does not hold the value |
| `mp_table` | 2 clients, 3 keys in 2 buckets, random eviction, room and memory for 2 elements, 2 requests each | exact reference counts, no use after free, no unwritten value seen, destroy frees all, evicted elements are freed in the end |
| `anderson_lock` | 4 threads, 4 slots | exclusion, FIFO order, no starvation, bounded `next_slot` |
| `lock_too_few_slots` (violation) | 2 threads with 1 slot | two threads hold the lock |
| `locking_table` | 3 threads, 3 keys, room for 2 elements, memory for 3 | exact counts, values in use stay and are complete, the assertion in the eviction loop holds |
| `hash_server` | 1 client thread with 2 slots, 2 connections, 2 requests, answers in units with 1 in flight | counters, pins, whole and ordered answers, no well-behaved client dropped, lookups answered unless a client holds the thread up for ever |
| `server_leak` (violation) | 2 client threads with 1 slot | a value looked up for a closed connection is never released |

**Bounds.** Two lines are enough for the ring to wrap, fill and be empty, and
three words for full and short lines; the proofs cover all sizes.  In
`ClientServer` the constants keep the code's relations
(`MAX_PENDING_PER_SERVER = OUTB_SIZE - INPB_SIZE`,
`MAX_PENDING_SIZE = OUTB_SIZE * MAX_SERVERS`) at the smallest values at which
each limit is hit: in `one_server` a client may have more requests than the
output ring, the bound per server and the ring of pending requests hold, and all
of them wrap.  With one line and forced flushes a client finds the line still
taken, and waits, in the flush before it waits for an answer, in the flushes of
`smp_hash_doall` and in the flush that marking ready forces, and so does the
stop.  `two_servers` needs three requests and a bound of one per server for
a client to drain one server while it is at the bound with the other.
`MaxRequests` bounds the requests of all clients, `MaxReleases` their releases,
and `Ops` is the kind of requests of a run.  As the bound per server is one in both,
the order of several answers in one ring (in `AnswersConserved`) is left to
the proof.  In `partition_lru` at most three
elements fit at once, a value of 257 bytes fits only when all others are
evicted and one of 400 never.  In the tables, memory for as many elements as
there is room for makes `memalign` fail while clients hold evicted ones.
`locking_table` has a slot, an element and a key per thread.  In `hash_server`
two requests are enough for a batch with queries of two connections, a batch
that is full and one that ends with the scan, an insert in two parts, a
connection that closes in the middle of any of these, and a descriptor and slot
used again; `SOCKBUF = 1` makes every write short.  The acceptor's choice
between threads is exercised in `server_leak`; its wait for room never blocks,
as there are no more connections than slots.

**Fairness.** Weak fairness of every thread that is inside a call, of the
servers, and of the main thread inside the stop: the threads are pinned to
cores and the operating system schedules them.  Nothing makes a client call, except that in
`mp_table` clients take their answers and give back what they got.  A wait is
a guard that, once true, stays true until the waiting thread moves, so weak
fairness is enough.  In `HashServer` the acceptor and every client thread run;
nothing is assumed of TCP clients, which may stall anywhere.  `LookupsAnswered`
is about a client that reads its answers (the fairness of its own `Continue` is
a premise of the property) and whose thread is not held up for ever by another
(`HeldUp`): `read_object`, the loop around it and `write_iovs` have no timeout,
so a client that stops in the middle of a request or does not read its answers
stops all others of the thread, and a value of size 0 does.  Delays that end and
clients that die are inside the property.
`locking_table` uses symmetry of elements and threads; it checks invariants
only.

Deadlock is checked in every run: states in which the program has stopped
have an explicit stuttering step.

## Proofs

Every safety invariant that a passing run checks is also a theorem, for every
value of the constants that the module's assumptions allow; `PROJECT.json` lists them.  Each
proof goes the same way: an inductive invariant, one lemma per action that
shows that it is preserved, and the property as a consequence of it.  Facts
about operators come first, as lemmas of their own.

**`InputBufferProofs`**, for every `INPB_COUNT`, `INPB_SIZE` greater than 0
and every set of messages that fit a line and have no zero word
(`NonZeroWords`): `TypeCorrect`, `NeverOverrun`, `LinesExclusive`,
`BatchesIntact`, and `Refinement`, that `Spec` implements `BatchQueue`.  That
the server copies the batch the client wrote depends on what is in every line
and on how far both threads are.
`IInv` says it: from `data_rd` on the lines hold the published batches in
order, each with its terminator (`RingHoldsQueue`); the next line is the
client's and all others are free; the server has copied a prefix of the
oldest batch (`ReaderHoldsPrefix`) and the client has stored a prefix of its
line into a free line (`WriterStoredPrefix`).  Ring positions are written with
a conditional instead of `%` (`Slot`), which keeps the arithmetic linear.
`NonZeroWords` cannot be dropped: `inpb_read` takes a zero word for the end of
the line, so a message with one cuts its batch short.

**`AndersonLockProofs`**, for every number of slots and every finite set of
threads that is no larger, with clear flags (`EnoughSlots`): `LockTypes`,
`LockExcludes`, `LockIsFair`.  Exclusion alone is not inductive: that a flag is
set for one thread says nothing unless no other thread waits at the same slot.
`LockInv` says that the threads that have drawn a slot form a queue (`Queue`,
with the history variable `ahead`) which occupies consecutive slots from some
slot on, the only one with a set flag; that the counter points just behind the
queue (`QueueFrom`); and that it is at most one round too high, and only until
the thread with slot 0 sets it back (`CounterBounded`).  `EnoughSlots` cannot
be dropped: `lock_too_few_slots` is the counterexample.

**`PartitionOpsProofs`** has lemmas about `hash_lookup`, `hash_remove`, `lru`,
linking and the victims of either policy on a partition that is linked
correctly (`Sound`): what they do to the set of its elements, and that it stays
so.  The bytes in use are the number of cache lines of the elements
(`LinesIn`), a set whose cardinality grows and shrinks with them.

**`PartitionProofs`**, for every set of keys and sizes, number of buckets, capacity
and policy: `PartitionIsTyped`, `LinkageIsConsistent`, `SizeIsExact`,
`CapacityIsKept`, `AssertFailsOnlyWhenEmpty`, wherever `memalign` fails.
`PartitionInv` adds that the key being inserted is absent from the table while
the loop evicts (`InsertBegun`), so that linking it does not make it occur
twice, and that every element has bytes (`NoneEmpty`), so that a table without
bytes, on which alone the assertion fails, has no elements
(`NoBytesNoElements`).
`PartitionIsLruCache`: with `EVICT_LRU` the partition implements `LruCache`.  The
abstract insert happens at the link, and drops in one step what the loop took
one element at a time; in between the abstract cache is the one before the call
(`before`).  `CacheInv` says what ties them: the LRU list is a prefix of the
entries without the key, a prefix longer by more than `fails` does not leave
room (`EvictedSoFar`), and the
bytes of the table, counted one by one, are the size of the lines
(`BytesExact`), which turns the loop's condition into the abstract one.  The
sum of the sizes of a list is a cardinality in `LruCache`, not a recursion.

**`LockingHashTableProofs`**: `TableUsesLock`, that the table is an
implementation of the lock, so that the lock's theorems hold in it; and, from
exclusion, `CountsAreExact`, `ValuesStayIntact`, and with room for an element
(`RoomForOne`) `AssertionHolds`.  `TableInv` says for every point of a query what the
thread has (`JobsFit`, `ValuesKept`), that an allocated element whose bit is
clear has its value (`ElementsIntact`), and that one thread at most is to mark
an element ready (`OneWriter`): without it a second one would take a reference
that is not its own.

**`MpHashTableProofs`**, for all sets of clients, keys, sizes and elements,
and every capacity and policy: `CountsStayNatural`, `ReferencesAreCounted`,
`HeldStaysAlive`, `HeldStaysWritten`, `NothingLeaks`.  References are places: an
entry of the table, a handle of a client, a message or an answer in a queue; a
count is the cardinality of the places that refer to the element, and a step
moves, adds or takes away one place.  `MpInv` adds that whatever refers to an
element expects the key it has (`RefsRight`), that one answer or client only is
to fill it (`OneFiller`), and that an element whose bit is set has two
references (`MaskedReferred`), so that the release that clears the bit does not
free it.

**`ClientServerProofs`**, for every number of clients, servers and requests and
all sizes of lines and rings with `OUTB_SIZE > INPB_SIZE`
(`SizesAssumption`): `TypesKept`, `AnswersKept`, `OrderKept`, `CountsKept`,
`LastPassKept`.  A ring has no check against overrun, so what a client reads
is right only because it has at most `MAX_PENDING_PER_SERVER` requests pending at
a server, which is a fact about counters in the client.  `PipeInv` ties the two
together.  For each client and server (`PairOK`) the unread slots of the ring,
followed by the messages of the batches on their way, are the awaited requests
in order (`Flow`), and `pending_count` is the number of these requests.  So the
answers of a batch fit into the ring beside those not yet read
(`FlowCount`), and storing them (`ServeRing`) leaves the latter alone.
`ServerOK` says where a server is in its pass, `ClientOK` what the call a client
is in has made sure of: that the next request keeps the bound, and that one is
pending where it waits for an answer.  Positions in a batch are counted as
cardinalities instead of by recursion (`Place`, `BatchWords`), which the
provers can reason about.
`LastPassServes` needs `StopInv` besides: no client is in a call
once the stop has begun (`Quiet`), and a server in its last pass has taken a
line of each client it has passed (`LastPass`).

**`HashServerProofs`**, for every number of client threads, slots and
connections, every batch size and all requests (`ServerAssumption`):
`TypeCorrect`, `CountersAgree`, `ValuesPinned`, `ClientsKept`,
`AnswersInOrder`.  All rest on `ServerInv`: where a thread is says what it has
(`Local`), a slot that is in use and not being closed (`Held`) has its
descriptor in its stream as well (`SlotsOK`), and a connection has one
descriptor at most (`KernelOK`).  `CountersAgree` and `ValuesPinned` add
invariants that compare a counter with the cardinality of what it counts, with
terms for the threads between two of the steps (`Counted`, `Pinned`).

The other two hold until two connections share a descriptor, so their invariants
begin with `mixed \/`.  Before that, slots that are held have descriptors apart
from each other's and from the acceptor's (`Own`), hence a connection is served
by one slot.  A client is kept because its stream is framed: the value of an
insert follows its query, and a thread is in the middle of an insert exactly if
the value comes next, or is still to be sent (`FramedOK`), so that a value is
never read as a query; what a client asked is what arrives (`RxTraced`); and a thread about to
close has met the end of the stream or an unknown request (`DropsOK`).

That answers are right is a fact about four places a lookup can be in.  `Flow`
says it for one connection: the units written answer lookups in their order
without leaving one out (`Answers`); the answers that wait in the slot that
serves it come after those, and the lookups in the batch after these
(`FlowVectors`, `FlowQueue`, `FlowOrder`); those on the stream come last
(`WasRead`); the last unit is a part only while the rest is first to be written
(`FlowPart`); and while the connection lives every lookup is in one of the places
(`FlowKnown`), which is why the next answer written is the next one due.
`FlowOwn` says that the queries of a connected client name the slot that serves
it: so handling drops the answer only of a connection that is gone.  The n-th
answer is to the n-th lookup by a bijection between units and lookups
(`AnswersCount`).

Model-checked only: what is eventually true (the provers do not handle
fairness), and the four violations.

## Where the code differs from what it says

* An insert of size 0 sends a zero word and cuts its line short; the proofs and
  `input_buffer` assume messages without one.
* A stopping server serves one more line per client, not all (`quit_drain`).
* The arguments of `memalign` in `hash_insert` are exchanged (`partition_alloc`).
* A partition's lock has a slot per partition, not per thread
  (`lock_too_few_slots`), and `anderson_init` leaves all flags but the first
  as they are.  With enough slots and clear flags the lock is correct
  (`anderson_lock`); no run has other flags (`Garbage`).
* The server's loop over the values of a batch "must go through every returned
  value, even if sockets are broken" so as not to leak; it skips the release of
  a value whose connection was closed meanwhile (`server_leak`).
* A descriptor may be used again while the server still remembers it:
  `close_socket` closes it twice, and answers are matched to connections by
  slot and descriptor.  `AnswersRight`, `WellBehavedKept` and `LookupsAnswered`
  hold as long as that has not happened (`mixed`), and only so long.
* The TCP server never leaves the loop that reads a value of size 0
  (`HashServer.Spin`), although the client library sends such inserts.

## Not modelled

The statistics, the performance counters, affinity and random numbers, which
nothing depends on; the one-way buffer, which nothing calls; option parsing,
timing and the memcached client of the benchmarks; the tests, which are
sequential callers; starting servers again after a stop, which nobody does; the
search for `nhash`.  In the TCP server: sizes of values, `IOV_MAX`, bounded
buffers in the direction of the server, and connections that never run out of
requests (see the hazards in `PROJECT.json`).
