---------------------------- MODULE InputBuffer ----------------------------
(***************************************************************************)
(* struct inputbuffer of mpbuffers.c: the ring of cache lines on which one *)
(* client sends requests to one server without locks or shared indices.    *)
(* Word 0 of a line is the only synchronisation: it is 0 exactly while the *)
(* line belongs to the client.  A word 0 elsewhere ends a short line.      *)
(*                                                                         *)
(* One step is one access to shared memory.  The stores of inpb_flush are  *)
(* ordered by __sync_synchronize, and x86 keeps the loads of inpb_read and *)
(* its final store in program order, so steps interleave sequentially.     *)
(***************************************************************************)
EXTENDS Naturals, Sequences

CONSTANTS INPB_COUNT, INPB_SIZE, Messages

ASSUME BufferAssumption ==
  /\ INPB_COUNT \in Nat \ {0}
  /\ INPB_SIZE \in Nat \ {0}

\* inpb_write asserts write_count <= INPB_SIZE.
ASSUME MessagesFit ==
  \A m \in Messages : m \in Seq(Nat) /\ Len(m) \in 1..INPB_SIZE

\* No word of a message is 0: op codes are non-zero, and so are the sizes
\* the callers of this repository insert.
NonZeroWords == \A m \in Messages : \A i \in 1..Len(m) : m[i] # 0

VARIABLES
  data,        \* data[INPB_COUNT][INPB_SIZE], shared
  data_wr,     \* line the client fills next (client only)
  local_data,  \* words not yet flushed; local_index is its length (client only)
  wpc,         \* client: "idle", or where it is in inpb_flush
  wi,          \* client: loop index of inpb_flush
  wmsg,        \* client: message to write once the flush is done, or <<>>
  data_rd,     \* line the server reads next (server only)
  rpc,         \* server: where it is in inpb_read
  rbuf,        \* server: words copied so far; count is its length
  got,         \* history: the batch inpb_read returned last
  queue        \* history: batches published and not yet returned

cvars == <<data_wr, local_data, wpc, wi, wmsg>>
svars == <<data_rd, rpc, rbuf, got>>
vars == <<data, cvars, svars, queue>>

Lines == 0..INPB_COUNT - 1
Slots == 0..INPB_SIZE - 1

\* Mutant: the index is not wrapped.
NextLineUnwrapped(i) == i + 1

\* (i + 1) & (INPB_COUNT - 1): the counts are powers of two in the code.
NextLine(i) == IF i + 1 = INPB_COUNT THEN 0 ELSE i + 1

\* create_hash_table_client clears every box with memset.
Init ==
  /\ data = [l \in Lines |-> [w \in Slots |-> 0]]
  /\ data_wr = 0 /\ local_data = <<>> /\ wpc = "idle" /\ wi = 0 /\ wmsg = <<>>
  /\ data_rd = 0 /\ rpc = "test" /\ rbuf = <<>> /\ got = <<>>
  /\ queue = <<>>

-----------------------------------------------------------------------------
(* The client thread *)

\* inpb_write: flush first when the message does not fit in the line.
inpb_write(m) ==
  /\ wpc = "idle"
  /\ IF Len(local_data) + Len(m) > INPB_SIZE
       THEN /\ wpc' = "spin" /\ wmsg' = m
            /\ UNCHANGED local_data
       ELSE /\ local_data' = local_data \o m
            /\ UNCHANGED <<wpc, wmsg>>
  /\ UNCHANGED <<data, data_wr, wi, svars, queue>>

\* inpb_flush called by a client; with nothing to flush it returns at once.
inpb_flush ==
  /\ wpc = "idle" /\ local_data # <<>>
  /\ wpc' = "spin" /\ wmsg' = <<>>
  /\ UNCHANGED <<data, data_wr, local_data, wi, svars, queue>>

\* Mutant: the client does not wait for the line.
FlushSpinNoWait ==
  /\ wpc = "spin"
  /\ wpc' = "store" /\ wi' = 1
  /\ UNCHANGED <<data, data_wr, local_data, wmsg, svars, queue>>

\* The loop that waits for the server to give the line back.
FlushSpin ==
  /\ wpc = "spin"
  /\ data[data_wr][0] = 0
  /\ wpc' = "store" /\ wi' = 1
  /\ UNCHANGED <<data, data_wr, local_data, wmsg, svars, queue>>

\* The words inpb_flush stores: a line that is not full ends in a 0.
Line == IF Len(local_data) < INPB_SIZE THEN Append(local_data, 0) ELSE local_data

\* Words 1.. of the line.
FlushStore ==
  /\ wpc = "store" /\ wi < Len(Line)
  /\ data' = [data EXCEPT ![data_wr][wi] = Line[wi + 1]]
  /\ wi' = wi + 1
  /\ UNCHANGED <<data_wr, local_data, wpc, wmsg, svars, queue>>

\* Mutant: word 0 may be stored before the other words.
FlushPublishEarly ==
  /\ wpc = "store"
  /\ data' = [data EXCEPT ![data_wr][0] = local_data[1]]
  /\ data_wr' = NextLine(data_wr)
  /\ queue' = Append(queue, local_data)
  /\ local_data' = wmsg
  /\ wmsg' = <<>> /\ wpc' = "idle"
  /\ UNCHANGED <<wi, svars>>

\* Word 0, last, hands the line over; inpb_write then copies its message.
FlushPublish ==
  /\ wpc = "store" /\ wi >= Len(Line)
  /\ data' = [data EXCEPT ![data_wr][0] = local_data[1]]
  /\ data_wr' = NextLine(data_wr)
  /\ queue' = Append(queue, local_data)
  /\ local_data' = wmsg
  /\ wmsg' = <<>> /\ wpc' = "idle"
  /\ UNCHANGED <<wi, svars>>

-----------------------------------------------------------------------------
(* The server thread, in inpb_read.  The loop reads a word twice: to test  *)
(* it and to copy it.                                                      *)

ReadTest ==
  /\ rpc = "test"
  /\ rpc' = IF Len(rbuf) < INPB_SIZE /\ data[data_rd][Len(rbuf)] # 0
              THEN "copy"
              ELSE IF rbuf # <<>> THEN "clear" ELSE "test"
  /\ UNCHANGED <<data, cvars, data_rd, rbuf, got, queue>>

ReadCopy ==
  /\ rpc = "copy"
  /\ rbuf' = Append(rbuf, data[data_rd][Len(rbuf)])
  /\ rpc' = "test"
  /\ UNCHANGED <<data, cvars, data_rd, got, queue>>

\* Mutant: the server stays on the line it has read.
ReadClearStuck ==
  /\ rpc = "clear"
  /\ data' = [data EXCEPT ![data_rd][0] = 0]
  /\ got' = rbuf
  /\ rbuf' = <<>> /\ rpc' = "test"
  /\ queue' = Tail(queue)
  /\ UNCHANGED <<cvars, data_rd>>

\* Word 0 gives the line back to the client.
ReadClear ==
  /\ rpc = "clear"
  /\ data' = [data EXCEPT ![data_rd][0] = 0]
  /\ data_rd' = NextLine(data_rd)
  /\ got' = rbuf
  /\ rbuf' = <<>> /\ rpc' = "test"
  /\ queue' = Tail(queue)
  /\ UNCHANGED cvars

-----------------------------------------------------------------------------
Flush == FlushSpin \/ FlushStore \/ FlushPublish
Read == ReadTest \/ ReadCopy \/ ReadClear
Call == inpb_flush \/ \E m \in Messages : inpb_write(m)
Next == Call \/ Flush \/ Read

Spec == Init /\ [][Next]_vars

\* Both threads keep running; a client need not call anything.
FairSpec == Spec /\ WF_vars(Flush) /\ WF_vars(Read)
-----------------------------------------------------------------------------
\* The indices stay inside the ring, and neither local_data of inpb_write nor
\* what inpb_read copies outgrows a line.
TypeOK ==
  /\ data \in [Lines -> [Slots -> Nat]]
  /\ data_wr \in Lines /\ data_rd \in Lines
  /\ local_data \in Seq(Nat) /\ Len(local_data) <= INPB_SIZE
  /\ wpc \in {"idle", "spin", "store"} /\ wi \in Nat
  /\ wmsg \in Messages \cup {<<>>}
  /\ rpc \in {"test", "copy", "clear"}
  /\ rbuf \in Seq(Nat) /\ Len(rbuf) <= INPB_SIZE
  /\ got \in Seq(Nat) /\ queue \in Seq(Seq(Nat))

\* The server has begun to read line data_rd and not yet given it back.
Reading == rpc # "test" \/ rbuf # <<>>

\* No data race on a line: while inpb_flush stores words into a line, the
\* server is not between its first successful test of that line and the
\* store that gives the line back.
LineExclusion == wpc = "store" /\ Reading => data_wr # data_rd

\* A line the client stores into holds nothing the server has yet to read:
\* the ring never has more than INPB_COUNT batches, and the client's next
\* line is free whenever inpb_flush has left its waiting loop.
NoOverrun == /\ Len(queue) <= INPB_COUNT
             /\ wpc = "store" => Len(queue) < INPB_COUNT

\* What inpb_read returns is the oldest flushed batch, whole.
BatchIntact == rpc = "clear" => queue # <<>> /\ rbuf = Head(queue)

\* The line k places after line b.
Slot(b, k) == IF b + k < INPB_COUNT THEN b + k ELSE b + k - INPB_COUNT

\* Line l holds batch b as inpb_flush lays it out.
Holds(l, b) ==
  /\ \A w \in 1..Len(b) : data[l][w - 1] = b[w]
  /\ Len(b) < INPB_SIZE => data[l][Len(b)] = 0

Words == Nat \ {0}

\* Starting at data_rd, the lines hold the published batches in order; the
\* next line is data_wr, and every line from there on belongs to the client.
RingHoldsQueue ==
  /\ Len(queue) <= INPB_COUNT
  /\ data_wr = Slot(data_rd, Len(queue))
  /\ \A i \in 1..Len(queue) :
       /\ queue[i] \in Seq(Words) /\ Len(queue[i]) \in 1..INPB_SIZE
       /\ Holds(Slot(data_rd, i - 1), queue[i])
  /\ \A k \in Len(queue)..INPB_COUNT - 1 : data[Slot(data_rd, k)][0] = 0

\* The server has copied a prefix of the oldest batch.
ReaderHoldsPrefix ==
  /\ Reading => /\ queue # <<>>
                /\ Len(rbuf) <= Len(queue[1])
                /\ \A i \in 1..Len(rbuf) : rbuf[i] = queue[1][i]
  /\ rpc = "copy" => Len(rbuf) < Len(queue[1])
  /\ rpc = "clear" => Len(rbuf) = Len(queue[1])

\* The client has stored a prefix of the line into a line that is its own.
WriterStoredPrefix ==
  /\ local_data \in Seq(Words)
  /\ wpc # "idle" => local_data # <<>>
  /\ wpc = "store" => /\ Len(queue) < INPB_COUNT
                      /\ wi \in 1..Len(Line)
                      /\ \A j \in 1..wi - 1 : data[data_wr][j] = Line[j + 1]

\* The ring of lines and both threads' positions in it agree, at every word
\* access, with the queue of batches: the inductive invariant that
\* ImplementsBatchQueue and the theorems of InputBufferProofs rest on.
IInv == TypeOK /\ RingHoldsQueue /\ ReaderHoldsPrefix /\ WriterStoredPrefix

\* The word protocol implements the bounded FIFO of batches: a flush appends
\* the local batch at its last store, and inpb_read takes the oldest batch
\* when it clears word 0.
Queue == INSTANCE BatchQueue WITH local <- local_data
ImplementsBatchQueue == Queue!Spec

\* Every published line is read and given back, and so a client in
\* inpb_write or inpb_flush, which may wait for one, comes back.
LinesReturned ==
  /\ \A l \in Lines : data[l][0] # 0 ~> data[l][0] = 0
  /\ wpc # "idle" ~> wpc = "idle"
=============================================================================
