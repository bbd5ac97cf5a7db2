---------------------------- MODULE ClientServer ----------------------------
(***************************************************************************)
(* The request pipeline of smphashtable.c: client threads queue LOOKUP,    *)
(* INSERT and RELEASE messages for the servers and collect the answers in  *)
(* the order of their requests, server threads poll one input line of      *)
(* every client in turn and answer into that client's output ring, and the *)
(* main thread creates clients and stops the servers.                      *)
(*                                                                         *)
(* Input buffers are the bounded FIFO of batches that InputBuffer          *)
(* implements.  Output rings are modelled as in mpbuffers.c: the writer    *)
(* never waits, the reader keeps a cached copy of the writer's index.      *)
(* What a server does to its partition is left to other modules: here an   *)
(* answer is the number of the request it answers.                         *)
(***************************************************************************)
EXTENDS Naturals, Sequences, FiniteSets, SequencesExt

CONSTANTS
  NSERVERS, MAX_SERVERS, NCLIENTS,
  INPB_COUNT, INPB_SIZE,  \* lines in an input buffer, words in a line
  OUTB_SIZE,              \* slots in an output ring
  DoAllClients,           \* clients that use smp_hash_doall, and only that
  Ops,                    \* requests clients make: "lookup", "insert"
  MaxRequests,            \* bound: requests clients make, in all
  MaxReleases             \* bound: values released or marked ready, in all

ASSUME SizesAssumption ==
  /\ MAX_SERVERS \in Nat /\ NSERVERS \in 1..MAX_SERVERS /\ NCLIENTS \in Nat
  /\ INPB_COUNT \in Nat \ {0} /\ INPB_SIZE \in Nat \ {0, 1}
  /\ OUTB_SIZE \in Nat /\ OUTB_SIZE > INPB_SIZE
  /\ DoAllClients \subseteq 0..NCLIENTS - 1
  /\ Ops \subseteq {"lookup", "insert"} /\ MaxRequests \in Nat

Servers == 0..NSERVERS - 1
Clients == 0..NCLIENTS - 1
MAX_PENDING_SIZE == OUTB_SIZE * MAX_SERVERS
MAX_PENDING_PER_SERVER == OUTB_SIZE - INPB_SIZE

VARIABLES
  \* struct hash_table
  nclients, quitting,
  \* the main thread: where it is in stop_hash_table_servers
  mpc, flushed,
  \* struct inputbuffer of every client and server
  local, queue,
  \* struct outputbuffer of every client and server
  out, out_wr, local_rd_index, local_wr_index,
  \* struct pending_data of every client
  pending_values, pending_servers, rd_index, wr_index, pending_index, pending_count,
  \* client threads: the call being made, and where it is
  call, cpc,
  \* locals of smp_hash_doall
  batch,
  \* history of a client: its requests, and those with an answer not released
  req, held,
  \* server threads: where they are, and their local quitting, nclients, i, localbuf
  spc, s_quitting, s_nclients, s_i, localbuf,
  \* history: lines in each input buffer when quitting was set
  lines_at_quit

mainvars == <<quitting, mpc, flushed, lines_at_quit>>
inbufs == <<local, queue>>
outrd == <<local_rd_index, local_wr_index>>
outwr == <<out, out_wr>>
pending == <<pending_values, pending_servers, rd_index, wr_index, pending_index, pending_count>>
ctl == <<call, cpc, req, held, batch>>
srv == <<spc, s_quitting, s_nclients, s_i, localbuf>>
vars == <<nclients, mainvars, inbufs, outrd, outwr, pending, ctl, srv>>

NoBatch == [q |-> <<>>, i |-> 0, pending_count |-> [s \in Servers |-> 0], values |-> <<>>, flushed |-> 0]
NoCall == [op |-> "none", s |-> 0, id |-> 0]

\* start_hash_table_servers has run; no client exists yet.
Init ==
  /\ nclients = 0 /\ quitting = FALSE /\ mpc = "run" /\ flushed = 0
  /\ lines_at_quit = [c \in Clients |-> [s \in Servers |-> 0]]
  /\ local = [c \in Clients |-> [s \in Servers |-> <<>>]]
  /\ queue = [c \in Clients |-> [s \in Servers |-> <<>>]]
  /\ out = [c \in Clients |-> [s \in Servers |-> [i \in 0..OUTB_SIZE - 1 |-> 0]]]
  /\ out_wr = [c \in Clients |-> [s \in Servers |-> 0]]
  /\ local_rd_index = [c \in Clients |-> [s \in Servers |-> 0]]
  /\ local_wr_index = [c \in Clients |-> [s \in Servers |-> 0]]
  /\ pending_values = [c \in Clients |-> [i \in 0..MAX_PENDING_SIZE - 1 |-> 0]]
  /\ pending_servers = [c \in Clients |-> [i \in 0..MAX_PENDING_SIZE - 1 |-> 0]]
  /\ rd_index = [c \in Clients |-> 0]
  /\ wr_index = [c \in Clients |-> 0]
  /\ pending_index = [c \in Clients |-> 0]
  /\ pending_count = [c \in Clients |-> [s \in Servers |-> 0]]
  /\ call = [c \in Clients |-> NoCall] /\ cpc = [c \in Clients |-> "idle"]
  /\ batch = [c \in Clients |-> NoBatch]
  /\ req = [c \in Clients |-> <<>>] /\ held = [c \in Clients |-> {}]
  /\ spc = [s \in Servers |-> "top"]
  /\ s_quitting = [s \in Servers |-> FALSE]
  /\ s_nclients = [s \in Servers |-> 0]
  /\ s_i = [s \in Servers |-> 0]
  /\ localbuf = [s \in Servers |-> <<>>]

-----------------------------------------------------------------------------
(* Input buffers *)

Words(m) == IF m.op = "insert" THEN 2 ELSE 1

\* The words of a batch: one for every message, and one more for an insert.
BatchWords(b) == Len(b) + Cardinality({i \in DOMAIN b : b[i].op = "insert"})

\* inpb_flush; disabled while it would wait for the server.
inpb_flush(c, s) ==
  IF local[c][s] = <<>>
    THEN UNCHANGED inbufs
    ELSE /\ Len(queue[c][s]) < INPB_COUNT
         /\ queue' = [queue EXCEPT ![c][s] = Append(@, local[c][s])]
         /\ local' = [local EXCEPT ![c][s] = <<>>]

\* inpb_write; disabled while the flush it needs would wait.
inpb_write(c, s, m) ==
  IF BatchWords(local[c][s]) + Words(m) > INPB_SIZE
    THEN /\ Len(queue[c][s]) < INPB_COUNT
         /\ queue' = [queue EXCEPT ![c][s] = Append(@, local[c][s])]
         /\ local' = [local EXCEPT ![c][s] = <<m>>]
    ELSE /\ local' = [local EXCEPT ![c][s] = Append(@, m)]
         /\ UNCHANGED queue

-----------------------------------------------------------------------------
(* Clients *)

create_hash_table_client ==
  /\ mpc = "run" /\ nclients < NCLIENTS
  /\ nclients' = nclients + 1
  /\ UNCHANGED <<mainvars, inbufs, outrd, outwr, pending, ctl, srv>>

MayCall(c) == mpc = "run" /\ c < nclients /\ cpc[c] = "idle"

Goto(c, pc) == cpc' = [cpc EXCEPT ![c] = pc]
Return(c) == Goto(c, "idle") /\ call' = [call EXCEPT ![c] = NoCall]

\* The requests the clients have made, or have begun to make in a batch.
Requested == SumFunction([c \in Clients |-> Len(req[c]) + Len(batch[c].q) - batch[c].i])

\* smp_hash_lookup, smp_hash_insert of a key of server s.  With the queue of
\* pending requests full they return 0 and change nothing.
smp_hash_request(c, op, s) ==
  /\ MayCall(c) /\ c \notin DoAllClients /\ Requested < MaxRequests
  /\ pending_index[c] - rd_index[c] < MAX_PENDING_SIZE
  /\ call' = [call EXCEPT ![c] = [op |-> op, s |-> s, id |-> pending_index[c]]]
  /\ Goto(c, "limit")
  /\ UNCHANGED <<nclients, mainvars, inbufs, outrd, outwr, pending, req, held, batch, srv>>

\* Mutant: one request too many may be pending per output ring.
LimitPendingOff(c) ==
  /\ cpc[c] = "limit"
  /\ Goto(c, IF pending_count[c][call[c].s] > OUTB_SIZE THEN "read" ELSE "send")
  /\ UNCHANGED <<nclients, mainvars, inbufs, outrd, outwr, pending, call, req, held, batch, srv>>

\* The loop that bounds the requests pending at one server.
LimitPending(c) ==
  /\ cpc[c] = "limit"
  /\ Goto(c, IF pending_count[c][call[c].s] >= MAX_PENDING_PER_SERVER THEN "read" ELSE "send")
  /\ UNCHANGED <<nclients, mainvars, inbufs, outrd, outwr, pending, call, req, held, batch, srv>>

\* The rest of smp_hash_lookup and smp_hash_insert.
SendRequest(c) ==
  LET s == call[c].s
      n == pending_index[c]
  IN /\ cpc[c] = "send" /\ call[c].op \in {"lookup", "insert"}
     /\ inpb_write(c, s, [op |-> call[c].op, id |-> n])
     /\ pending_count' = [pending_count EXCEPT ![c][s] = @ + 1]
     /\ pending_servers' = [pending_servers EXCEPT ![c][n % MAX_PENDING_SIZE] = s]
     /\ pending_index' = [pending_index EXCEPT ![c] = @ + 1]
     /\ req' = [req EXCEPT ![c] = Append(@, [op |-> call[c].op, s |-> s])]
     /\ Return(c)
     /\ UNCHANGED <<nclients, mainvars, outrd, outwr, pending_values, rd_index, wr_index, held, batch, srv>>

\* The number of values a client has released or marked ready.
Released(c) ==
  (IF c \in DoAllClients THEN Len(req[c]) - batch[c].i ELSE rd_index[c]) - Cardinality(held[c])

\* mp_release_value and mp_mark_ready: an answer to a lookup is released, an
\* answer to an insert is marked ready.
mp_send_release(c, n) ==
  /\ MayCall(c) /\ n \in held[c]
  /\ SumFunction([d \in Clients |-> Released(d)]) < MaxReleases
  /\ call' = [call EXCEPT ![c] = [op |-> "release", s |-> req[c][n + 1].s, id |-> n]]
  /\ held' = [held EXCEPT ![c] = @ \ {n}]
  /\ Goto(c, "send")
  /\ UNCHANGED <<nclients, mainvars, inbufs, outrd, outwr, pending, req, batch, srv>>

\* mp_send_release_msg_; marking ready forces a flush.
SendRelease(c) ==
  /\ cpc[c] = "send" /\ call[c].op = "release"
  /\ inpb_write(c, call[c].s, [op |-> "release", id |-> call[c].id])
  /\ IF req[c][call[c].id + 1].op = "insert"
       THEN Goto(c, "force") /\ UNCHANGED call
       ELSE Return(c)
  /\ UNCHANGED <<nclients, mainvars, outrd, outwr, pending, req, held, batch, srv>>

ForceFlush(c) ==
  /\ cpc[c] = "force"
  /\ inpb_flush(c, call[c].s)
  /\ Return(c)
  /\ UNCHANGED <<nclients, mainvars, outrd, outwr, pending, req, held, batch, srv>>

-----------------------------------------------------------------------------
(* read_next_pending_value *)

PendingServer(c) == pending_servers[c][wr_index[c] % MAX_PENDING_SIZE]

\* outb_read looks at the writer's index only when its cached copy says empty.
FreshIndex(c, s) ==
  IF local_rd_index[c][s] = local_wr_index[c][s] THEN out_wr[c][s] ELSE local_wr_index[c][s]

\* An outb_read that finds a value.
outb_read(c, s) ==
  /\ local_rd_index[c][s] # FreshIndex(c, s)
  /\ local_wr_index' = [local_wr_index EXCEPT ![c][s] = FreshIndex(c, s)]
  /\ local_rd_index' = [local_rd_index EXCEPT ![c][s] = @ + 1]

NextValue(c, s) == out[c][s][local_rd_index[c][s] % OUTB_SIZE]

\* Mutant: the count of the server being asked now is decremented.
ReadValueMiscount(c) ==
  LET s == PendingServer(c)
  IN /\ outb_read(c, s)
     /\ pending_values' = [pending_values EXCEPT ![c][wr_index[c] % MAX_PENDING_SIZE] = NextValue(c, s)]
     /\ pending_count' = [pending_count EXCEPT ![c][call[c].s] = @ - 1]
     /\ wr_index' = [wr_index EXCEPT ![c] = @ + 1]
     /\ Goto(c, IF call[c].op = "get" THEN "take" ELSE "limit")
     /\ UNCHANGED <<nclients, mainvars, inbufs, outwr, pending_servers, rd_index, pending_index,
                    call, req, held, batch, srv>>

\* What read_next_pending_value does with a value.
ReadValue(c) ==
  LET s == PendingServer(c)
  IN /\ outb_read(c, s)
     /\ pending_values' = [pending_values EXCEPT ![c][wr_index[c] % MAX_PENDING_SIZE] = NextValue(c, s)]
     /\ pending_count' = [pending_count EXCEPT ![c][s] = @ - 1]
     /\ wr_index' = [wr_index EXCEPT ![c] = @ + 1]
     /\ Goto(c, IF call[c].op = "get" THEN "take" ELSE "limit")
     /\ UNCHANGED <<nclients, mainvars, inbufs, outwr, pending_servers, rd_index, pending_index,
                    call, req, held, batch, srv>>

TryRead(c) ==
  /\ cpc[c] = "read"
  /\ \/ ReadValue(c)
     \/ /\ local_rd_index[c][PendingServer(c)] = FreshIndex(c, PendingServer(c))
        /\ Goto(c, "flush")
        /\ UNCHANGED <<nclients, mainvars, inbufs, outrd, outwr, pending, call, req, held, batch, srv>>

\* Mutant: the requests are not flushed before the client waits for the answer.
FlushBeforeBlockNot(c) ==
  /\ cpc[c] = "flush"
  /\ Goto(c, "block")
  /\ UNCHANGED <<nclients, mainvars, inbufs, outrd, outwr, pending, call, req, held, batch, srv>>

FlushBeforeBlock(c) ==
  /\ cpc[c] = "flush"
  /\ inpb_flush(c, PendingServer(c))
  /\ Goto(c, "block")
  /\ UNCHANGED <<nclients, mainvars, outrd, outwr, pending, call, req, held, batch, srv>>

\* outb_blocking_read, once there is a value.
BlockingRead(c) == cpc[c] = "block" /\ ReadValue(c)

-----------------------------------------------------------------------------
(* smp_get_next and smp_try_get_next *)

\* smp_get_next with no value at hand; with no request pending it returns 0.
smp_get_next(c) ==
  /\ MayCall(c)
  /\ rd_index[c] # pending_index[c] /\ rd_index[c] = wr_index[c]
  /\ call' = [call EXCEPT ![c] = [NoCall EXCEPT !.op = "get"]]
  /\ Goto(c, "read")
  /\ UNCHANGED <<nclients, mainvars, inbufs, outrd, outwr, pending, req, held, batch, srv>>

\* smp_try_get_next, and the end of smp_get_next.
TakeValue(c) ==
  /\ MayCall(c) \/ cpc[c] = "take"
  /\ rd_index[c] # wr_index[c]
  /\ held' = [held EXCEPT ![c] = @ \cup {pending_values[c][rd_index[c] % MAX_PENDING_SIZE]}]
  /\ rd_index' = [rd_index EXCEPT ![c] = @ + 1]
  /\ Return(c)
  /\ UNCHANGED <<nclients, mainvars, inbufs, outrd, outwr, pending_values, pending_servers,
                 wr_index, pending_index, pending_count, req, batch, srv>>

-----------------------------------------------------------------------------
(* smp_hash_doall: a batch of requests, with the answers collected in the  *)
(* caller's array; the count of pending requests is its own.               *)

smp_hash_doall(c, q) ==
  /\ MayCall(c) /\ c \in DoAllClients /\ Requested + Len(q) <= MaxRequests
  /\ batch' = [batch EXCEPT ![c] = [NoBatch EXCEPT !.q = q]]
  /\ Goto(c, "doall")
  /\ UNCHANGED <<nclients, mainvars, inbufs, outrd, outwr, pending, call, req, held, srv>>

\* Mutant: a batch is not limited by the size of the output rings.
DoallLimitNot(c) ==
  /\ cpc[c] = "doall"
  /\ Goto(c, IF batch[c].i = Len(batch[c].q) THEN "doall_end" ELSE "doall_send")
  /\ UNCHANGED <<nclients, mainvars, inbufs, outrd, outwr, pending, call, req, held, batch, srv>>

\* The top of the loop over the queries, and of the one that bounds the
\* requests pending at one server.
DoallLimit(c) ==
  LET b == batch[c]
  IN /\ cpc[c] = "doall"
     /\ Goto(c, IF b.i = Len(b.q) THEN "doall_end"
                ELSE IF b.pending_count[b.q[b.i + 1].s] >= MAX_PENDING_PER_SERVER
                  THEN "doall_read" ELSE "doall_send")
     /\ UNCHANGED <<nclients, mainvars, inbufs, outrd, outwr, pending, call, req, held, batch, srv>>

\* Mutant: the newest query's server is asked for the oldest query's answer.
DoallServerNewest(c) == batch[c].q[batch[c].i].s

\* The server of the oldest query without an answer, queries[pindex].
DoallServer(c) == batch[c].q[Len(batch[c].values) + 1].s

DoallValue(c) ==
  LET s == DoallServer(c)
  IN /\ outb_read(c, s)
     /\ batch' = [batch EXCEPT ![c].values = Append(@, NextValue(c, s)),
                               ![c].pending_count[s] = @ - 1]
     /\ UNCHANGED <<nclients, mainvars, inbufs, outwr, pending, call, req, held, srv>>

DoallRead(c) ==
  /\ cpc[c] = "doall_read"
  /\ \/ DoallValue(c) /\ Goto(c, "doall")
     \/ /\ local_rd_index[c][DoallServer(c)] = FreshIndex(c, DoallServer(c))
        /\ Goto(c, "doall_flush")
        /\ UNCHANGED <<nclients, mainvars, inbufs, outrd, outwr, pending, call, req, held, batch, srv>>

DoallFlush(c) ==
  /\ cpc[c] = "doall_flush"
  /\ inpb_flush(c, DoallServer(c))
  /\ Goto(c, "doall_block")
  /\ UNCHANGED <<nclients, mainvars, outrd, outwr, pending, call, req, held, batch, srv>>

DoallBlock(c) == cpc[c] = "doall_block" /\ DoallValue(c) /\ Goto(c, "doall")

DoallSend(c) ==
  LET m == batch[c].q[batch[c].i + 1]
  IN /\ cpc[c] = "doall_send"
     /\ inpb_write(c, m.s, [op |-> m.op, id |-> Len(req[c])])
     /\ batch' = [batch EXCEPT ![c].i = @ + 1, ![c].pending_count[m.s] = @ + 1]
     /\ req' = [req EXCEPT ![c] = Append(@, m)]
     /\ Goto(c, "doall")
     /\ UNCHANGED <<nclients, mainvars, outrd, outwr, pending, call, held, srv>>

\* After all queries are queued: one buffer after the other is flushed...
DoallFlushAll(c) ==
  /\ cpc[c] = "doall_end" /\ batch[c].flushed < NSERVERS
  /\ inpb_flush(c, batch[c].flushed)
  /\ batch' = [batch EXCEPT ![c].flushed = @ + 1]
  /\ UNCHANGED <<nclients, mainvars, outrd, outwr, pending, call, cpc, req, held, srv>>

\* ... the answers that are missing are waited for...
DoallDrain(c) ==
  /\ cpc[c] = "doall_end" /\ batch[c].flushed = NSERVERS
  /\ Len(batch[c].values) < Len(batch[c].q)
  /\ DoallValue(c) /\ UNCHANGED cpc

\* ... and the caller has them.
DoallReturn(c) ==
  /\ cpc[c] = "doall_end" /\ Len(batch[c].values) = Len(batch[c].q)
  /\ batch[c].flushed = NSERVERS
  /\ held' = [held EXCEPT ![c] = @ \cup ToSet(batch[c].values)]
  /\ batch' = [batch EXCEPT ![c] = NoBatch]
  /\ Goto(c, "idle")
  /\ UNCHANGED <<nclients, mainvars, inbufs, outrd, outwr, pending, call, req, srv>>

-----------------------------------------------------------------------------
(* hash_table_server *)

SGoto(s, pc) == spc' = [spc EXCEPT ![s] = pc]

\* Mutant: a server that sees quitting leaves at once.
ReadQuittingLeave(s) ==
  /\ spc[s] = "top"
  /\ s_quitting' = [s_quitting EXCEPT ![s] = quitting]
  /\ SGoto(s, IF quitting THEN "exit" ELSE "count")
  /\ UNCHANGED <<nclients, mainvars, inbufs, outrd, outwr, pending, ctl, s_nclients, s_i, localbuf>>

\* The top of the loop, before the last pass too.
ReadQuitting(s) ==
  /\ spc[s] = "top"
  /\ s_quitting' = [s_quitting EXCEPT ![s] = quitting]
  /\ SGoto(s, "count")
  /\ UNCHANGED <<nclients, mainvars, inbufs, outrd, outwr, pending, ctl, s_nclients, s_i, localbuf>>

ReadNclients(s) ==
  /\ spc[s] = "count"
  /\ s_nclients' = [s_nclients EXCEPT ![s] = nclients]
  /\ SGoto(s, "poll")
  /\ UNCHANGED <<nclients, mainvars, inbufs, outrd, outwr, pending, ctl, s_quitting, s_i, localbuf>>

\* inpb_read of client i: one line at most.
Poll(s) ==
  LET c == s_i[s]
  IN /\ spc[s] = "poll" /\ c < s_nclients[s]
     /\ IF queue[c][s] = <<>>
          THEN s_i' = [s_i EXCEPT ![s] = @ + 1] /\ UNCHANGED <<spc, queue, localbuf>>
          ELSE /\ localbuf' = [localbuf EXCEPT ![s] = Head(queue[c][s])]
               /\ queue' = [queue EXCEPT ![c][s] = Tail(@)]
               /\ SGoto(s, "serve") /\ UNCHANGED s_i
     /\ UNCHANGED <<nclients, mainvars, local, outrd, outwr, pending, ctl, s_quitting, s_nclients>>

\* Lookups and inserts are answered, releases are not: the messages of a batch
\* that are, and the place of the answer to message i among the answers.
Asked(b) == {i \in DOMAIN b : b[i].op # "release"}
Place(b, i) == Cardinality({j \in Asked(b) : j <= i})

\* The ring r after an outb_write, from index wr on, for each answer of batch b.
WithAnswers(r, wr, b) ==
  [x \in 0..OUTB_SIZE - 1 |->
     LET hits == {i \in Asked(b) : (wr + Place(b, i) - 1) % OUTB_SIZE = x}
     IN IF hits = {} THEN r[x] ELSE b[Max(hits)].id]

\* The batch is executed and its answers stored into the output ring...
Serve(s) ==
  LET c == s_i[s]
  IN /\ spc[s] = "serve"
     /\ out' = [out EXCEPT ![c][s] = WithAnswers(@, out_wr[c][s], localbuf[s])]
     /\ SGoto(s, "publish")
     /\ UNCHANGED <<nclients, mainvars, inbufs, outrd, out_wr, pending, ctl,
                    s_quitting, s_nclients, s_i, localbuf>>

\* Mutant: the index is advanced by the messages read, not by the answers.
PublishMessages(s) ==
  /\ spc[s] = "publish"
  /\ out_wr' = [out_wr EXCEPT ![s_i[s]][s] = @ + Len(localbuf[s])]
  /\ localbuf' = [localbuf EXCEPT ![s] = <<>>]
  /\ s_i' = [s_i EXCEPT ![s] = @ + 1]
  /\ SGoto(s, "poll")
  /\ UNCHANGED <<nclients, mainvars, inbufs, outrd, out, pending, ctl, s_quitting, s_nclients>>

\* ... and then made visible by the writer's index.
Publish(s) ==
  /\ spc[s] = "publish"
  /\ out_wr' = [out_wr EXCEPT ![s_i[s]][s] = @ + Cardinality(Asked(localbuf[s]))]
  /\ localbuf' = [localbuf EXCEPT ![s] = <<>>]
  /\ s_i' = [s_i EXCEPT ![s] = @ + 1]
  /\ SGoto(s, "poll")
  /\ UNCHANGED <<nclients, mainvars, inbufs, outrd, out, pending, ctl, s_quitting, s_nclients>>

\* Mutant: quitting is read once, before the loop.
EndPassNoReread(s) ==
  /\ spc[s] = "poll" /\ s_i[s] >= s_nclients[s]
  /\ SGoto(s, IF s_quitting[s] THEN "exit" ELSE "count")
  /\ s_i' = [s_i EXCEPT ![s] = 0] /\ s_nclients' = [s_nclients EXCEPT ![s] = 0]
  /\ UNCHANGED <<nclients, mainvars, inbufs, outrd, outwr, pending, ctl, s_quitting, localbuf>>

\* The pass is over; the one that began with quitting set was the last.  The
\* locals of the pass are dead and reset.
EndPass(s) ==
  /\ spc[s] = "poll" /\ s_i[s] >= s_nclients[s]
  /\ SGoto(s, IF s_quitting[s] THEN "exit" ELSE "top")
  /\ s_i' = [s_i EXCEPT ![s] = 0] /\ s_nclients' = [s_nclients EXCEPT ![s] = 0]
  /\ UNCHANGED <<nclients, mainvars, inbufs, outrd, outwr, pending, ctl, s_quitting, localbuf>>

-----------------------------------------------------------------------------
(* stop_hash_table_servers, called when no client is in a call: it writes  *)
(* to the clients' side of the input buffers.                              *)

stop_hash_table_servers ==
  /\ mpc = "run" /\ \A c \in Clients : cpc[c] = "idle"
  /\ mpc' = "flush"
  /\ UNCHANGED <<nclients, quitting, flushed, lines_at_quit, inbufs, outrd, outwr, pending, ctl, srv>>

\* The buffers are flushed server by server.
StopFlush ==
  /\ mpc = "flush" /\ flushed < NSERVERS * nclients
  /\ inpb_flush(flushed % nclients, flushed \div nclients)
  /\ flushed' = flushed + 1
  /\ UNCHANGED <<nclients, quitting, mpc, lines_at_quit, outrd, outwr, pending, ctl, srv>>

SetQuitting ==
  /\ mpc = "flush" /\ flushed = NSERVERS * nclients
  /\ quitting' = TRUE /\ mpc' = "join"
  /\ lines_at_quit' = [c \in Clients |-> [s \in Servers |-> Len(queue[c][s])]]
  /\ UNCHANGED <<nclients, flushed, inbufs, outrd, outwr, pending, ctl, srv>>

Join ==
  /\ mpc = "join" /\ \A s \in Servers : spc[s] = "exit"
  /\ mpc' = "stopped"
  /\ UNCHANGED <<nclients, quitting, flushed, lines_at_quit, inbufs, outrd, outwr, pending, ctl, srv>>

\* The servers are gone: nothing more happens.
Stopped == mpc = "stopped" /\ UNCHANGED vars

-----------------------------------------------------------------------------
Call(c) ==
  \/ \E op \in Ops, s \in Servers : smp_hash_request(c, op, s)
  \/ \E n \in held[c] : mp_send_release(c, n)
  \/ smp_get_next(c)
  \/ TakeValue(c)
  \/ \E n \in 1..MaxRequests : \E q \in [1..n -> [op : Ops, s : Servers]] : smp_hash_doall(c, q)

\* A step of a call under way.
InCall(c) ==
  \/ LimitPending(c) \/ SendRequest(c) \/ SendRelease(c) \/ ForceFlush(c)
  \/ TryRead(c) \/ FlushBeforeBlock(c) \/ BlockingRead(c)
  \/ cpc[c] = "take" /\ TakeValue(c)
  \/ DoallLimit(c) \/ DoallRead(c) \/ DoallFlush(c) \/ DoallBlock(c) \/ DoallSend(c)
  \/ DoallFlushAll(c) \/ DoallDrain(c) \/ DoallReturn(c)

hash_table_server(s) ==
  ReadQuitting(s) \/ ReadNclients(s) \/ Poll(s) \/ Serve(s) \/ Publish(s) \/ EndPass(s)

InStop == StopFlush \/ SetQuitting \/ Join

Next ==
  \/ create_hash_table_client
  \/ \E c \in Clients : Call(c) \/ InCall(c)
  \/ \E s \in Servers : hash_table_server(s)
  \/ stop_hash_table_servers \/ InStop \/ Stopped

Spec == Init /\ [][Next]_vars

\* Every thread keeps running; nobody has to make a call.
FairSpec ==
  /\ Spec
  /\ \A c \in Clients : WF_vars(InCall(c))
  /\ \A s \in Servers : WF_vars(hash_table_server(s))
  /\ WF_vars(InStop)

-----------------------------------------------------------------------------
\* No server has more requests of a client pending than smp_hash_lookup and
\* smp_hash_insert allow, and no batch outgrows a line (inpb_write).
TypeOK ==
  /\ nclients \in 0..NCLIENTS /\ quitting \in BOOLEAN
  /\ mpc \in {"run", "flush", "join", "stopped"}
  /\ cpc \in [Clients -> {"idle", "limit", "send", "read", "flush", "block", "take", "force", "doall",
                         "doall_read", "doall_flush", "doall_block", "doall_send", "doall_end"}]
  /\ spc \in [Servers -> {"top", "count", "poll", "serve", "publish", "exit"}]
  /\ pending_count \in [Clients -> [Servers -> 0..MAX_PENDING_PER_SERVER]]
  /\ \A c \in Clients, s \in Servers : BatchWords(local[c][s]) <= INPB_SIZE

\* The number of the first request whose answer a client has not read, and of
\* the next one it makes.
FirstAwaited(c) == IF c \in DoAllClients THEN Len(req[c]) - batch[c].i + Len(batch[c].values) ELSE wr_index[c]
NextRequest(c) == IF c \in DoAllClients THEN Len(req[c]) ELSE pending_index[c]

\* The requests at server s whose answers a client has not read.
Awaited(c, s) == {n \in FirstAwaited(c)..NextRequest(c) - 1 : req[c][n + 1].s = s}

\* The batches on their way from c to s, oldest first: the one the server is
\* serving, flushed lines, and the client's own.
Batches(c, s) == <<IF s_i[s] = c THEN localbuf[s] ELSE <<>>>> \o queue[c][s] \o <<local[c][s]>>

\* Where the answers are that c will read from s: slots of the output ring,
\* and messages of batches; and the request that is answered there.
Coming(c, s) ==
  ({0} \X (local_rd_index[c][s]..out_wr[c][s] - 1))
    \cup UNION {{k} \X Asked(Batches(c, s)[k]) : k \in DOMAIN Batches(c, s)}
Request(c, s, x) ==
  IF x[1] = 0 THEN out[c][s][x[2] % OUTB_SIZE] ELSE Batches(c, s)[x[1]][x[2]].id
Sooner(x, y) == x[1] < y[1] \/ (x[1] = y[1] /\ x[2] < y[2])

\* Nothing is lost, duplicated, reordered or overwritten on the way: the
\* answers that are coming from a server are exactly those the client
\* awaits from it, in the order of the requests.  outb_write never waits for
\* the reader, so this rests on the clients' bound on pending requests.
AnswersConserved ==
  \A c \in Clients, s \in Servers :
    /\ {Request(c, s, x) : x \in Coming(c, s)} = Awaited(c, s)
    /\ \A x, y \in Coming(c, s) : Sooner(x, y) => Request(c, s, x) < Request(c, s, y)

\* The k-th value a client collects answers its k-th request, although the
\* servers answer in any order; smp_hash_doall returns the answer to each
\* query at the query's place.
AnswersInOrder ==
  \A c \in Clients :
    /\ \A n \in rd_index[c]..wr_index[c] - 1 : pending_values[c][n % MAX_PENDING_SIZE] = n
    /\ \A n \in 1..Len(batch[c].values) : batch[c].values[n] = Len(req[c]) - batch[c].i + n - 1

\* pending_count, of the client or of its smp_hash_doall, is the number of
\* unanswered requests at each server.
PendingCountExact ==
  \A c \in Clients, s \in Servers :
    Cardinality(Awaited(c, s)) = IF c \in DoAllClients THEN batch[c].pending_count[s] ELSE pending_count[c][s]

\* A server that has exited has served at least one line of every client
\* that was waiting when quitting was set.
LastPassServes ==
  \A c \in Clients, s \in Servers :
    spc[s] = "exit" /\ lines_at_quit[c][s] > 0 => Len(queue[c][s]) < lines_at_quit[c][s]

\* "after server receives quit signal it should make sure to complete all
\* queries that are in the buffers" (hash_table_server).
QuitCompletesAll ==
  \A s \in Servers : spc[s] = "exit" => \A c \in Clients : queue[c][s] = <<>>

\* Every call of a client returns: no wait of a client for a line, or for an
\* answer, is for ever.
CallReturns == \A c \in Clients : cpc[c] # "idle" ~> cpc[c] = "idle"

\* stop_hash_table_servers returns.
StopReturns == mpc # "run" ~> mpc = "stopped"
=============================================================================
