----------------------------- MODULE BatchQueue -----------------------------
(***************************************************************************)
(* What one client-to-server input buffer of mpbuffers.c promises: a       *)
(* bounded FIFO of batches.  The client collects messages in a local       *)
(* batch, a flush appends the batch to the queue, the server takes whole   *)
(* batches in order.  InputBuffer shows that the word-by-word cache-line   *)
(* protocol of the code implements this.                                   *)
(***************************************************************************)
EXTENDS Naturals, Sequences

CONSTANTS INPB_COUNT,  \* lines in the ring
          INPB_SIZE,   \* words in a line
          Messages     \* messages (sequences of words) clients write

VARIABLES local,   \* messages written and not yet flushed, as words
          queue,   \* flushed batches the server has not taken
          got      \* the batch the server took last

vars == <<local, queue, got>>

Init == local = <<>> /\ queue = <<>> /\ got = <<>>

\* A message that fits joins the local batch.
Write(m) ==
  /\ Len(local) + Len(m) <= INPB_SIZE
  /\ local' = local \o m
  /\ UNCHANGED <<queue, got>>

\* The local batch moves to the queue; m is the message that did not fit, or
\* empty when the flush was asked for.
Flush(m) ==
  /\ local # <<>>
  /\ Len(queue) < INPB_COUNT
  /\ queue' = Append(queue, local)
  /\ local' = m
  /\ UNCHANGED got

Take ==
  /\ queue # <<>>
  /\ got' = Head(queue)
  /\ queue' = Tail(queue)
  /\ UNCHANGED local

Next == \/ \E m \in Messages : Write(m)
        \/ \E m \in Messages \cup {<<>>} : Flush(m)
        \/ Take

Spec == Init /\ [][Next]_vars
=============================================================================
