---------------------------- MODULE MCHashServer ----------------------------
(* HashServer with the requests of a small instance *)
EXTENDS HashServer

CONSTANTS reader, k1

\* One client looks keys up; the other one inserts, values of size 0 too, and
\* may send a request with an unknown optype.
ReaderAndWriter ==
  [c \in Conns |-> IF c = reader THEN [op : {"lookup"}, key : Keys] ELSE [op : {"insert", "insert0", "bad"}, key : {k1}]]
=============================================================================
