--------------------------- MODULE MCInputBuffer ---------------------------
(* Small instances of InputBuffer: one- and two-word messages, as LOOKUP and *)
(* INSERT requests are.                                                      *)
EXTENDS InputBuffer

TwoKinds == {<<1>>, <<2, 3>>}
=============================================================================
