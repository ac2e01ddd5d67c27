--------------------------- MODULE MCForwardPath ---------------------------
(* Small instances of ForwardPath. *)
EXTENDS ForwardPath, TLC

CONSTANTS q1, q2, i1, i2

Interchangeable == Permutations(Requests) \cup Permutations(Instances)
=============================================================================
