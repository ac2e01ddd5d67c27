---------------------------- MODULE MCBatchLane ----------------------------
(* Small instances of BatchLane: a client and two pollers on one job. *)
EXTENDS BatchLane

CONSTANTS j1, m1, m2, b1, c1, p1, p2
=============================================================================
