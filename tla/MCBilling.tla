----------------------------- MODULE MCBilling -----------------------------
(* Small instances of Billing: two overlapping sessions, so that one commit *)
(* can overwrite another, on a process that serves traffic and one that     *)
(* does not.                                                                *)
EXTENDS Billing

CONSTANTS s1, s2, p1, p2
=============================================================================
