-------------------------- MODULE MCSavingsLedger --------------------------
(* Prices and requests for small instances of SavingsLedger. *)
EXTENDS SavingsLedger

Prices == [incumbent |-> 8, candidate |-> 2]

\* Every kind of call; and, with larger ones among those held back, all but the
\* plain ones, which cost what a call held back costs while none is routed.
SmallCalls == [kind : CallKinds, size : {1}]
Calls == [kind : CallKinds \ {"plain"}, size : {1}] \cup {[kind |-> "held", size |-> 3]}
=============================================================================
