---------------------------- MODULE MCDialects ----------------------------
(* Small instances of Dialects. *)
EXTENDS Dialects, FiniteSets

\* Every crossing the router can make, and the plain OpenAI stream.
AllPairs == {p \in Parties \X Parties : p[1] = p[2] => p[1] = "openai"}

\* One message of any make-up, with at most one thing besides.
SmallAsks == {a \in AllAsks : a.blocks # {} /\ Cardinality(a.extras) <= 1}
=============================================================================
