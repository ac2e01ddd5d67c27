---------------------------- MODULE UsageLedger ----------------------------
(***************************************************************************)
(* What the proxy promises about metering, apart from how it is done: an   *)
(* answered call is owed a ledger row, gets exactly one, and is lost only  *)
(* after a fault.  A call answered from the cache costs nothing and may be *)
(* dropped without one.                                                    *)
(***************************************************************************)
EXTENDS Naturals

CONSTANTS
  Calls,      \* calls in progress at once
  MaxFaults   \* bound on faults: failed ledger writes, cancelled tasks, crashes

VARIABLES
  entry,   \* entry[c]: where the ledger row of call c stands
  faults   \* faults so far

vars == <<entry, faults>>

Owed == {"owed_paid", "owed_free"}
Entries == {"none", "charged", "lost"} \cup Owed

Init ==
  /\ entry = [c \in Calls |-> "none"]
  /\ faults = 0

\* A call has been answered, by a provider or from the cache.
Answer(c) ==
  /\ entry[c] = "none"
  /\ \E o \in Owed : entry' = [entry EXCEPT ![c] = o]
  /\ UNCHANGED faults

Charge(c) ==
  /\ entry[c] \in Owed
  /\ entry' = [entry EXCEPT ![c] = "charged"]
  /\ UNCHANGED faults

Drop(c) ==
  /\ entry[c] = "owed_free"
  /\ entry' = [entry EXCEPT ![c] = "lost"]
  /\ UNCHANGED faults

\* A fault happens, or what an earlier one left behind takes calls with it;
\* a call answered by the same step is owed as ever.
Fault ==
  /\ faults' \in faults..(faults + 1)
  /\ 0 < faults' /\ faults' <= MaxFaults
  /\ \E gone \in SUBSET {c \in Calls : entry[c] \in Owed},
        answered \in SUBSET {c \in Calls : entry[c] = "none"}, o \in Owed :
       entry' = [c \in Calls |-> IF c \in gone THEN "lost"
                                 ELSE IF c \in answered THEN o ELSE entry[c]]

\* The call is over and its slot serves another one.
Close(c) ==
  /\ entry[c] \in {"charged", "lost"}
  /\ entry' = [entry EXCEPT ![c] = "none"]
  /\ UNCHANGED faults

Next ==
  \/ \E c \in Calls : Answer(c) \/ Charge(c) \/ Drop(c) \/ Close(c)
  \/ Fault

Spec == Init /\ [][Next]_vars

=============================================================================
