----------------------------- MODULE MCHotPath -----------------------------
(* Small instances of HotPath. *)
EXTENDS HotPath

CONSTANTS q1, q2, k1

Kind(d, s, o, i, a) == [dialect |-> d, stream |-> s, optimize |-> o, idem |-> i, ask |-> a]

Message(role, text) == [role |-> role, text |-> text]
Known == [task |-> "sure", risk |-> "low", person |-> FALSE]

\* A conversation that repeats itself, and one about a sensitive task with
\* tools.
TwoAsks ==
  [plain |-> [facts |-> {}, ctx |-> Known,
              turns |-> <<Message("system", 1), Message("user", 2), Message("assistant", 3), Message("user", 2)>>],
   delicate |-> [facts |-> {"tools"}, ctx |-> [Known EXCEPT !.task = "sensitive"],
                 turns |-> <<Message("user", 1)>>]]

\* A plain optimized call with an idempotency key, the same on a delicate
\* matter, a native stream, and a stream that bypasses optimization.
FourKinds ==
  {Kind("openai", FALSE, TRUE, TRUE, "plain"), Kind("openai", FALSE, TRUE, FALSE, "delicate"),
   Kind("native", TRUE, TRUE, FALSE, "plain"), Kind("openai", TRUE, FALSE, TRUE, "plain")}

Both == {"candidate", "second"}

\* Every combination of live policies and every other state of the routing
\* row; priors for all levers or for none; a bandit that is off, or on with
\* every record of its two candidates.
SomeWorlds ==
  {[row |-> row, smart |-> smart, planned |-> TRUE, ready |-> ready, held |-> held,
    artifact |-> artifact, crossing |-> crossing, bandit |-> bandit, explore |-> explore,
    proven |-> proven, quality |-> quality] :
     row \in {r \in [Levers -> RowStates] : r["trim"] \in {"none", "in"} /\ r["compression"] \in {"none", "in"}},
     smart \in BOOLEAN, ready \in {{}, Levers}, held \in BOOLEAN, artifact \in {"missing", "other", "same"},
     crossing \in {"same", "eligible", "ineligible"}, bandit \in {"off", "active"}, explore \in {TRUE},
     proven \in [Both -> BOOLEAN], quality \in {[m \in Both |-> TRUE]}}
=============================================================================
