--------------------------- MODULE CircuitBreaker ---------------------------
(***************************************************************************)
(* The per-project circuit breaker of the proxy, as a fleet of app         *)
(* instances sees it: each instance counts failures on its own, and the    *)
(* open flag is published to an optional shared store with the reset       *)
(* window as its time to live.                                             *)
(*                                                                         *)
(* Time is counted down: wait[i] is what is left of the reset window that  *)
(* instance i's last trip started, flag what is left of the flag's TTL.    *)
(* The module has no actions of its own but the clock's: a request consults*)
(* the breaker and records its outcomes inside the steps of ForwardPath.   *)
(***************************************************************************)
EXTENDS Naturals

CONSTANTS
  Instances,   \* processes that serve this project
  Threshold,   \* settings.circuit_breaker_fail_threshold
  Reset,       \* settings.circuit_breaker_reset_seconds, in ticks
  Shared,      \* a shared store is configured (REDIS_URL)
  StoreFails   \* calls to the shared store may fail

ASSUME BreakerAssumption ==
  /\ Threshold \in Nat \ {0}
  /\ Reset \in Nat \ {0}
  /\ Shared \in BOOLEAN
  /\ StoreFails \in BOOLEAN

VARIABLES
  state,      \* state[i]: "closed", "open" or "half_open"
  failures,   \* failures[i]: failures since the last success, up to Threshold
  wait,       \* wait[i]: ticks until an open breaker lets a probe through
  flag        \* ticks until the shared open flag expires; 0 when not set

breakerVars == <<state, failures, wait, flag>>

BreakerInit ==
  /\ state = [i \in Instances |-> "closed"]
  /\ failures = [i \in Instances |-> 0]
  /\ wait = [i \in Instances |-> 0]
  /\ flag = 0

BreakerTypeOK ==
  /\ state \in [Instances -> {"closed", "open", "half_open"}]
  /\ failures \in [Instances -> 0..Threshold]
  /\ wait \in [Instances -> 0..Reset]
  /\ flag \in 0..Reset

\* Whether a call to the store takes effect: every error is swallowed.
StoreReached == IF ~Shared THEN {FALSE} ELSE IF StoreFails THEN BOOLEAN ELSE {TRUE}

\* The flag as an instance reads it: no answer from the store is "not open".
SharedOpen(reached) == reached /\ flag > 0

\* Mutant: an open breaker never half-opens.
AllowsNoProbe(i, reached) == ~SharedOpen(reached) /\ state[i] # "open"

\* allow(): a published trip refuses; an open breaker refuses until the reset
\* window is over and then turns half-open; a half-open one lets all through.
Allows(i, reached) == ~SharedOpen(reached) /\ (state[i] = "open" => wait[i] = 0)
Probed(i) == [state EXCEPT ![i] = IF @ = "open" THEN "half_open" ELSE @]

\* Mutants: the counter survives a success; the flag does.
RecordSuccessKeepsCount(i) ==
  \E reached \in StoreReached :
    /\ state' = [state EXCEPT ![i] = "closed"]
    /\ flag' = IF reached THEN 0 ELSE flag
    /\ UNCHANGED <<failures, wait>>
RecordSuccessKeepsFlag(i) ==
  /\ state' = [state EXCEPT ![i] = "closed"]
  /\ failures' = [failures EXCEPT ![i] = 0]
  /\ UNCHANGED <<wait, flag>>

\* record_success() closes from any state and withdraws the flag.
RecordSuccess(i) ==
  \E reached \in StoreReached :
    /\ state' = [state EXCEPT ![i] = "closed"]
    /\ failures' = [failures EXCEPT ![i] = 0]
    /\ flag' = IF reached THEN 0 ELSE flag
    /\ UNCHANGED wait

\* The counter saturates: the code compares it with the threshold only.
CountedFailure(i) == IF failures[i] < Threshold THEN failures[i] + 1 ELSE Threshold

\* record_failure() trips on a failed probe or at the threshold, restarts the
\* reset window even when already open, and publishes the trip.
RecordFailure(i) ==
  /\ failures' = [failures EXCEPT ![i] = CountedFailure(i)]
  /\ IF state[i] = "half_open" \/ CountedFailure(i) >= Threshold
     THEN \E reached \in StoreReached :
            /\ state' = [state EXCEPT ![i] = "open"]
            /\ wait' = [wait EXCEPT ![i] = Reset]
            /\ flag' = IF reached THEN Reset ELSE flag
     ELSE UNCHANGED <<state, wait, flag>>

\* A tick of the clock.
BreakerTick ==
  /\ flag > 0 \/ \E i \in Instances : wait[i] > 0
  /\ wait' = [i \in Instances |-> IF wait[i] > 0 THEN wait[i] - 1 ELSE 0]
  /\ flag' = IF flag > 0 THEN flag - 1 ELSE 0
  /\ UNCHANGED <<state, failures>>

-----------------------------------------------------------------------------
\* A breaker is closed exactly while it has seen fewer failures in a row than
\* the threshold; tripping, probing and late outcomes never part the two.
CountMatchesState ==
  \A i \in Instances : (state[i] = "closed") <=> (failures[i] < Threshold)

\* With a store that answers, the fleet is refused by the flag only while some
\* instance is open, and for no longer than that instance's own window.
FlagIsBacked ==
  ~StoreFails => (flag > 0 => \E i \in Instances : state[i] = "open" /\ wait[i] = flag)
=============================================================================
