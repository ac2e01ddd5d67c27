------------------------- MODULE ForwardPath_proofs -------------------------
(***************************************************************************)
(* Safety of the forward path for any number of requests and instances,    *)
(* any threshold, reset window and number of retries, with and without a   *)
(* shared store, a fallback model, and failures of the store.              *)
(*                                                                         *)
(* A step changes at most one slot and one breaker.  The proof therefore   *)
(* has two halves: what the breaker's operations keep (BreakerInv), and    *)
(* what each step makes of the slot it moves (SlotSafe).                   *)
(***************************************************************************)
EXTENDS ForwardPath, FiniteSetTheorems, TLAPS

Failing(s) == s.pc = "body" /\ s.answer = "upstream_error"

\* What holds of a slot at every await.  While a request is in flight it has
\* not been metered, and it has recorded a failure if and only if it is on the
\* fallback leg or reads the body of an error of the provider; only the attempt
\* in progress may have sent bytes, and none has while an attempt is being made
\* or waited for or an error body read.
SlotSafe(s) ==
  /\ s.served \subseteq {s.attempt}
  /\ s.pc \in {"connect", "backoff", "body"} => s.served = {}
  /\ s.pc = "backoff" => s.attempt < MaxRetries
  /\ s.pc = "body" => s.answer \in {"client_error", "upstream_error"}
  /\ s.pc # "done" => /\ s.captured = 0
                      /\ s.bad = IF s.leg = "fallback" \/ Failing(s) THEN 1 ELSE 0
                      /\ s.leg = "fallback" => s.kind = "once" /\ s.pc \notin {"stream", "body"}
  /\ s.pc = "done" =>
       /\ s.captured = IF s.answer \in {"completion", "degraded"} THEN 1 ELSE 0
       /\ s.bad \in FailuresOf(s.answer)

RequestsSafe == req \in [Requests -> Slot] /\ \A q \in Requests : SlotSafe(req[q])

\* Without a shared store nothing ever sets the flag.
BreakerInv ==
  /\ BreakerTypeOK
  /\ CountMatchesState
  /\ FlagIsBacked
  /\ ~Shared => flag = 0

ForwardInv == RequestsSafe /\ up \in BOOLEAN /\ BreakerInv

-----------------------------------------------------------------------------
(* The breaker *)

\* A fleet that has just started is closed, with no flag.
LEMMA BreakerInitSafe == BreakerInit => BreakerInv
  BY BreakerAssumption
  DEF BreakerInit, BreakerInv, BreakerTypeOK, CountMatchesState, FlagIsBacked

\* A step that records no outcome keeps the breakers safe.
LEMMA UnchangedBreaker == BreakerInv /\ UNCHANGED breakerVars => BreakerInv'
  BY DEF BreakerInv, BreakerTypeOK, CountMatchesState, FlagIsBacked, breakerVars

\* A success closes one breaker and, when the store answers, drops the flag
\* whoever published it.
LEMMA SuccessSafe ==
  ASSUME BreakerInv, NEW i \in Instances, RecordSuccess(i)
  PROVE  BreakerInv'
<1>1. PICK reached \in StoreReached :
        /\ state' = [state EXCEPT ![i] = "closed"]
        /\ failures' = [failures EXCEPT ![i] = 0]
        /\ flag' = IF reached THEN 0 ELSE flag
        /\ wait' = wait
  BY DEF RecordSuccess
<1>2. BreakerTypeOK'
  BY <1>1, BreakerAssumption DEF BreakerInv, BreakerTypeOK
<1>3. CountMatchesState'
  BY <1>1, BreakerAssumption DEF BreakerInv, BreakerTypeOK, CountMatchesState
<1>4. (~Shared => flag = 0)'
  BY <1>1 DEF BreakerInv
<1>5. ~StoreFails => flag' = 0
  BY <1>1, BreakerAssumption DEF BreakerInv, StoreReached
<1>6. FlagIsBacked'
  BY <1>5 DEF FlagIsBacked
<1> QED BY <1>2, <1>3, <1>4, <1>6 DEF BreakerInv

\* A failure that trips publishes a flag that lasts as long as the window it
\* starts; one that does not trip leaves a closed breaker below the threshold.
LEMMA FailureSafe ==
  ASSUME BreakerInv, NEW i \in Instances, RecordFailure(i)
  PROVE  BreakerInv'
<1>0. /\ failures' = [failures EXCEPT ![i] = CountedFailure(i)]
      /\ CountedFailure(i) \in 0..Threshold
      /\ failures[i] \in 0..Threshold
  BY BreakerAssumption DEF RecordFailure, CountedFailure, BreakerInv, BreakerTypeOK
<1>1. CASE state[i] = "half_open" \/ CountedFailure(i) >= Threshold
  <2>1. PICK reached \in StoreReached :
          /\ state' = [state EXCEPT ![i] = "open"]
          /\ wait' = [wait EXCEPT ![i] = Reset]
          /\ flag' = IF reached THEN Reset ELSE flag
    BY <1>1 DEF RecordFailure
  <2>2. BreakerTypeOK'
    BY <1>0, <2>1, BreakerAssumption DEF BreakerInv, BreakerTypeOK
  <2>3. CountedFailure(i) = Threshold
    BY <1>0, <1>1, BreakerAssumption
    DEF BreakerInv, BreakerTypeOK, CountMatchesState, CountedFailure
  <2>4. CountMatchesState'
    BY <1>0, <2>1, <2>3, BreakerAssumption DEF BreakerInv, BreakerTypeOK, CountMatchesState
  <2>5. (~Shared => flag = 0)'
    BY <2>1, BreakerAssumption DEF BreakerInv, StoreReached
  <2>6. FlagIsBacked'
    <3>1. CASE StoreFails \/ ~Shared
      BY <3>1, <2>5, BreakerAssumption DEF FlagIsBacked
    <3>2. CASE ~StoreFails /\ Shared
      <4>1. flag' = Reset
        BY <2>1, <3>2 DEF StoreReached
      <4> QED BY <2>1, <4>1 DEF FlagIsBacked, BreakerInv, BreakerTypeOK
    <3> QED BY <3>1, <3>2, BreakerAssumption
  <2> QED BY <2>2, <2>4, <2>5, <2>6 DEF BreakerInv
<1>2. CASE ~(state[i] = "half_open" \/ CountedFailure(i) >= Threshold)
  <2>1. state' = state /\ wait' = wait /\ flag' = flag
    BY <1>2 DEF RecordFailure
  <2>2. BreakerTypeOK'
    BY <1>0, <2>1 DEF BreakerInv, BreakerTypeOK
  <2>3. CountMatchesState'
    BY <1>0, <1>2, <2>1, BreakerAssumption
    DEF BreakerInv, BreakerTypeOK, CountMatchesState, CountedFailure
  <2> QED BY <2>1, <2>2, <2>3 DEF BreakerInv, FlagIsBacked
<1> QED BY <1>1, <1>2

\* A probe leaves an open breaker only after its window and the flag are over.
LEMMA ProbeSafe ==
  ASSUME BreakerInv, NEW i \in Instances, NEW reached \in StoreReached,
         Allows(i, reached), state' = Probed(i), UNCHANGED <<failures, wait, flag>>
  PROVE  BreakerInv'
<1>1. BreakerTypeOK'
  BY DEF BreakerInv, BreakerTypeOK, Probed
<1>2. CountMatchesState'
  BY DEF BreakerInv, BreakerTypeOK, CountMatchesState, Probed
<1>3. ASSUME ~StoreFails PROVE flag = 0
  <2>1. flag \in Nat
    BY BreakerAssumption DEF BreakerInv, BreakerTypeOK
  <2>2. CASE Shared
    <3>1. reached = TRUE
      BY <1>3, <2>2 DEF StoreReached
    <3>2. ~(flag > 0)
      BY <3>1 DEF Allows, SharedOpen
    <3> QED BY <2>1, <3>2
  <2>3. CASE ~Shared
    BY <2>3 DEF BreakerInv
  <2> QED BY <2>2, <2>3
<1> QED BY <1>1, <1>2, <1>3 DEF BreakerInv, FlagIsBacked

\* Flag and windows run down together.
LEMMA TickSafe == ASSUME BreakerInv, BreakerTick PROVE BreakerInv'
<1>1. BreakerTypeOK'
  BY BreakerAssumption DEF BreakerInv, BreakerTypeOK, BreakerTick
<1>2. CountMatchesState'
  BY DEF BreakerInv, CountMatchesState, BreakerTick
<1>3. FlagIsBacked'
  BY BreakerAssumption DEF BreakerInv, BreakerTypeOK, FlagIsBacked, BreakerTick
<1> QED BY <1>1, <1>2, <1>3 DEF BreakerInv, BreakerTick

-----------------------------------------------------------------------------
(* The requests *)

\* A step of the clock or the provider keeps the requests safe.
LEMMA UnchangedRequests == RequestsSafe /\ UNCHANGED req => RequestsSafe'
  BY DEF RequestsSafe, SlotSafe, Failing

\* A step that leaves one slot in a safe state leaves all of them so.
LEMMA SlotUpdate ==
  ASSUME RequestsSafe, NEW q \in Requests, NEW s \in Slot, SlotSafe(s),
         req' = [req EXCEPT ![q] = s]
  PROVE  RequestsSafe'
<1>1. req' \in [Requests -> Slot]
  BY DEF RequestsSafe
<1>2. \A p \in Requests : req'[p] = IF p = q THEN s ELSE req[p]
  BY DEF RequestsSafe
<1>3. ASSUME NEW p \in Requests PROVE SlotSafe(req'[p])
  <2>1. CASE p = q
    BY <1>2, <2>1
  <2>2. CASE p # q
    BY <1>2, <2>2 DEF RequestsSafe
  <2> QED BY <2>1, <2>2
<1> QED BY <1>1, <1>3 DEF RequestsSafe, SlotSafe, Failing, FailuresOf

\* A free slot answered at the door, or one admitted to the provider, is safe.
LEMMA FreshSlot ==
  ASSUME NEW i \in Instances
  PROVE  /\ FreeSlot(i) \in Slot /\ SlotSafe(FreeSlot(i))
         /\ \A a \in {"local", "circuit_open"} :
              LET s == [FreeSlot(i) EXCEPT !.answer = a] IN s \in Slot /\ SlotSafe(s)
         /\ \A kind \in Kinds :
              LET s == [FreeSlot(i) EXCEPT !.pc = "connect", !.kind = kind]
              IN s \in Slot /\ SlotSafe(s)
<1>1. FreeSlot(i) \in Slot
  BY ForwardAssumption DEF FreeSlot, Slot, Answers, AllKinds
<1>2. SlotSafe(FreeSlot(i))
  BY DEF FreeSlot, SlotSafe, Failing, FailuresOf
<1>3. ASSUME NEW a \in {"local", "circuit_open"}
      PROVE  LET s == [FreeSlot(i) EXCEPT !.answer = a] IN s \in Slot /\ SlotSafe(s)
  <2>1. [FreeSlot(i) EXCEPT !.answer = a] \in Slot
    BY <1>1 DEF Slot, Answers
  <2>2. SlotSafe([FreeSlot(i) EXCEPT !.answer = a])
    BY DEF FreeSlot, SlotSafe, Failing, FailuresOf
  <2> QED BY <2>1, <2>2
<1>4. ASSUME NEW kind \in Kinds
      PROVE  LET s == [FreeSlot(i) EXCEPT !.pc = "connect", !.kind = kind]
             IN s \in Slot /\ SlotSafe(s)
  <2>1. [FreeSlot(i) EXCEPT !.pc = "connect", !.kind = kind] \in Slot
    BY <1>1, ForwardAssumption DEF Slot
  <2>2. SlotSafe([FreeSlot(i) EXCEPT !.pc = "connect", !.kind = kind])
    BY DEF FreeSlot, SlotSafe, Failing, FailuresOf
  <2> QED BY <2>1, <2>2
<1> QED BY <1>1, <1>2, <1>3, <1>4

\* The proxy starts with free slots and closed breakers.
LEMMA InitSafe == Init => ForwardInv
<1> SUFFICES ASSUME Init PROVE ForwardInv
  OBVIOUS
<1>1. \A q \in Requests : \E i \in Instances : req[q] = FreeSlot(i)
  BY DEF Init
<1>2. \A q \in Requests : req[q] \in Slot /\ SlotSafe(req[q])
  BY <1>1, FreshSlot
<1>3. req \in [Requests -> Slot]
  BY <1>2 DEF Init
<1> QED BY <1>2, <1>3, BreakerInitSafe DEF Init, ForwardInv, RequestsSafe

\* Admission: a refused or locally answered request ends where it began.
LEMMA AdmissionSafe ==
  ASSUME ForwardInv, NEW q \in Requests, NEW i \in Instances,
         ServeLocally(q, i) \/ \E kind \in Kinds : Arrive(q, i, kind)
  PROVE  ForwardInv'
<1>1. CASE ServeLocally(q, i)
  <2>1. RequestsSafe'
    BY <1>1, FreshSlot, SlotUpdate DEF ServeLocally, ForwardInv
  <2> QED BY <1>1, <2>1, UnchangedBreaker DEF ServeLocally, ForwardInv
<1>2. ASSUME NEW kind \in Kinds, Arrive(q, i, kind) PROVE ForwardInv'
  <2>1. PICK reached \in StoreReached :
          IF Allows(i, reached)
          THEN /\ req' = [req EXCEPT ![q] =
                            [FreeSlot(i) EXCEPT !.pc = "connect", !.kind = kind]]
               /\ state' = Probed(i)
          ELSE /\ req' = [req EXCEPT ![q] = [FreeSlot(i) EXCEPT !.answer = "circuit_open"]]
               /\ UNCHANGED state
    BY <1>2 DEF Arrive
  <2>2. UNCHANGED <<up, failures, wait, flag>>
    BY <1>2 DEF Arrive
  <2>3. CASE Allows(i, reached)
    <3>1. RequestsSafe'
      BY <2>1, <2>3, FreshSlot, SlotUpdate DEF ForwardInv
    <3>2. BreakerInv'
      BY <2>1, <2>2, <2>3, ProbeSafe DEF ForwardInv
    <3> QED BY <2>2, <3>1, <3>2 DEF ForwardInv
  <2>4. CASE ~Allows(i, reached)
    <3>1. RequestsSafe'
      BY <2>1, <2>4, FreshSlot, SlotUpdate DEF ForwardInv
    <3>2. BreakerInv'
      BY <2>1, <2>2, <2>4, UnchangedBreaker DEF ForwardInv, breakerVars
    <3> QED BY <2>2, <3>1, <3>2 DEF ForwardInv
  <2> QED BY <2>3, <2>4
<1> QED BY <1>1, <1>2

\* How often each answer may have counted against the breaker.
LEMMA FailureCounts ==
  /\ 0 \in FailuresOf("completion") /\ 0 \in FailuresOf("client_error")
  /\ 1 \in FailuresOf("degraded") /\ 1 \in FailuresOf("upstream_error")
  /\ 1 \in FailuresOf("broken_stream") /\ 2 \in FailuresOf("broken_stream")
  /\ \A a \in {"local", "circuit_open", "disconnected", "server_error"} :
       0 \in FailuresOf(a) /\ 1 \in FailuresOf(a)
  BY DEF FailuresOf

\* What an attempt, its retry or the end of the request makes of its slot.
LEMMA StepSlot ==
  ASSUME RequestsSafe, NEW q \in Requests, Progress(q) \/ Disconnect(q)
  PROVE  \E s \in Slot : SlotSafe(s) /\ req' = [req EXCEPT ![q] = s]
<1> DEFINE r == req[q]
<1>1. r \in Slot /\ SlotSafe(r)
  BY DEF RequestsSafe
<1>c. r.ok + 1 \in Nat /\ r.bad + 1 \in Nat /\ r.captured + 1 \in Nat /\ r.captured + 0 \in Nat
  <2>1. r.ok \in Nat /\ r.bad \in Nat /\ r.captured \in Nat
    BY <1>1 DEF Slot
  <2> QED BY <2>1
<1>2. CASE \E parsed \in BOOLEAN : Respond(q, parsed)
  <2>1. PICK parsed \in BOOLEAN : Respond(q, parsed)
    BY <1>2
  <2> DEFINE a == IF r.leg = "fallback" THEN "degraded" ELSE "completion"
  <2>2. CASE parsed
    <3> DEFINE t == [r EXCEPT !.pc = "done", !.answer = a, !.ok = @ + 1, !.captured = @ + 1]
    <3>1. t \in Slot /\ SlotSafe(t)
      <4>1. t \in Slot
        BY <1>1, <2>1, <1>c DEF Respond, Slot, Answers
      <4>2. SlotSafe(t)
        BY <1>1, <2>1 DEF Respond, Slot, SlotSafe, Failing, FailuresOf, Answers
      <4> QED BY <4>1, <4>2
    <3>2. req' = [req EXCEPT ![q] = t]
      BY <2>1, <2>2 DEF Respond, Done
    <3> QED BY <3>1, <3>2
  <2>3. CASE ~parsed
    <3> DEFINE t == [r EXCEPT !.pc = "done", !.answer = "server_error", !.ok = @ + 1,
                              !.captured = @ + 0]
    <3>1. t \in Slot /\ SlotSafe(t)
      <4>1. t \in Slot
        BY <1>1, <2>1, <1>c DEF Respond, Slot, Answers
      <4>2. SlotSafe(t)
        BY <1>1, <2>1 DEF Respond, Slot, SlotSafe, Failing, FailuresOf, Answers
      <4> QED BY <4>1, <4>2
    <3>2. req' = [req EXCEPT ![q] = t]
      BY <2>1, <2>3 DEF Respond, Done
    <3> QED BY <3>1, <3>2
  <2> QED BY <2>2, <2>3
<1>3. CASE RejectRequest(q)
  <2>1. CASE r.leg = "fallback"
    <3> DEFINE t == Done(q, "upstream_error")
    <3>1. t \in Slot /\ SlotSafe(t)
      <4>1. t \in Slot
        BY <1>1, <1>3, <1>c DEF RejectRequest, Done, Slot, Answers
      <4>2. SlotSafe(t)
        <5>1. r.bad = 1 /\ r.captured = 0 /\ r.served = {}
          BY <1>1, <1>3, <2>1 DEF RejectRequest, SlotSafe
        <5>2. /\ t.pc = "done" /\ t.answer = "upstream_error" /\ t.served = {}
              /\ t.bad = 1 /\ t.captured = 0
          BY <1>1, <5>1 DEF Done, Slot
        <5> QED BY <5>2, FailureCounts DEF SlotSafe
      <4> QED BY <4>1, <4>2
    <3>2. req' = [req EXCEPT ![q] = t]
      BY <1>3, <2>1 DEF RejectRequest
    <3> QED BY <3>1, <3>2
  <2>2. CASE r.leg # "fallback"
    <3>0. PICK pc \in {"body", "done"} :
            req' = [req EXCEPT ![q] = [r EXCEPT !.pc = pc, !.answer = "client_error", !.ok = @ + 1]]
      <4>1. CASE r.kind \in Streams
        <5>1. [AwaitBody(q, "client_error") EXCEPT !.ok = @ + 1]
                = [r EXCEPT !.pc = "body", !.answer = "client_error", !.ok = @ + 1]
          BY <1>1 DEF AwaitBody, Slot
        <5> QED BY <1>3, <2>2, <4>1, <5>1 DEF RejectRequest
      <4>2. CASE r.kind \notin Streams
        <5>1. [Done(q, "client_error") EXCEPT !.ok = @ + 1]
                = [r EXCEPT !.pc = "done", !.answer = "client_error", !.ok = @ + 1]
          BY <1>1 DEF Done, Slot
        <5> QED BY <1>3, <2>2, <4>2, <5>1 DEF RejectRequest
      <4> QED BY <4>1, <4>2
    <3> DEFINE t == [r EXCEPT !.pc = pc, !.answer = "client_error", !.ok = @ + 1]
    <3>1. t \in Slot /\ SlotSafe(t)
      <4>1. t \in Slot
        BY <1>1, <1>c DEF Slot, Answers
      <4>2. SlotSafe(t)
        <5>1. r.bad = 0 /\ r.captured = 0 /\ r.served = {} /\ r.leg # "fallback"
          BY <1>1, <1>3, <2>2 DEF RejectRequest, SlotSafe, Failing
        <5>2. /\ t.pc = pc /\ t.answer = "client_error" /\ t.served = {}
              /\ t.bad = 0 /\ t.captured = 0 /\ t.leg # "fallback"
          BY <1>1, <5>1 DEF Slot
        <5> QED BY <5>2, FailureCounts DEF SlotSafe, Failing
      <4> QED BY <4>1, <4>2
    <3> QED BY <3>0, <3>1
  <2> QED BY <2>1, <2>2
<1>4. CASE RetryAttempt(q) \/ RetryStream(q)
  <2>0. PICK a \in {r.answer, "none"} :
          req' = [req EXCEPT ![q] = [r EXCEPT !.pc = "backoff", !.answer = a]]
    <3>1. CASE RetryAttempt(q)
      <4>1. [r EXCEPT !.pc = "backoff", !.answer = r.answer] = [r EXCEPT !.pc = "backoff"]
        BY <1>1 DEF Slot
      <4> QED BY <3>1, <4>1 DEF RetryAttempt
    <3>2. CASE RetryStream(q)
      BY <3>2 DEF RetryStream
    <3> QED BY <1>4, <3>1, <3>2
  <2> DEFINE t == [r EXCEPT !.pc = "backoff", !.answer = a]
  <2>1. /\ r.attempt < MaxRetries /\ r.served = {} /\ r.pc # "done" /\ ~Failing(r)
        /\ r.answer \in Answers
    BY <1>1, <1>4, ForwardAssumption
    DEF RetryAttempt, RetryStream, CanRetry, Retries, Slot, SlotSafe, Failing
  <2>2. t \in Slot /\ SlotSafe(t)
    <3>1. t \in Slot
      BY <1>1, <2>1, <1>c DEF Slot, Answers
    <3>2. SlotSafe(t)
      BY <1>1, <2>1 DEF Slot, SlotSafe, Failing
    <3> QED BY <3>1, <3>2
  <2> QED BY <2>0, <2>2
<1>5. CASE Wake(q)
  <2> DEFINE t == [r EXCEPT !.pc = "connect", !.attempt = @ + 1]
  <2>1. r.attempt + 1 \in 0..MaxRetries
    BY <1>1, <1>5, ForwardAssumption DEF Wake, Slot, SlotSafe, Failing, FailuresOf
  <2>2. t \in Slot /\ SlotSafe(t)
    <3>1. t \in Slot
      BY <1>1, <1>5, <2>1, <1>c DEF Wake, Slot
    <3>2. SlotSafe(t)
      BY <1>1, <1>5, <2>1 DEF Wake, Slot, SlotSafe, Failing, FailuresOf
    <3> QED BY <3>1, <3>2
  <2>3. req' = [req EXCEPT ![q] = t]
    BY <1>5 DEF Wake
  <2> QED BY <2>2, <2>3
<1>6. CASE GiveUp(q)
  <2>1. CASE Fallback /\ r.kind = "once"
    <3> DEFINE t == [r EXCEPT !.leg = "fallback", !.attempt = 0, !.bad = @ + 1]
    <3>1. t \in Slot /\ SlotSafe(t)
      <4>0. 0 \in 0..MaxRetries
        BY ForwardAssumption
      <4>1. t \in Slot
        BY <1>1, <1>c, <4>0 DEF Slot
      <4>2. SlotSafe(t)
        BY <1>1, <1>6, <2>1 DEF GiveUp, Slot, SlotSafe, Failing, FailuresOf
      <4> QED BY <4>1, <4>2
    <3>2. req' = [req EXCEPT ![q] = t]
      BY <1>6, <2>1 DEF GiveUp
    <3> QED BY <3>1, <3>2
  <2>2. CASE ~(Fallback /\ r.kind = "once")
    <3> DEFINE t == [Done(q, "upstream_error") EXCEPT !.bad = @ + 1]
    <3>1. t \in Slot /\ SlotSafe(t)
      <4>1. t \in Slot
        BY <1>1, <1>6, <1>c DEF GiveUp, Done, Slot, Answers
      <4>2. SlotSafe(t)
        BY <1>1, <1>6 DEF GiveUp, Done, Slot, SlotSafe, Failing, FailuresOf, Answers
      <4> QED BY <4>1, <4>2
    <3>2. req' = [req EXCEPT ![q] = t]
      BY <1>6, <2>2 DEF GiveUp
    <3> QED BY <3>1, <3>2
  <2> QED BY <2>1, <2>2
<1>7. CASE GiveUpFallback(q) \/ Disconnect(q)
  <2>1. PICK a \in {"upstream_error", "disconnected"} :
          /\ req' = [req EXCEPT ![q] = Done(q, a)]
          /\ a = "upstream_error" => r.leg = "fallback" /\ r.pc = "connect"
          /\ r.pc # "done"
    BY <1>7 DEF GiveUpFallback, Disconnect
  <2>2. Done(q, a) \in Slot /\ SlotSafe(Done(q, a))
    <3>1. Done(q, a) \in Slot
      BY <1>1 DEF Done, Slot, Answers
    <3>2. /\ r.captured = 0 /\ r.served \subseteq {r.attempt}
          /\ r.bad \in {0, 1} /\ (a = "upstream_error" => r.bad = 1)
      BY <1>1, <2>1 DEF SlotSafe
    <3>3. LET t == Done(q, a)
          IN /\ t.pc = "done" /\ t.answer = a /\ t.captured = 0
             /\ t.served = r.served /\ t.attempt = r.attempt /\ t.bad = r.bad
      BY <1>1, <3>2 DEF Done, Slot
    <3> QED BY <3>1, <3>2, <3>3, FailureCounts DEF SlotSafe
  <2> QED BY <2>1, <2>2
<1>8. CASE OpenStream(q)
  <2> DEFINE t == [r EXCEPT !.pc = "stream", !.ok = @ + 1]
  <2>1. t \in Slot /\ SlotSafe(t)
    <3>1. t \in Slot
      BY <1>1, <1>8, <1>c DEF OpenStream, Slot, Streams
    <3>2. SlotSafe(t)
      BY <1>1, <1>8 DEF OpenStream, Slot, SlotSafe, Failing, FailuresOf, Streams
    <3> QED BY <3>1, <3>2
  <2>2. req' = [req EXCEPT ![q] = t]
    BY <1>8 DEF OpenStream
  <2> QED BY <2>1, <2>2
<1>9. CASE Chunk(q)
  <2> DEFINE t == [r EXCEPT !.served = @ \cup {r.attempt}]
  <2>1. t \in Slot /\ SlotSafe(t)
    <3>1. t \in Slot
      BY <1>1, <1>9, <1>c DEF Chunk, Slot
    <3>2. SlotSafe(t)
      BY <1>1, <1>9 DEF Chunk, Slot, SlotSafe, Failing, FailuresOf
    <3> QED BY <3>1, <3>2
  <2>2. req' = [req EXCEPT ![q] = t]
    BY <1>9 DEF Chunk
  <2> QED BY <2>1, <2>2
<1>10. CASE BreakStream(q)
  <2> DEFINE t == [Done(q, "broken_stream") EXCEPT !.bad = @ + 1, !.served = @ \cup {r.attempt}]
  <2>1. t \in Slot /\ SlotSafe(t)
    <3>1. t \in Slot
      BY <1>1, <1>10, <1>c DEF BreakStream, Done, Slot, Answers
    <3>2. SlotSafe(t)
      BY <1>1, <1>10 DEF BreakStream, Done, Slot, SlotSafe, Failing, FailuresOf, Answers
    <3> QED BY <3>1, <3>2
  <2>2. req' = [req EXCEPT ![q] = t]
    BY <1>10 DEF BreakStream
  <2> QED BY <2>1, <2>2
<1>11. CASE EndStream(q)
  <2> DEFINE t == [Done(q, "completion") EXCEPT !.captured = @ + 1]
  <2>1. t \in Slot /\ SlotSafe(t)
    <3>1. t \in Slot
      BY <1>1, <1>11, <1>c DEF EndStream, Done, Slot, Answers
    <3>2. SlotSafe(t)
      BY <1>1, <1>11 DEF EndStream, Done, Slot, SlotSafe, Failing, FailuresOf, Answers
    <3> QED BY <3>1, <3>2
  <2>2. req' = [req EXCEPT ![q] = t]
    BY <1>11 DEF EndStream
  <2> QED BY <2>1, <2>2
<1>12. CASE FailStream(q)
  <2> DEFINE t == [AwaitBody(q, "upstream_error") EXCEPT !.bad = @ + 1]
  <2>1. t \in Slot /\ SlotSafe(t)
    <3>1. t \in Slot
      BY <1>1, <1>12, <1>c DEF FailStream, AwaitBody, Slot, Answers
    <3>2. SlotSafe(t)
      BY <1>1, <1>12 DEF FailStream, AwaitBody, Slot, SlotSafe, Failing, Streams
    <3> QED BY <3>1, <3>2
  <2>2. req' = [req EXCEPT ![q] = t]
    BY <1>12 DEF FailStream
  <2> QED BY <2>1, <2>2
<1>13. CASE RelayBody(q)
  <2> DEFINE t == [Done(q, r.answer) EXCEPT !.served = @ \cup {r.attempt}]
  <2>1. t \in Slot /\ SlotSafe(t)
    <3>1. t \in Slot
      BY <1>1, <1>13, <1>c DEF RelayBody, Done, Slot
    <3>2. SlotSafe(t)
      <4>1. /\ r.pc = "body" /\ r.captured = 0 /\ r.served = {} /\ r.leg # "fallback"
            /\ r.answer \in {"client_error", "upstream_error"}
            /\ r.bad = IF r.answer = "upstream_error" THEN 1 ELSE 0
        BY <1>1, <1>13 DEF RelayBody, SlotSafe, Failing
      <4>2. /\ t.pc = "done" /\ t.answer = r.answer /\ t.captured = 0
            /\ t.served = {t.attempt} /\ t.bad = r.bad
        BY <1>1, <4>1 DEF Done, Slot
      <4> QED BY <4>1, <4>2, FailureCounts DEF SlotSafe
    <3> QED BY <3>1, <3>2
  <2>2. req' = [req EXCEPT ![q] = t]
    BY <1>13 DEF RelayBody
  <2> QED BY <2>1, <2>2
<1> QED BY <1>2, <1>3, <1>4, <1>5, <1>6, <1>7, <1>8, <1>9, <1>10, <1>11, <1>12, <1>13 DEF Progress

\* A step of a request records at most one outcome on its instance's breaker.
LEMMA StepOutcome ==
  ASSUME NEW q \in Requests, Progress(q) \/ Disconnect(q)
  PROVE  /\ up' = up
         /\ RecordSuccess(req[q].inst) \/ RecordFailure(req[q].inst) \/ UNCHANGED breakerVars
  BY DEF Progress, Disconnect, Respond, RejectRequest, RetryAttempt, Wake, GiveUp,
         GiveUpFallback, FailStream, OpenStream, Chunk, RetryStream, RelayBody, BreakStream,
         EndStream

\* Every step of a request, the clock and the provider keeps the invariant.
LEMMA NextSafe == ForwardInv /\ [Next]_vars => ForwardInv'
<1> SUFFICES ASSUME ForwardInv, [Next]_vars PROVE ForwardInv'
  OBVIOUS
<1>1. ASSUME NEW q \in Requests, Progress(q) \/ Disconnect(q) PROVE ForwardInv'
  <2>1. RequestsSafe'
    BY <1>1, StepSlot, SlotUpdate DEF ForwardInv
  <2>2. req[q].inst \in Instances
    BY DEF ForwardInv, RequestsSafe, Slot
  <2>3. BreakerInv'
    BY <1>1, <2>2, StepOutcome, SuccessSafe, FailureSafe, UnchangedBreaker DEF ForwardInv
  <2> QED BY <1>1, <2>1, <2>3, StepOutcome DEF ForwardInv
<1>2. CASE Tick
  BY <1>2, TickSafe, UnchangedRequests DEF Tick, ForwardInv
<1>3. ASSUME NEW b \in BOOLEAN, SetUp(b) PROVE ForwardInv'
  BY <1>3, UnchangedBreaker, UnchangedRequests DEF SetUp, ForwardInv
<1>4. CASE UNCHANGED vars
  BY <1>4, UnchangedBreaker, UnchangedRequests DEF vars, ForwardInv
<1>5. ASSUME NEW i \in Instances, ArriveAt(i) \/ \E q \in Requests : ServeLocally(q, i)
      PROVE  ForwardInv'
  BY <1>5, AdmissionSafe DEF ArriveAt
<1> QED BY <1>1, <1>2, <1>3, <1>4, <1>5 DEF Next

\* The inductive invariant holds in every reachable state.
LEMMA ForwardInvariant == Spec => []ForwardInv
  BY InitSafe, NextSafe, PTL DEF Spec

-----------------------------------------------------------------------------
(* The theorems *)

\* Every slot and every breaker keeps its type: no request makes more than
\* MaxRetries retries on a leg, and no window outlasts Reset.
THEOREM ForwardTypeCorrect == Spec => []TypeOK
<1>1. ForwardInv => TypeOK
  BY DEF ForwardInv, RequestsSafe, BreakerInv, TypeOK
<1> QED BY <1>1, ForwardInvariant, PTL

\* A breaker of circuit.py is closed exactly while it has counted fewer
\* failures in a row than the threshold, late outcomes of any number of
\* concurrent requests included.
THEOREM CountTracksState == Spec => []CountMatchesState
<1>1. ForwardInv => CountMatchesState
  BY DEF ForwardInv, BreakerInv
<1> QED BY <1>1, ForwardInvariant, PTL

\* While the shared store answers, its open flag is never stale: some
\* instance's breaker is open with exactly the flag's time left.
THEOREM FlagNeverStale == Spec => []FlagIsBacked
<1>1. ForwardInv => FlagIsBacked
  BY DEF ForwardInv, BreakerInv
<1> QED BY <1>1, ForwardInvariant, PTL

\* No client is sent bytes of two attempts, however often the proxy retries.
THEOREM NoMixedAttempts == Spec => []OneAttemptServed
<1>1. ASSUME ForwardInv, NEW q \in Requests PROVE Cardinality(req[q].served) <= 1
  <2>1. req[q].served = {} \/ req[q].served = {req[q].attempt}
    BY <1>1 DEF ForwardInv, RequestsSafe, SlotSafe
  <2>2. CASE req[q].served = {}
    BY <2>2, FS_EmptySet
  <2>3. CASE req[q].served = {req[q].attempt}
    <3>1. Cardinality({req[q].attempt}) = 1
      BY FS_Singleton
    <3> QED BY <2>3, <3>1
  <2> QED BY <2>1, <2>2, <2>3
<1>2. ForwardInv => OneAttemptServed
  BY <1>1 DEF OneAttemptServed
<1> QED BY <1>2, ForwardInvariant, PTL

\* What a request has counted on the breaker is fixed by the answer its client
\* got, over all of its attempts, its stream and its fallback: none, one, or the
\* second one of a stream whose error body did not come.
THEOREM FailuresAccounted == Spec => []FailuresMatchAnswer
<1>1. ForwardInv => FailuresMatchAnswer
  BY DEF ForwardInv, RequestsSafe, SlotSafe, FailuresMatchAnswer
<1> QED BY <1>1, ForwardInvariant, PTL

\* The usage of a request is captured once when its answer reached the client
\* whole, and never otherwise.
THEOREM CapturedExactlyOnce == Spec => []MeteredOnce
<1>1. ForwardInv => MeteredOnce
  BY DEF ForwardInv, RequestsSafe, SlotSafe, MeteredOnce
<1> QED BY <1>1, ForwardInvariant, PTL
=============================================================================
