---------------------------- MODULE ForwardPath ----------------------------
(***************************************************************************)
(* A request on the paid forward path of the proxy: the circuit breaker's  *)
(* verdict, the attempts on the provider, backoff and retry, the fallback  *)
(* model, streaming, and the outcomes recorded on the breaker.             *)
(*                                                                         *)
(* Each step ends where the handler awaits: the provider's answer, a chunk,*)
(* a backoff sleep.  What the provider does is the environment's choice;   *)
(* requests are slots, reused once answered.  A deadline is a choice: the  *)
(* retry budget may be spent at any failed attempt.                        *)
(***************************************************************************)
EXTENDS CircuitBreaker, FiniteSets

CONSTANTS
  Requests,     \* request slots
  Kinds,        \* kinds of request in this instance
  MaxRetries,   \* settings.proxy_retry_max_attempts
  Fallback      \* a degradation model other than the failed one is configured

\* The OpenAI dialect retries and can fall back; native passthrough does not.
AllKinds == {"once", "stream", "native_once", "native_stream"}
Streams == {"stream", "native_stream"}
Native == {"native_once", "native_stream"}

ASSUME ForwardAssumption ==
  /\ Kinds \subseteq AllKinds
  /\ MaxRetries \in Nat
  /\ Fallback \in BOOLEAN

Answers == {"none", "local", "circuit_open", "completion", "degraded", "client_error",
            "upstream_error", "broken_stream", "server_error", "disconnected"}

VARIABLES
  req,   \* req[q]: the state of a slot
  up     \* the provider is healthy

vars == <<req, up, breakerVars>>

\* leg: the model asked for or the fallback model.  served: attempts whose
\* bytes the client has seen.  ok, bad: outcomes recorded on the breaker.  In
\* "body" the outcome of a stream's error status is recorded, the answer is
\* chosen and its body still to be read.
Slot == [pc : {"done", "connect", "backoff", "stream", "body"}, inst : Instances, kind : AllKinds,
         leg : {"primary", "fallback"}, attempt : 0..MaxRetries,
         served : SUBSET (0..MaxRetries), ok : Nat, bad : Nat,
         captured : Nat, answer : Answers]

FreeSlot(i) == [pc |-> "done", inst |-> i, kind |-> "once", leg |-> "primary",
                attempt |-> 0, served |-> {}, ok |-> 0, bad |-> 0, captured |-> 0,
                answer |-> "none"]

Init ==
  /\ req \in [Requests -> {FreeSlot(i) : i \in Instances}]
  /\ up = TRUE
  /\ BreakerInit

-----------------------------------------------------------------------------
(* Admission *)

\* Answered before the breaker is consulted: rate limit, missing provider
\* key, cache hit, exhausted budget cap.
ServeLocally(q, i) ==
  /\ req[q].pc = "done"
  /\ req' = [req EXCEPT ![q] = [FreeSlot(i) EXCEPT !.answer = "local"]]
  /\ UNCHANGED <<up, breakerVars>>

\* The paid forward path: the breaker admits the request or fails it fast.
Arrive(q, i, kind) ==
  /\ req[q].pc = "done"
  /\ \E reached \in StoreReached :
       IF Allows(i, reached)
       THEN /\ req' = [req EXCEPT ![q] =
                         [FreeSlot(i) EXCEPT !.pc = "connect", !.kind = kind]]
            /\ state' = Probed(i)
       ELSE /\ req' = [req EXCEPT ![q] = [FreeSlot(i) EXCEPT !.answer = "circuit_open"]]
            /\ UNCHANGED state
  /\ UNCHANGED <<up, failures, wait, flag>>

-----------------------------------------------------------------------------
(* Attempts *)

Done(q, a) == [req[q] EXCEPT !.pc = "done", !.answer = a]
Retries(q) == IF req[q].kind \in Native THEN 0 ELSE MaxRetries

\* Mutant: one attempt too many.
CanRetryOnceMore(q) == req[q].attempt <= Retries(q)

CanRetry(q) == req[q].attempt < Retries(q)

\* 200 on a non-streaming call: success, and the usage is captured, unless the
\* body cannot be parsed.  A fallback answer is marked as degraded.
Respond(q, parsed) ==
  LET a == IF req[q].leg = "fallback" THEN "degraded" ELSE "completion"
  IN /\ req[q].pc = "connect"
     /\ req[q].kind \notin Streams
     /\ req' = [req EXCEPT ![q] =
          [Done(q, IF parsed THEN a ELSE "server_error")
             EXCEPT !.ok = @ + 1, !.captured = @ + (IF parsed THEN 1 ELSE 0)]]
     /\ RecordSuccess(req[q].inst)
     /\ UNCHANGED up

AwaitBody(q, a) == [req[q] EXCEPT !.pc = "body", !.answer = a]

\* A 4xx other than 429 is the client's mistake: relayed, and the provider
\* counts as healthy; a stream has yet to read the body it relays.  On the
\* fallback leg it relays the primary's error.
RejectRequest(q) ==
  /\ req[q].pc = "connect"
  /\ IF req[q].leg = "fallback"
     THEN /\ req' = [req EXCEPT ![q] = Done(q, "upstream_error")]
          /\ UNCHANGED breakerVars
     ELSE /\ req' = [req EXCEPT ![q] =
               [IF req[q].kind \in Streams THEN AwaitBody(q, "client_error")
                                           ELSE Done(q, "client_error")
                  EXCEPT !.ok = @ + 1]]
          /\ RecordSuccess(req[q].inst)
  /\ UNCHANGED up

\* Mutant: every failed attempt counts against the breaker.
RetryAttemptCounts(q) ==
  /\ ~up
  /\ req[q].pc = "connect"
  /\ CanRetry(q)
  /\ req' = [req EXCEPT ![q] = [req[q] EXCEPT !.pc = "backoff", !.bad = @ + 1]]
  /\ RecordFailure(req[q].inst)
  /\ UNCHANGED up

\* Connect error, 429 or 5xx with a retry left inside the budget.
RetryAttempt(q) ==
  /\ ~up
  /\ req[q].pc = "connect"
  /\ CanRetry(q)
  /\ req' = [req EXCEPT ![q].pc = "backoff"]
  /\ UNCHANGED <<up, breakerVars>>

\* Mutant: the attempt is not counted.
WakeSameAttempt(q) ==
  /\ req[q].pc = "backoff"
  /\ req' = [req EXCEPT ![q].pc = "connect"]
  /\ UNCHANGED <<up, breakerVars>>

Wake(q) ==
  /\ req[q].pc = "backoff"
  /\ req' = [req EXCEPT ![q] = [req[q] EXCEPT !.pc = "connect", !.attempt = @ + 1]]
  /\ UNCHANGED <<up, breakerVars>>

\* The primary's last attempt failed: one failure, then the fallback leg when
\* there is one (never for a stream), else the error goes to the client.
GiveUp(q) ==
  /\ ~up
  /\ req[q].pc = "connect"
  /\ req[q].leg = "primary"
  /\ req[q].kind \notin Streams
  /\ req' = [req EXCEPT ![q] =
       IF Fallback /\ req[q].kind = "once"
       THEN [req[q] EXCEPT !.leg = "fallback", !.attempt = 0, !.bad = @ + 1]
       ELSE [Done(q, "upstream_error") EXCEPT !.bad = @ + 1]]
  /\ RecordFailure(req[q].inst)
  /\ UNCHANGED up

\* A stream's last attempt was answered by an error status: the failure is
\* recorded before the body that goes to the client is read.
FailStream(q) ==
  /\ ~up
  /\ req[q].pc = "connect"
  /\ req[q].kind \in Streams
  /\ req' = [req EXCEPT ![q] = [AwaitBody(q, "upstream_error") EXCEPT !.bad = @ + 1]]
  /\ RecordFailure(req[q].inst)
  /\ UNCHANGED up

\* The fallback failed too: the primary's error is relayed and the breaker,
\* which has its failure already, is left alone.
GiveUpFallback(q) ==
  /\ ~up
  /\ req[q].pc = "connect"
  /\ req[q].leg = "fallback"
  /\ req' = [req EXCEPT ![q] = Done(q, "upstream_error")]
  /\ UNCHANGED <<up, breakerVars>>

-----------------------------------------------------------------------------
(* Streaming *)

\* 200 on a streaming call is a success before any byte has arrived.
OpenStream(q) ==
  /\ req[q].pc = "connect"
  /\ req[q].kind \in Streams
  /\ req' = [req EXCEPT ![q] = [req[q] EXCEPT !.pc = "stream", !.ok = @ + 1]]
  /\ RecordSuccess(req[q].inst)
  /\ UNCHANGED up

Chunk(q) ==
  /\ req[q].pc = "stream"
  /\ req[q].attempt \notin req[q].served
  /\ req' = [req EXCEPT ![q].served = @ \cup {req[q].attempt}]
  /\ UNCHANGED <<up, breakerVars>>

\* Mutant: the stream is retried whatever the client has already received.
RetryAnyStream(q) ==
  /\ ~up
  /\ req[q].pc = "stream"
  /\ CanRetry(q)
  /\ req' = [req EXCEPT ![q].pc = "backoff"]
  /\ UNCHANGED <<up, breakerVars>>

\* A stream that breaks before its first byte may be tried again, the body of
\* a 4xx too; after a 5xx or 429 the attempts or the budget are already spent.
RetryStream(q) ==
  /\ ~up
  /\ \/ req[q].pc = "stream"
     \/ req[q].pc = "body" /\ req[q].answer = "client_error"
  /\ req[q].served = {}
  /\ CanRetry(q)
  /\ req' = [req EXCEPT ![q] = [req[q] EXCEPT !.pc = "backoff", !.answer = "none"]]
  /\ UNCHANGED <<up, breakerVars>>

\* The body of the error has arrived and goes to the client as bytes.
RelayBody(q) ==
  /\ req[q].pc = "body"
  /\ req' = [req EXCEPT ![q] =
       [Done(q, req[q].answer) EXCEPT !.served = @ \cup {req[q].attempt}]]
  /\ UNCHANGED <<up, breakerVars>>

\* Mutant: a cut-off stream is metered as well.
BreakStreamMetered(q) ==
  /\ ~up
  /\ req[q].pc = "stream"
  /\ req' = [req EXCEPT ![q] = [Done(q, "broken_stream") EXCEPT
               !.bad = @ + 1, !.captured = @ + 1, !.served = @ \cup {req[q].attempt}]]
  /\ RecordFailure(req[q].inst)
  /\ UNCHANGED up

\* No connection, a broken or timed-out stream, an error body that does not
\* come: it ends in an error event and counts as a failure, whatever this
\* attempt has recorded before.
BreakStream(q) ==
  /\ ~up
  /\ req[q].pc \in {"connect", "stream", "body"} /\ req[q].kind \in Streams
  /\ req' = [req EXCEPT ![q] = [Done(q, "broken_stream") EXCEPT
               !.bad = @ + 1, !.served = @ \cup {req[q].attempt}]]
  /\ RecordFailure(req[q].inst)
  /\ UNCHANGED up

\* The stream is complete; its usage is captured after the last byte.
EndStream(q) ==
  /\ req[q].pc = "stream"
  /\ req' = [req EXCEPT ![q] = [Done(q, "completion") EXCEPT !.captured = @ + 1]]
  /\ UNCHANGED <<up, breakerVars>>

\* The client hangs up: a streaming generator is cancelled where it waits.
Disconnect(q) ==
  /\ req[q].pc # "done"
  /\ req[q].kind \in Streams
  /\ req' = [req EXCEPT ![q] = Done(q, "disconnected")]
  /\ UNCHANGED <<up, breakerVars>>

-----------------------------------------------------------------------------
Tick == BreakerTick /\ UNCHANGED <<req, up>>

\* External: the provider fails and recovers.
SetUp(b) == up # b /\ up' = b /\ UNCHANGED <<req, breakerVars>>

ArriveAt(i) ==
  \E q \in Requests, kind \in Kinds : Arrive(q, i, kind)

Progress(q) ==
  \/ \E parsed \in BOOLEAN : Respond(q, parsed)
  \/ RejectRequest(q) \/ RetryAttempt(q) \/ Wake(q) \/ GiveUp(q) \/ GiveUpFallback(q)
  \/ FailStream(q) \/ OpenStream(q) \/ Chunk(q) \/ RetryStream(q) \/ RelayBody(q)
  \/ BreakStream(q) \/ EndStream(q)

Next ==
  \/ \E i \in Instances : ArriveAt(i) \/ \E q \in Requests : ServeLocally(q, i)
  \/ \E q \in Requests : Progress(q) \/ Disconnect(q)
  \/ Tick
  \/ \E b \in BOOLEAN : SetUp(b)

Spec == Init /\ [][Next]_vars

\* Every await has a timeout, a stream a total one as well, and time passes.
FairSpec == Spec /\ WF_vars(Tick) /\ \A q \in Requests : WF_vars(Progress(q))

-----------------------------------------------------------------------------
\* Slots and breakers keep their shape: no attempt beyond MaxRetries, no
\* failure count beyond the threshold, no window longer than Reset.
TypeOK == req \in [Requests -> Slot] /\ up \in BOOLEAN /\ BreakerTypeOK

\* The client never receives bytes of two attempts: a retry or a fallback
\* after the first byte would duplicate or corrupt the completion.
OneAttemptServed == \A q \in Requests : Cardinality(req[q].served) <= 1

\* What a request has counted against the breaker follows from what its client
\* got, however many attempts failed on the way: nothing for an answer of the
\* provider, once for an error it relays and for a rescue by the fallback
\* model.  Only a stream that ends in the proxy's own error event can count
\* twice: when its error status was recorded and the body then failed to come.
FailuresOf(answer) ==
  CASE answer \in {"completion", "client_error"} -> {0}
    [] answer \in {"degraded", "upstream_error"} -> {1}
    [] answer = "broken_stream" -> {1, 2}
    [] OTHER -> {0, 1}
FailuresMatchAnswer ==
  \A q \in Requests : req[q].pc = "done" => req[q].bad \in FailuresOf(req[q].answer)

\* Usage is handed to the ledger once for a request whose answer reached the
\* client whole, degraded or not, and never for one that failed or was cut off.
MeteredOnce ==
  \A q \in Requests : req[q].pc = "done" =>
    req[q].captured = IF req[q].answer \in {"completion", "degraded"} THEN 1 ELSE 0

\* Every admitted request is answered, whatever the provider does.
EveryRequestAnswered == \A q \in Requests : req[q].pc # "done" ~> req[q].pc = "done"

\* If the provider stays healthy and requests keep arriving at an instance,
\* the instance stops refusing them for good: no open breaker, no stale flag.
CircuitRecovers ==
  \A i \in Instances :
    (<>[]up /\ []<><<ArriveAt(i)>>_vars) => <>[](state[i] # "open" /\ flag = 0)
=============================================================================
