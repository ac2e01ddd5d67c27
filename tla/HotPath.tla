------------------------------ MODULE HotPath ------------------------------
(***************************************************************************)
(* One request through the proxy, from admission to its ledger row: the    *)
(* response cache, the budget check, the choice of an optimization and of  *)
(* an experiment arm, the provider call with its fallback model, and the   *)
(* capture that meters the answer, caches it and samples it for replay.    *)
(*                                                                         *)
(* A step ends where the handler awaits.  What is done with a request is   *)
(* LeverChoice's answer for some world of policies, priors and draws; the  *)
(* budget, rate-limit and breaker verdicts are choices here.  All requests *)
(* ask for one model, the incumbent, of one project.                       *)
(***************************************************************************)
EXTENDS Naturals, Sequences, FiniteSets, LeverChoice

CONSTANTS
  Requests,     \* request slots of one app instance
  Keys,         \* cache keys of the bodies clients send
  Asks,         \* the requests by name: [facts, ctx, turns]
  Profiles,     \* the kinds of call: [dialect, stream, optimize, idem, ask]
  Worlds,       \* what the choice of a lever may meet
  KeepLast,     \* the turns a trim policy keeps
  Detached,     \* settings.proxy_capture_detached
  SemanticOn,   \* settings.semantic_cache_enabled
  Fallback,     \* a degradation model is configured
  QueueSize,    \* settings.proxy_capture_detached_queue_size
  WorkerCount,  \* settings.proxy_capture_detached_max_concurrency
  Ttl,          \* settings.proxy_cache_ttl_seconds, in ticks
  MaxFaults     \* bound on faults: failed ledger writes, cancelled tasks, crashes

AllProfiles == [dialect : {"openai", "native"}, stream : BOOLEAN,
                optimize : BOOLEAN, idem : BOOLEAN, ask : DOMAIN Asks]

ASSUME HotPathAssumption ==
  /\ DOMAIN Asks # {} /\ Keys # {}
  /\ \A a \in DOMAIN Asks : Asks[a].facts \subseteq Facts /\ Asks[a].ctx \in Contexts
  /\ Profiles \subseteq AllProfiles
  /\ Worlds # {} /\ \A w \in Worlds : w.row \in [Levers -> RowStates] /\ w.planned \in BOOLEAN
  /\ KeepLast \in Nat
  /\ {Detached, SemanticOn, Fallback} \subseteq BOOLEAN
  /\ {QueueSize, WorkerCount, Ttl} \subseteq Nat \ {0}
  /\ MaxFaults \in Nat

VARIABLES
  req,      \* req[q]: the handler's local state
  job,      \* job[q]: what is left to record for the answer q got
  queue,    \* capture jobs waiting for a worker
  dead,     \* the capture workers that have ended
  rows,     \* rows[q]: ledger rows written for q
  tag,      \* tag[q]: what the row says, and whether the answer was sampled
  cached,   \* cached[k]: the proxy_cache_entries row of key k
  snap,     \* snap[k]: its snapshot in this process
  faults    \* faults so far

vars == <<req, job, queue, dead, rows, tag, cached, snap, faults>>
cacheVars == <<cached, snap>>
captureVars == <<job, queue, dead, rows, tag, faults>>

Candidates == {"candidate", "second"}
Answerers == {"incumbent", "fallback"} \cup Candidates
Bodies == {"verbatim", "trimmed", "compressed"}
Arms == {"none", "control", "treatment"}

\* A cache row: what it holds, and the ticks to its retention deadline.
Entry == [holds : {"answer", "degraded"}, ttl : 0..Ttl]
NoEntry == [holds |-> "nothing", ttl |-> 0]
Live(e) == e.ttl > 0

\* Phases of a capture: waiting, in a worker or in a task of its own, ledger
\* row written and cache write to come.
JobPhases == {"none", "queued", "running", "task", "metered", "task_metered", "done", "lost"}
Held == {"running", "metered"}
Tasks == {"task", "task_metered"}

Phases == {"idle", "probe", "fill", "found", "semantic", "resolve", "await", "fallback", "done"}

Request == [pc : Phases, prof : AllProfiles, key : Keys, found : Entry \cup {NoEntry},
            store : BOOLEAN, lever : {"none", "route", "transform"},
            arm : Arms, model : Answerers, body : Bodies,
            gone : BOOLEAN, keyed : SUBSET (Answerers \X Bodies), served : {"none", "hit", "paid"}]

\* What the ledger row says of the answer, and whether it is in the replay corpus.
Tag == [arm : Arms, lever : {"none", "route", "transform"}, by : Answerers \cup {"none"},
        body : Bodies, sampled : BOOLEAN]

AnyProfile == [dialect |-> "openai", stream |-> FALSE, optimize |-> FALSE, idem |-> FALSE,
               ask |-> CHOOSE a \in DOMAIN Asks : TRUE]
AnyKey == CHOOSE k \in Keys : TRUE

Fresh(p, k) == [pc |-> "idle", prof |-> p, key |-> k, found |-> NoEntry, store |-> FALSE,
                lever |-> "none", arm |-> "none", model |-> "incumbent", body |-> "verbatim",
                gone |-> FALSE, keyed |-> {}, served |-> "none"]
Idle == Fresh(AnyProfile, AnyKey)
NoTag == [arm |-> "none", lever |-> "none", by |-> "none", body |-> "verbatim", sampled |-> FALSE]

Init ==
  /\ req = [q \in Requests |-> Idle]
  /\ job = [q \in Requests |-> "none"]
  /\ queue = << >>
  /\ dead = 0
  /\ rows = [q \in Requests |-> 0]
  /\ tag = [q \in Requests |-> NoTag]
  /\ cached = [k \in Keys |-> NoEntry]
  /\ snap = [k \in Keys |-> NoEntry]
  /\ faults = 0

-----------------------------------------------------------------------------
(* Detached capture: a bounded queue, its workers, overflow tasks *)

Busy == {r \in Requests : job[r] \in Held}

\* Mutants: the queue has no bound; a job that finds it full is dropped, or
\* left without a task.
EnqueueUnbounded(q) ==
  /\ queue' = Append(queue, q)
  /\ job' = [job EXCEPT ![q] = "queued"]
  /\ UNCHANGED dead
EnqueueDrops(q) ==
  /\ queue' = IF Len(queue) < QueueSize THEN Append(queue, q) ELSE queue
  /\ job' = [job EXCEPT ![q] = IF Len(queue) < QueueSize THEN "queued" ELSE "lost"]
  /\ UNCHANGED dead
EnqueueForgets(q) ==
  /\ queue' = IF Len(queue) < QueueSize THEN Append(queue, q) ELSE queue
  /\ job' = [job EXCEPT ![q] = "queued"]
  /\ UNCHANGED dead

\* _enqueue_detached_capture.  A worker that has ended makes the next job replace
\* the queue: the other workers are cancelled and what is queued is dropped.  A
\* full queue turns the job into a task of its own.
Enqueue(q) ==
  IF dead > 0
  THEN /\ queue' = <<q>>
       /\ dead' = 0
       /\ job' = [r \in Requests |-> IF r = q THEN "queued"
                                     ELSE IF job[r] \in {"queued", "running"} THEN "lost"
                                     ELSE IF job[r] = "metered" THEN "done" ELSE job[r]]
  ELSE /\ queue' = IF Len(queue) < QueueSize THEN Append(queue, q) ELSE queue
       /\ job' = [job EXCEPT ![q] = IF Len(queue) < QueueSize THEN "queued" ELSE "task"]
       /\ UNCHANGED dead

\* A BackgroundTask, or capture at the end of a stream: no queue in between.
CaptureInline(q) ==
  /\ job' = [job EXCEPT ![q] = "task"]
  /\ UNCHANGED <<queue, dead>>

\* Non-streaming answers and cache hits go through the queue when captures
\* are detached; streams and the native dialects never do.
Schedule(q, detachable) == IF Detached /\ detachable THEN Enqueue(q) ELSE CaptureInline(q)

\* A worker that is idle and has not ended takes the oldest job.
TakeJob ==
  /\ queue # << >>
  /\ Cardinality(Busy) + dead < WorkerCount
  /\ job' = [job EXCEPT ![Head(queue)] = "running"]
  /\ queue' = Tail(queue)
  /\ UNCHANGED <<req, dead, rows, tag, cacheVars, faults>>

-----------------------------------------------------------------------------
(* Admission and the response cache *)

\* What the handler knew only for itself is forgotten with the answer.
Answer(r, how) == [r EXCEPT !.pc = "done", !.served = how, !.found = NoEntry, !.keyed = {},
                            !.prof = [AnyProfile EXCEPT !.optimize = r.prof.optimize]]
Class(r) == ClassifyRequest(Asks[r.prof.ask])
Answered(q, how) == [req EXCEPT ![q] = Answer(req[q], how)]
Goto(q, pc) == [req EXCEPT ![q] = [req[q] EXCEPT !.pc = pc]]

\* Admission: the dialect is recognized and the kill switch, the project's
\* bypass and the plan are read once.  Without optimization the request skips
\* cache, budget and levers, and the probe's default says "store"; the native
\* dialects have no cache.
Arrive(q, p, k) ==
  /\ req[q].pc = "idle"
  /\ req' = [req EXCEPT ![q] = [Fresh(p, k) EXCEPT
       !.pc = IF p.optimize /\ p.dialect = "openai" THEN "probe" ELSE "resolve",
       !.store = p.dialect = "openai" /\ ~p.optimize]]
  /\ UNCHANGED <<captureVars, cacheVars>>

\* Answered without a provider: over the rate limit or without a provider key;
\* after the cache, over a hard cap or with the circuit open.
Refuse(q) ==
  /\ req[q].pc \in {"probe", "resolve"}
  /\ req' = [req EXCEPT ![q] = Idle]
  /\ UNCHANGED <<captureVars, cacheVars>>

\* The lever is paused or the probe raised: the answer is not stored either.
SkipCache(q) ==
  /\ req[q].pc = "probe"
  /\ req' = Goto(q, "resolve")
  /\ UNCHANGED <<captureVars, cacheVars>>

\* What the planner did at admission: it planned, or it raised.
Planners == {w.planned : w \in Worlds}
ExactAllowed(r) == \E planned \in Planners : ExactCachePolicy(Class(r), planned)

\* Without a plan the semantic cache is left out.
NextProbe(planned) == IF SemanticOn /\ planned THEN "semantic" ELSE "resolve"

\* A request whose answer may depend on tools or images is neither looked up
\* by its key nor stored.
ExactBlocked(q) ==
  /\ req[q].pc = "probe"
  /\ \E planned \in Planners : ~ExactCachePolicy(Class(req[q]), planned)
  /\ req' = Goto(q, NextProbe(TRUE))
  /\ UNCHANGED <<captureVars, cacheVars>>

SnapshotLive(e) == e # NoEntry /\ Live(e)

\* An entry in hand, which the handler's next await may outlast.
Holding(q, k, e, pc) ==
  req' = [req EXCEPT ![q] = [req[q] EXCEPT !.pc = pc, !.key = k, !.found = e]]

\* get_cached_snapshot, first part: a live snapshot in this process is taken
\* at once; a dead one is dropped.  Without detached captures it is the table
\* that is asked.
ProbeSnapshot(q) ==
  LET k == req[q].key
  IN /\ req[q].pc = "probe" /\ ExactAllowed(req[q])
     /\ Detached
     /\ SnapshotLive(snap[k])
     /\ Holding(q, k, snap[k], "found")
     /\ UNCHANGED <<captureVars, cacheVars>>

\* ... second part: the table is read.  A row past its deadline does not
\* match; a failed read is a miss.
ProbeTable(q) ==
  LET k == req[q].key
  IN /\ req[q].pc = "probe" /\ ExactAllowed(req[q])
     /\ Detached => ~SnapshotLive(snap[k])
     /\ snap' = IF Detached THEN [snap EXCEPT ![k] = NoEntry] ELSE snap
     /\ \/ Live(cached[k]) /\ Holding(q, k, cached[k], IF Detached THEN "fill" ELSE "found")
        \/ \E planned \in Planners :
             /\ ExactCachePolicy(Class(req[q]), planned)
             /\ req' = [req EXCEPT ![q] = [req[q] EXCEPT !.pc = NextProbe(planned), !.store = TRUE]]
     /\ UNCHANGED <<captureVars, cached>>

\* Mutant: the snapshot is given a deadline of its own.
FillSnapshotRenewed(q) ==
  /\ req[q].pc = "fill"
  /\ snap' = [snap EXCEPT ![req[q].key] = [req[q].found EXCEPT !.ttl = Ttl]]
  /\ req' = Goto(q, "found")
  /\ UNCHANGED <<captureVars, cached>>

\* ... third part: the row read becomes this process's snapshot, whatever
\* happened to the table meanwhile.
FillSnapshot(q) ==
  /\ req[q].pc = "fill"
  /\ snap' = [snap EXCEPT ![req[q].key] = req[q].found]
  /\ req' = Goto(q, "found")
  /\ UNCHANGED <<captureVars, cached>>

\* The nearest live row of the same model, or none near enough; a failed
\* embedding or search is a miss, and so is a request the policy blocks.
ProbeSemantic(q) ==
  /\ req[q].pc = "semantic"
  /\ \/ \E k \in Keys : /\ Live(cached[k]) /\ SemanticCachePolicy(Class(req[q]))
                        /\ Holding(q, k, cached[k], "found")
     \/ req' = Goto(q, "resolve")
  /\ UNCHANGED <<captureVars, cacheVars>>

\* What was found is the answer, without another look at its deadline.  It is
\* metered as a free call, by a capture job.
ServeHit(q) ==
  /\ req[q].pc = "found"
  /\ req' = Answered(q, "hit")
  /\ Schedule(q, TRUE)
  /\ UNCHANGED <<rows, tag, faults, cacheVars>>

-----------------------------------------------------------------------------
(* The choice of an optimization *)

\* Mutant: the experiment tag survives the return to the incumbent.
CandidateProviderKeepsArm(o, hasKey) ==
  IF o.model # "incumbent" /\ ~hasKey THEN [o EXCEPT !.model = "incumbent"] ELSE o

\* Without a key for the candidate's provider the request stays on the
\* incumbent and leaves the experiment.
CandidateProvider(o, hasKey) ==
  IF o.model # "incumbent" /\ ~hasKey THEN Passthrough ELSE o

\* Every outcome some world gives; bypassed traffic, a model with no policy
\* and a resolver that raises forward the request as it came.
Outcomes ==
  [p \in Profiles |-> {Passthrough} \cup
     IF ~p.optimize THEN {}
     ELSE UNION {IF p.dialect = "native" THEN MaybeRouteNativeCrossProvider(Asks[p.ask], w)
                 ELSE ResolveOpenAIOptimizations(Asks[p.ask], w, KeepLast) : w \in Worlds}]

-----------------------------------------------------------------------------
(* The provider call *)

\* The client's idempotency key goes along only with an unchanged request.
ForwardIdem(r) ==
  /\ r.prof.dialect = "openai"
  /\ r.prof.idem
  /\ r.model = "incumbent"
  /\ r.body = "verbatim"

\* Mutant: whether the request is optimized is not asked again.
StoreCacheAsProbed(r) == r.store

\* The probe's word, and only for optimized traffic.
StoreCache(r) == r.store /\ r.prof.optimize

Sent(r, o) == [r EXCEPT !.pc = "await", !.lever = o.lever, !.arm = o.arm,
                        !.model = o.model, !.body = o.body, !.prof.idem = FALSE]

\* The request leaves for the provider its outcome names.
ForwardOpenAI(q, chosen, hasKey) ==
  LET r == [Sent(req[q], CandidateProvider(chosen, hasKey)) EXCEPT !.prof.idem = req[q].prof.idem]
  IN /\ req[q].pc = "resolve" /\ req[q].prof.dialect = "openai"
     /\ req' = [req EXCEPT ![q] = [r EXCEPT
          !.prof.idem = FALSE,
          !.store = StoreCache(r),
          !.keyed = IF ForwardIdem(r) THEN {<<r.model, r.body>>} ELSE {}]]
     /\ UNCHANGED <<captureVars, cacheVars>>

\* Native dialects: to the candidate's provider when there is a route and a
\* key for it, else through as it came; never with a key of the client's.
ForwardNative(q, chosen, hasKey) ==
  /\ req[q].pc = "resolve" /\ req[q].prof.dialect = "native"
  /\ req' = [req EXCEPT ![q] = Sent(req[q], CandidateProvider(chosen, hasKey))]
  /\ UNCHANGED <<captureVars, cacheVars>>

\* A whole answer.  The client has it; what remains is to record it: after a
\* stream in the same task, after a single response in a job.
Recorded(q, detachable) ==
  /\ req[q].pc = "await"
  /\ req' = Answered(q, "paid")
  /\ Schedule(q, detachable)
  /\ UNCHANGED <<rows, tag, faults, cacheVars>>

ForwardOnceAnswers(q) ==
  req[q].prof.dialect = "openai" /\ ~req[q].prof.stream /\ Recorded(q, TRUE)

StreamThroughEnds(q) ==
  req[q].prof.dialect = "openai" /\ req[q].prof.stream /\ Recorded(q, FALSE)

NativeAnswers(q) ==
  req[q].prof.dialect = "native" /\ req[q].model = "incumbent" /\ Recorded(q, FALSE)

NativeCrossProviderAnswers(q) ==
  req[q].prof.dialect = "native" /\ req[q].model \in Candidates /\ Recorded(q, FALSE)

\* An error is relayed, or the client goes away in mid-stream: nothing is
\* recorded.
Abandon(q) ==
  /\ req[q].pc \in {"await", "fallback"}
  /\ req' = [req EXCEPT ![q] = Idle]
  /\ UNCHANGED <<captureVars, cacheVars>>

\* After the last retry a non-streaming request asks the degradation model,
\* with the same key.
TryFallback(q) ==
  LET sent == req[q].keyed
      again == IF sent = {} THEN {} ELSE sent \cup {<<"fallback", req[q].body>>}
  IN /\ req[q].pc = "await"
     /\ Fallback /\ req[q].prof.dialect = "openai" /\ ~req[q].prof.stream
     /\ req' = [req EXCEPT ![q] = [req[q] EXCEPT !.pc = "fallback", !.keyed = again]]
     /\ UNCHANGED <<captureVars, cacheVars>>

\* Mutant: the degraded answer is stored like any other.
DegradedKeepsStore(r) ==
  [r EXCEPT !.model = "fallback", !.lever = "none", !.arm = "none"]

\* A degraded answer belongs to no experiment and is never cached.
Degraded(r) ==
  [r EXCEPT !.model = "fallback", !.lever = "none", !.arm = "none", !.store = FALSE]

FallbackAnswers(q) ==
  /\ req[q].pc = "fallback"
  /\ req' = [req EXCEPT ![q] = Answer(Degraded(req[q]), "paid")]
  /\ CaptureInline(q)
  /\ UNCHANGED <<rows, tag, faults, cacheVars>>

-----------------------------------------------------------------------------
(* Capture *)

InHand(q) == job[q] \in {"running", "task"}
Ends(q, how) == [job EXCEPT ![q] = how]
Forget(q) == [req EXCEPT ![q] = [Idle EXCEPT !.pc = "done"]]
Untag(q) == [tag EXCEPT ![q] = NoTag]
Metered(q) == [job EXCEPT ![q] = IF @ = "running" THEN "metered" ELSE "task_metered"]

\* The replay sample of a stored answer, taken with some probability.
Sample(q) ==
  \/ tag' = Untag(q)
  \/ /\ req[q].store
     /\ tag' = [tag EXCEPT ![q] = [NoTag EXCEPT !.by = req[q].model, !.sampled = TRUE]]

\* A paid answer: the ledger row is committed first.
MeterAnswer(q) ==
  /\ InHand(q)
  /\ req[q].served = "paid"
  /\ rows' = [rows EXCEPT ![q] = @ + 1]
  /\ tag' = [tag EXCEPT ![q] = [arm |-> req[q].arm, lever |-> req[q].lever,
                                   by |-> req[q].model, body |-> req[q].body,
                                   sampled |-> FALSE]]
  /\ job' = Metered(q)
  /\ req' = [req EXCEPT ![q] = [Idle EXCEPT !.pc = "done", !.key = req[q].key,
                                  !.store = req[q].store, !.model = req[q].model]]
  /\ UNCHANGED <<queue, dead, cacheVars, faults>>

\* The ledger write fails: no row, no evidence, nothing cached; the replay
\* sample is taken all the same.
MeterFails(q) ==
  /\ InHand(q)
  /\ faults < MaxFaults
  /\ faults' = faults + 1
  /\ job' = Ends(q, "lost")
  /\ IF req[q].served = "paid" THEN Sample(q) ELSE UNCHANGED tag
  /\ req' = Forget(q)
  /\ UNCHANGED <<queue, dead, rows, cacheVars>>

\* A cache hit: counted on the entry and in the ledger at no cost, unless the
\* entry has been purged since.
MeterHit(q) ==
  /\ InHand(q)
  /\ req[q].served # "paid"
  /\ IF req[q].gone
     THEN job' = Ends(q, "lost") /\ UNCHANGED rows
     ELSE /\ rows' = [rows EXCEPT ![q] = @ + 1]
          /\ job' = Ends(q, "done")
  /\ req' = Forget(q)
  /\ UNCHANGED <<queue, dead, tag, cacheVars, faults>>

\* cache.store under the requested model's key: a live row wins, an expired
\* one still holds the unique key and makes the insert fail, and with it the
\* sample in the same session.
StoreAnswer(q) ==
  LET k == req[q].key
      new == [holds |-> IF req[q].model = "fallback" THEN "degraded" ELSE "answer", ttl |-> Ttl]
  IN /\ job[q] \in {"metered", "task_metered"}
     /\ job' = Ends(q, "done")
     /\ req' = Forget(q)
     /\ \/ /\ req[q].store /\ cached[k] = NoEntry
           /\ cached' = [cached EXCEPT ![k] = new]
           /\ snap' = [snap EXCEPT ![k] = new]
           /\ Sample(q)
        \/ /\ req[q].store /\ Live(cached[k])
           /\ Sample(q)
           /\ UNCHANGED cacheVars
        \/ tag' = Untag(q) /\ UNCHANGED cacheVars    \* not stored, no payload, or a failed insert
     /\ UNCHANGED <<queue, dead, rows, faults>>

\* The next request of the client.
Close(q) ==
  /\ req[q].pc = "done"
  /\ job[q] \in {"done", "lost"}
  /\ req' = [req EXCEPT ![q] = Idle]
  /\ job' = [job EXCEPT ![q] = "none"]
  /\ rows' = [rows EXCEPT ![q] = 0]
  /\ tag' = Untag(q)
  /\ UNCHANGED <<queue, dead, cacheVars, faults>>

-----------------------------------------------------------------------------
(* Faults, the clock, the purge *)

Cut(r) == IF job[r] \in {"metered", "task_metered"} THEN "done"
          ELSE IF job[r] \in {"queued", "running", "task"} THEN "lost" ELSE job[r]

\* A job is cancelled from inside.  In a worker this ends the worker, and no
\* other takes its place before the next detached answer.
CancelJob(q) ==
  /\ job[q] \in Held \cup Tasks
  /\ faults < MaxFaults
  /\ faults' = faults + 1
  /\ job' = Ends(q, Cut(q))
  /\ dead' = IF job[q] \in Held THEN dead + 1 ELSE dead
  /\ req' = Forget(q)
  /\ tag' = Untag(q)
  /\ UNCHANGED <<queue, rows, cacheVars>>

\* The process restarts: queue, tasks, snapshots and open requests are gone.
Crash ==
  /\ faults < MaxFaults
  /\ faults' = faults + 1
  /\ req' = [q \in Requests |-> IF req[q].pc = "done" THEN [Idle EXCEPT !.pc = "done"] ELSE Idle]
  /\ job' = [q \in Requests |-> Cut(q)]
  /\ queue' = << >>
  /\ dead' = 0
  /\ snap' = [k \in Keys |-> NoEntry]
  /\ tag' = [q \in Requests |-> NoTag]
  /\ UNCHANGED <<rows, cached>>

Older(e) == IF e.ttl > 0 THEN [e EXCEPT !.ttl = @ - 1] ELSE e

Tick ==
  /\ \E k \in Keys : Live(cached[k]) \/ Live(snap[k])
  /\ cached' = [k \in Keys |-> Older(cached[k])]
  /\ snap' = [k \in Keys |-> Older(snap[k])]
  /\ req' = [q \in Requests |-> [req[q] EXCEPT !.found = Older(@)]]
  /\ UNCHANGED captureVars

\* A scheduler's purge deletes rows past their deadline and forgets every
\* snapshot of its own process, which need not be this one.
PurgeExpired(here) ==
  LET expired == {k \in Keys : cached[k] # NoEntry /\ ~Live(cached[k])}
  IN /\ expired # {}
     /\ cached' = [k \in Keys |-> IF k \in expired THEN NoEntry ELSE cached[k]]
     /\ snap' = IF here THEN [k \in Keys |-> NoEntry] ELSE snap
     /\ req' = [q \in Requests |->
          IF req[q].key \in expired /\ (req[q].pc \in {"fill", "found"} \/ req[q].served = "hit")
          THEN [req[q] EXCEPT !.gone = TRUE] ELSE req[q]]
     /\ UNCHANGED captureVars

\* A snapshot leaves the bounded cache of the process.
EvictSnapshot(k) ==
  /\ snap[k] # NoEntry
  /\ snap' = [snap EXCEPT ![k] = NoEntry]
  /\ UNCHANGED <<req, captureVars, cached>>

-----------------------------------------------------------------------------
HandlerStep(q) ==
  \/ \E p \in Profiles, k \in Keys : Arrive(q, p, k)
  \/ Refuse(q)
  \/ SkipCache(q)
  \/ ExactBlocked(q)
  \/ ProbeSnapshot(q)
  \/ ProbeTable(q)
  \/ FillSnapshot(q)
  \/ ProbeSemantic(q)
  \/ ServeHit(q)
  \/ /\ req[q].pc = "resolve"
     /\ \E o \in Outcomes[req[q].prof], hasKey \in BOOLEAN :
          ForwardOpenAI(q, o, hasKey) \/ ForwardNative(q, o, hasKey)
  \/ ForwardOnceAnswers(q)
  \/ StreamThroughEnds(q)
  \/ NativeAnswers(q)
  \/ NativeCrossProviderAnswers(q)
  \/ Abandon(q)
  \/ TryFallback(q)
  \/ FallbackAnswers(q)
  \/ Close(q)

Capture(q) == MeterAnswer(q) \/ MeterHit(q) \/ StoreAnswer(q)

Next ==
  \/ \E q \in Requests : HandlerStep(q) \/ Capture(q) \/ MeterFails(q) \/ CancelJob(q)
  \/ TakeJob
  \/ Crash
  \/ Tick
  \/ \E here \in BOOLEAN : PurgeExpired(here)
  \/ \E k \in Keys : EvictSnapshot(k)

\* Workers and background tasks run; clients, providers and clocks need not.
Fairness ==
  /\ WF_vars(TakeJob)
  /\ \A q \in Requests : WF_vars(Capture(q))

Spec == Init /\ [][Next]_vars /\ Fairness

-----------------------------------------------------------------------------
(* Properties *)

TypeOK ==
  /\ req \in [Requests -> Request]
  /\ job \in [Requests -> JobPhases]
  /\ queue \in Seq(Requests)
  /\ Len(queue) <= QueueSize
  /\ dead \in Nat
  /\ rows \in [Requests -> Nat]
  /\ tag \in [Requests -> Tag]
  /\ cached \in [Keys -> Entry \cup {NoEntry}]
  /\ snap \in [Keys -> Entry \cup {NoEntry}]
  /\ faults \in 0..MaxFaults

\* A process answers from its own copies for as long as they live: until then
\* the table holds the very same row with the same deadline, for a snapshot and
\* for an entry a handler holds across an await, though rows are purged and
\* stored again by others meanwhile.
SnapshotIsCurrent ==
  /\ \A k \in Keys : Live(snap[k]) => snap[k] = cached[k]
  /\ \A q \in Requests : req[q].pc \in {"fill", "found"} /\ Live(req[q].found)
                           => req[q].found = cached[req[q].key]

\* The ledger tells the experiment as it was: a row tagged control was
\* answered by the incumbent from the untouched body, a routed treatment by
\* a candidate, and a degraded answer carries no tag.
LedgerTagIsTruthful ==
  \A q \in Requests :
    /\ tag[q].arm = "control" => tag[q].by = "incumbent" /\ tag[q].body = "verbatim"
    /\ tag[q].arm = "treatment" /\ tag[q].lever = "route" => tag[q].by \in Candidates
    /\ tag[q].by = "fallback" => tag[q].arm = "none"

\* Traffic that bypasses optimization leaves no trace in it: it is neither
\* served from the cache, stored, sampled nor changed on its way.
BypassIsPlain ==
  \A q \in Requests : req[q].served # "none" /\ ~req[q].prof.optimize =>
    /\ req[q].served = "paid"
    /\ ~req[q].store
    /\ req[q].arm = "none"
    /\ req[q].body = "verbatim"
    /\ req[q].model \notin Candidates

\* A degraded answer never enters the cache or the replay corpus, so no later
\* request and no eval takes it for the model's own.
DegradedIsForgotten ==
  /\ \A k \in Keys : "degraded" \notin {cached[k].holds, snap[k].holds}
  /\ \A q \in Requests : tag[q].sampled => tag[q].by # "fallback"

\* What the classification holds back from a lever stays untouched by it,
\* whatever priors have been learned: a risky, personal or multimodal request
\* is not routed, one with tools or a JSON contract is not rewritten, and an
\* answer that may depend on tools or images is not kept.  And no idempotency
\* key of a client goes to a candidate or out with a rewritten body.
BlockedRequestsStayWhole ==
  \A q \in Requests : req[q].pc \in {"await", "fallback"} =>
    /\ \A sent \in req[q].keyed : sent[1] \notin Candidates /\ sent[2] = "verbatim"
    /\ RoutingBlockers(Class(req[q])) # {} => req[q].model \notin Candidates
    /\ TrimBlockers(Class(req[q])) # {} => req[q].body = "verbatim"
    /\ EnforcedBlockers(Class(req[q])) # {} => ~req[q].store

-----------------------------------------------------------------------------
(* Refinement *)

LedgerEntry(q) ==
  IF rows[q] > 1 THEN "twice"
  ELSE IF rows[q] = 1 THEN "charged"
  ELSE IF job[q] \in {"none", "lost"} THEN job[q]
  ELSE IF req[q].served = "paid" THEN "owed_paid" ELSE "owed_free"

Ledger == INSTANCE UsageLedger WITH
  Calls <- Requests, entry <- [q \in Requests |-> LedgerEntry(q)]

\* Metering keeps the promise of UsageLedger: one row for every answered call,
\* none twice, and a paid one is lost only after a fault.
MeteringRefinesLedger == Ledger!Spec

\* An answered call is settled in the end, behind a full queue, a busy worker
\* or a replaced queue too: none is owed from some point on for ever.  It may wait
\* only in a queue that has no worker left.
MeteringSettles ==
  \A q \in Requests :
    []<>(LedgerEntry(q) \notin Ledger!Owed \/ (job[q] = "queued" /\ dead = WorkerCount))
=============================================================================
