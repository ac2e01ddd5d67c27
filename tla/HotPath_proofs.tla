--------------------------- MODULE HotPath_proofs ---------------------------
(***************************************************************************)
(* Safety of the hot path, and that its metering implements UsageLedger,   *)
(* for any requests, keys, kinds of call, policies and draws, queue size,  *)
(* number of workers, TTL and number of faults.                            *)
(*                                                                         *)
(* The invariant has four independent parts.  SlotSafe says of a handler's *)
(* local state what the handler has established so far, step by step from  *)
(* admission to the answer; TagSafe and SafeEntry say what of it may reach *)
(* the ledger and the cache; MeteringSafe relates queue, jobs and rows: it *)
(* is what makes "exactly one row" an invariant and not a hope.            *)
(***************************************************************************)
EXTENDS HotPath, TLAPS

\* What an outcome, a request and a ledger row may say of an experiment.
Truthful(arm, lever, by, body) ==
  /\ arm = "control" => by = "incumbent" /\ body = "verbatim"
  /\ arm = "treatment" /\ lever = "route" => by \in Candidates
  /\ by = "fallback" => arm = "none"

\* The planner answered in every world.
Planned == \A w \in Worlds : w.planned

\* A request on its way to a provider.
InFlight(r) ==
  /\ \A sent \in r.keyed : sent[1] \notin Candidates /\ sent[2] = "verbatim"
  /\ r.keyed # {} => r.body = "verbatim"
  /\ Planned => /\ RoutingBlockers(Class(r)) # {} => r.model \notin Candidates
                /\ TrimBlockers(Class(r)) # {} => r.body = "verbatim"
  /\ r.store => r.prof.optimize /\ ExactAllowed(r)

\* Nothing optimized has touched the request.
Plain(r) == ~r.store /\ r.arm = "none" /\ r.body = "verbatim" /\ r.model \notin Candidates

SlotSafe(r) ==
  /\ r.found.holds # "degraded"
  /\ r.served # "none" => r.pc = "done"
  /\ r.model = "fallback" => ~r.store
  /\ Truthful(r.arm, r.lever, r.model, r.body)
  /\ r.pc \in {"probe", "fill", "found", "semantic"} => r.prof.optimize /\ r.prof.dialect = "openai"
  /\ r.pc \in {"probe", "fill", "found", "semantic", "resolve"} =>
       r.prof \in Profiles /\ r.model = "incumbent" /\ r.keyed = {}
  /\ r.pc = "probe" => ~r.store
  /\ r.pc \in {"semantic", "resolve"} /\ r.store /\ r.prof.optimize => ExactAllowed(r)
  /\ r.pc = "resolve" /\ r.prof.dialect = "native" => ~r.store
  /\ r.pc \in {"await", "fallback"} => InFlight(r) /\ (~r.prof.optimize => Plain(r))
  /\ r.served # "none" /\ ~r.prof.optimize => r.served = "paid" /\ Plain(r)

TagSafe(t) ==
  /\ Truthful(t.arm, t.lever, t.by, t.body)
  /\ t.sampled => t.by # "fallback"

SafeEntry == {e \in Entry \cup {NoEntry} : e.holds # "degraded"}

ReqInv == req \in [Requests -> Request] /\ \A q \in Requests : SlotSafe(req[q])
TagInv == tag \in [Requests -> Tag] /\ \A q \in Requests : TagSafe(tag[q])
CacheInv == cached \in [Keys -> SafeEntry] /\ snap \in [Keys -> SafeEntry]

\* Queue, jobs and rows.  A queued job is in the queue once, a slot has a job
\* exactly when its answer is out, and a row exactly when its job has metered.
Charged == {"metered", "task_metered", "done"}
MeteringSafe ==
  /\ \A i \in 1..Len(queue) : job[queue[i]] = "queued"
  /\ \A i, j \in 1..Len(queue) : queue[i] = queue[j] => i = j
  /\ \A q \in Requests : job[q] = "none" <=> req[q].pc # "done"
  /\ \A q \in Requests : rows[q] = IF job[q] \in Charged THEN 1 ELSE 0
  /\ dead > 0 => faults > 0

QueueInv ==
  /\ job \in [Requests -> JobPhases]
  /\ queue \in Seq(Requests) /\ Len(queue) <= QueueSize
  /\ dead \in Nat
  /\ rows \in [Requests -> Nat]
  /\ faults \in 0..MaxFaults
  /\ MeteringSafe

HotInv == ReqInv /\ TagInv /\ CacheInv /\ QueueInv

-----------------------------------------------------------------------------
(* What the choice of a lever can answer *)

OutcomeType == [lever : {"none", "route", "transform"}, arm : Arms,
                model : {"incumbent"} \cup Candidates, body : Bodies]

\* A typed and truthful outcome that respects what holds request a back.
Allowed(a, o) ==
  /\ o \in OutcomeType
  /\ Truthful(o.arm, o.lever, o.model, o.body)
  /\ Planned => /\ RoutingBlockers(ClassifyRequest(a)) # {} => o.model = "incumbent"
                /\ TrimBlockers(ClassifyRequest(a)) # {} => o.body = "verbatim"

LEMMA PassthroughAllowed == \A a : Allowed(a, Passthrough)
  BY DEF Allowed, Passthrough, Outcome, OutcomeType, Truthful, Arms, Bodies

\* The holdback arm sends the request as it came, whatever the lever.
LEMMA ControlAllowed ==
  \A a : \A l \in {"route", "transform"} : Allowed(a, Outcome(l, "control", "incumbent", "verbatim"))
  BY DEF Allowed, Outcome, OutcomeType, Truthful, Arms, Bodies

\* The plan rejects every lever its blockers name, whatever has been learned.
LEMMA BlockersReject ==
  ASSUME NEW a, NEW w \in Worlds, Planned
  PROVE  /\ RoutingBlockers(ClassifyRequest(a)) # {} => RejectedCandidate(ClassifyRequest(a), "route", w)
         /\ TrimBlockers(ClassifyRequest(a)) # {} =>
              /\ RejectedCandidate(ClassifyRequest(a), "trim", w)
              /\ RejectedCandidate(ClassifyRequest(a), "compression", w)
<1> DEFINE c == ClassifyRequest(a)
<1> HIDE DEF c
<1>1. w.planned
  BY DEF Planned
<1>2. RoutingBlockers(c) # {} => Plan(c, "route", w.ready)["route"] = "rejected"
  BY DEF Plan, ModelRoutingCandidate, WithOutcomePrior, Levers
<1>3. TrimBlockers(c) # {} => Plan(c, "trim", w.ready)["trim"] = "rejected"
  BY DEF Plan, TokenTrimCandidate, WithOutcomePrior, Levers
<1>4. TrimBlockers(c) # {} => Plan(c, "compression", w.ready)["compression"] = "rejected"
  BY DEF Plan, PromptCompressionCandidate, WithOutcomePrior, Levers
<1>5. /\ RoutingBlockers(c) # {} => RejectedCandidate(c, "route", w)
      /\ TrimBlockers(c) # {} => RejectedCandidate(c, "trim", w) /\ RejectedCandidate(c, "compression", w)
  BY <1>1, <1>2, <1>3, <1>4 DEF RejectedCandidate
<1> QED BY <1>5 DEF c

\* The bandit picks a candidate.
LEMMA BanditPicksCandidate == \A w : MaybeBanditSelect(w) \subseteq Candidates
  BY DEF MaybeBanditSelect, SelectCandidate, Candidates

LEMMA RouteAllowed ==
  ASSUME NEW a, NEW w \in Worlds, NEW o \in ResolveRouteState(a, w)
  PROVE  Allowed(a, o)
<1>1. CASE o = Passthrough
  BY <1>1, PassthroughAllowed
<1>2. CASE o = Outcome("route", "control", "incumbent", "verbatim")
  BY <1>2, ControlAllowed
<1>3. ASSUME NEW m \in MaybeBanditSelect(w), o = Outcome("route", "treatment", m, "verbatim"),
             ~RejectedCandidate(ClassifyRequest(a), "route", w)
      PROVE  Allowed(a, o)
  <2>1. m \in Candidates
    BY BanditPicksCandidate
  <2>2. o.arm = "treatment" /\ o.lever = "route" /\ o.model = m /\ o.body = "verbatim" /\ o \in OutcomeType
    BY <1>3, <2>1 DEF Outcome, OutcomeType, Arms, Bodies
  <2>3. Truthful(o.arm, o.lever, o.model, o.body)
    BY <2>1, <2>2 DEF Truthful, Candidates
  <2>4. Planned => RoutingBlockers(ClassifyRequest(a)) = {}
    BY <1>3, BlockersReject
  <2> QED BY <2>2, <2>3, <2>4 DEF Allowed
<1> QED BY <1>1, <1>2, <1>3 DEF ResolveRouteState

\* Trimming and compression keep the incumbent, and leave alone what they must.
LEMMA TransformAllowed ==
  ASSUME NEW a, NEW w \in Worlds, NEW o, o = ResolveTrimState(a, w, KeepLast)
  PROVE  Allowed(a, o)
<1>1. CASE o = Passthrough
  BY <1>1, PassthroughAllowed
<1>2. CASE o = Outcome("transform", "control", "incumbent", "verbatim")
  BY <1>2, ControlAllowed
<1>3. ASSUME NEW b \in Bodies, o = Outcome("transform", "treatment", "incumbent", b),
             \/ ~RejectedCandidate(ClassifyRequest(a), "trim", w)
             \/ ~RejectedCandidate(ClassifyRequest(a), "compression", w)
      PROVE  Allowed(a, o)
  <2>1. o.arm = "treatment" /\ o.lever = "transform" /\ o.model = "incumbent" /\ o.body = b /\ o \in OutcomeType
    BY <1>3 DEF Outcome, OutcomeType, Arms
  <2>2. Truthful(o.arm, o.lever, o.model, o.body)
    BY <2>1 DEF Truthful
  <2>3. Planned => TrimBlockers(ClassifyRequest(a)) = {}
    BY <1>3, BlockersReject
  <2> QED BY <2>1, <2>2, <2>3 DEF Allowed
<1>4. ApplyTrim(a.turns, KeepLast) \in Bodies /\ ApplyCompression(w.artifact) \in Bodies
  BY DEF ApplyTrim, ApplyCompression, Bodies
<1> QED BY <1>1, <1>2, <1>3, <1>4 DEF ResolveTrimState, ResolveCompressionState

LEMMA NativeAllowed ==
  ASSUME NEW a, NEW w \in Worlds, NEW o \in MaybeRouteNativeCrossProvider(a, w)
  PROVE  Allowed(a, o)
<1>1. CASE o = Passthrough
  BY <1>1, PassthroughAllowed
<1>2. CASE o # Passthrough
  <2>1. ~RejectedCandidate(ClassifyRequest(a), "route", w) /\ w.crossing # "ineligible" /\ AssignArm(w) # "control"
    BY <1>2 DEF MaybeRouteNativeCrossProvider, NativeRouteAllowed
  <2>2. o \in ResolveRouteState(a, w)
    BY <1>2, <2>1 DEF MaybeRouteNativeCrossProvider, ResolveRouteState
  <2> QED BY <2>2, RouteAllowed
<1> QED BY <1>1, <1>2

\* Every outcome a request can meet is allowed, with a key for the candidate's
\* provider or without; bypassed traffic meets only the one that does nothing.
LEMMA OutcomesAllowed ==
  ASSUME NEW p \in Profiles, NEW o \in Outcomes[p], NEW hasKey \in BOOLEAN
  PROVE  /\ Allowed(Asks[p.ask], CandidateProvider(o, hasKey))
         /\ ~p.optimize => CandidateProvider(o, hasKey) = Passthrough
<1> DEFINE a == Asks[p.ask]
<1>1. \/ o = Passthrough
      \/ p.optimize /\ \E w \in Worlds : \/ o \in MaybeRouteNativeCrossProvider(a, w)
                                         \/ o \in ResolveOpenAIOptimizations(a, w, KeepLast)
  BY DEF Outcomes
<1>2. ASSUME NEW w \in Worlds, o \in MaybeRouteNativeCrossProvider(a, w) PROVE Allowed(a, o)
  BY <1>2, NativeAllowed
<1>3. ASSUME NEW w \in Worlds, o \in ResolveOpenAIOptimizations(a, w, KeepLast) PROVE Allowed(a, o)
  BY <1>3, RouteAllowed, TransformAllowed DEF ResolveOpenAIOptimizations
<1>4. Allowed(a, o)
  BY <1>1, <1>2, <1>3, PassthroughAllowed
<1> QED BY <1>1, <1>4, PassthroughAllowed DEF CandidateProvider

-----------------------------------------------------------------------------
(* The local state of a handler, from admission to the answer *)

LEMMA AnyTyped == AnyProfile \in AllProfiles /\ AnyKey \in Keys
<1>1. (CHOOSE a \in DOMAIN Asks : TRUE) \in DOMAIN Asks
  BY HotPathAssumption
<1>2. AnyKey \in Keys
  BY HotPathAssumption DEF AnyKey
<1> QED BY <1>1, <1>2 DEF AnyProfile, AllProfiles

LEMMA FreshTyped ==
  ASSUME NEW p \in AllProfiles, NEW k \in Keys
  PROVE  Fresh(p, k) \in Request
  BY DEF Fresh, Request, Phases, Arms, Answerers, Bodies

LEMMA IdleSafe == Idle \in Request /\ SlotSafe(Idle)
<1>1. Idle \in Request
  BY AnyTyped, FreshTyped DEF Idle
<1>2. /\ Idle.pc = "idle" /\ Idle.found = NoEntry /\ Idle.served = "none" /\ Idle.model = "incumbent"
      /\ Idle.arm = "none"
  BY DEF Idle, Fresh
<1> QED BY <1>1, <1>2 DEF SlotSafe, Truthful, NoEntry

\* What is left of a request when its capture ends.
LEMMA ForgottenSafe ==
  ASSUME NEW x, x = [Idle EXCEPT !.pc = "done"]
  PROVE  x \in Request /\ SlotSafe(x) /\ x.pc = "done"
<1>1. Idle \in Request
  BY IdleSafe
<1>2. x \in Request
  BY <1>1 DEF Request, Phases
<1>3. /\ x.pc = "done" /\ x.found = NoEntry /\ x.served = "none" /\ x.model = "incumbent"
      /\ x.arm = "none"
  BY <1>1 DEF Idle, Fresh
<1> QED BY <1>2, <1>3 DEF SlotSafe, Truthful, NoEntry

LEMMA ArrivalSafe ==
  ASSUME NEW p \in Profiles, NEW k \in Keys, NEW x,
         x = [Fresh(p, k) EXCEPT
                !.pc = IF p.optimize /\ p.dialect = "openai" THEN "probe" ELSE "resolve",
                !.store = p.dialect = "openai" /\ ~p.optimize]
  PROVE  x \in Request /\ SlotSafe(x) /\ x.pc # "done"
<1>1. p \in AllProfiles /\ Fresh(p, k) \in Request
  BY FreshTyped, HotPathAssumption
<1>2. x \in Request
  BY <1>1 DEF Request, Phases
<1>3. /\ x.found = NoEntry /\ x.served = "none" /\ x.model = "incumbent" /\ x.arm = "none" /\ x.prof = p
      /\ x.keyed = {}
      /\ x.pc = (IF p.optimize /\ p.dialect = "openai" THEN "probe" ELSE "resolve")
      /\ x.store <=> p.dialect = "openai" /\ ~p.optimize
  BY <1>1 DEF Fresh
<1> QED BY <1>2, <1>3 DEF SlotSafe, Truthful, NoEntry

\* The probes that find nothing move the request on.
LEMMA MissSafe ==
  ASSUME NEW r \in Request, SlotSafe(r), r.pc \in {"probe", "semantic"}, NEW x,
         NEW next \in {"semantic", "resolve"},
         \/ x = [r EXCEPT !.pc = next]
         \/ x = [r EXCEPT !.pc = next, !.store = TRUE] /\ r.pc = "probe" /\ ExactAllowed(r)
  PROVE  x \in Request /\ SlotSafe(x) /\ x.pc # "done"
<1>0. x \in {[r EXCEPT !.pc = next], [r EXCEPT !.pc = next, !.store = TRUE]}
  OBVIOUS
<1>1. x \in Request
  <2>1. r.found \in Entry \cup {NoEntry} /\ next \in Phases
    BY DEF Request, Phases
  <2> QED BY ZenonT(30), <1>0, <2>1 DEF Request
<1>2. /\ x.pc = next /\ x.found = r.found /\ x.served = r.served /\ x.model = r.model /\ x.arm = r.arm
      /\ x.lever = r.lever /\ x.body = r.body /\ x.prof = r.prof /\ x.keyed = r.keyed
  BY DEF Request
<1>3. (x.store <=> r.store) \/ (r.pc = "probe" /\ ExactAllowed(r))
  BY DEF Request
<1>4. ExactAllowed(x) <=> ExactAllowed(r)
  BY <1>2 DEF Class, ExactAllowed
<1>5. r.served = "none" /\ r.prof.optimize /\ r.prof.dialect = "openai" /\ r.model = "incumbent"
  BY DEF SlotSafe
<1> QED BY <1>1, <1>2, <1>3, <1>4, <1>5 DEF SlotSafe

\* A request with an entry in hand.
LEMMA HoldingSafe ==
  ASSUME NEW r \in Request, SlotSafe(r), NEW e \in SafeEntry, NEW k \in Keys, NEW x,
         NEW pc \in {"fill", "found"},
         \/ r.pc \in {"probe", "semantic"} /\ x = [r EXCEPT !.pc = pc, !.key = k, !.found = e]
         \/ r.pc = "fill" /\ x = [r EXCEPT !.pc = "found"]
  PROVE  x \in Request /\ SlotSafe(x) /\ x.pc # "done"
<1>1. x \in Request
  <2>1. pc \in Phases /\ "found" \in Phases /\ e \in Entry \cup {NoEntry}
    BY DEF Phases, SafeEntry
  <2> QED BY ZenonT(30), <2>1 DEF Request
<1>2. /\ x.pc \in {"fill", "found"} /\ x.found \in {e, r.found} /\ x.served = r.served /\ x.model = r.model
      /\ x.arm = r.arm /\ x.lever = r.lever /\ x.body = r.body /\ x.prof = r.prof /\ (x.store <=> r.store)
      /\ x.keyed = r.keyed
  BY DEF Request
<1>3. e.holds # "degraded"
  BY DEF SafeEntry
<1> QED BY <1>1, <1>2, <1>3 DEF SlotSafe

\* What Answer leaves of a request.
LEMMA AnswerFields ==
  ASSUME NEW r \in Request, NEW how \in {"hit", "paid"}, NEW x, x = Answer(r, how)
  PROVE  /\ x \in Request
         /\ x.pc = "done" /\ x.served = how /\ x.found = NoEntry /\ x.model = r.model /\ x.arm = r.arm
         /\ x.lever = r.lever /\ x.body = r.body /\ (x.store <=> r.store)
         /\ x.prof.optimize <=> r.prof.optimize
<1> DEFINE p == [AnyProfile EXCEPT !.optimize = r.prof.optimize]
<1>1. r.prof \in AllProfiles
  BY DEF Request
<1>2. p \in AllProfiles /\ (p.optimize <=> r.prof.optimize)
  BY <1>1, AnyTyped DEF AllProfiles
<1>3. x = [r EXCEPT !.pc = "done", !.served = how, !.found = NoEntry, !.keyed = {}, !.prof = p]
  BY DEF Answer
<1> HIDE DEF p
<1>4. /\ x \in Request
      /\ x.pc = "done" /\ x.served = how /\ x.found = NoEntry /\ x.model = r.model /\ x.arm = r.arm
      /\ x.lever = r.lever /\ x.body = r.body /\ (x.store <=> r.store) /\ x.prof = p
  BY ZenonT(30), <1>2, <1>3 DEF Request, Phases
<1> QED BY <1>2, <1>4

\* A hit is for optimized traffic only.
LEMMA HitSafe ==
  ASSUME NEW r \in Request, SlotSafe(r), r.pc = "found", NEW x, x = Answer(r, "hit")
  PROVE  x \in Request /\ SlotSafe(x) /\ x.pc = "done"
<1>1. /\ x \in Request
      /\ x.pc = "done" /\ x.served = "hit" /\ x.found = NoEntry /\ x.model = r.model /\ x.arm = r.arm
      /\ x.lever = r.lever /\ x.body = r.body /\ (x.store <=> r.store)
      /\ x.prof.optimize <=> r.prof.optimize
  BY AnswerFields
<1>2. r.prof.optimize
  BY DEF SlotSafe
<1> QED BY <1>1, <1>2 DEF SlotSafe, NoEntry

\* A request leaves with an allowed outcome.  s: what it says about storing.
LEMMA SentSafe ==
  ASSUME NEW r \in Request, SlotSafe(r), r.pc = "resolve", NEW p \in AllProfiles,
         p.optimize <=> r.prof.optimize, p.ask = r.prof.ask,
         NEW o, Allowed(Asks[r.prof.ask], o), ~r.prof.optimize => o = Passthrough,
         NEW s \in BOOLEAN, s => r.store /\ r.prof.optimize,
         NEW keyed,
         \/ keyed = {}
         \/ keyed = {<<o.model, o.body>>} /\ o.model = "incumbent" /\ o.body = "verbatim",
         NEW x \in Request, x.pc = "await", x.lever = o.lever, x.arm = o.arm, x.model = o.model,
         x.body = o.body, x.prof = p, x.store <=> s, x.keyed = keyed, x.found = r.found,
         x.served = r.served
  PROVE  SlotSafe(x) /\ x.pc # "done"
<1>1. Class(x) = Class(r) /\ Class(r) = ClassifyRequest(Asks[r.prof.ask])
  BY DEF Class
<1>2. x.served = "none" /\ x.found.holds # "degraded"
  BY DEF SlotSafe
<1>3. x.model \in {"incumbent"} \cup Candidates /\ Truthful(x.arm, x.lever, x.model, x.body)
  BY DEF Allowed, OutcomeType
<1>4. \A sent \in x.keyed : sent[1] \notin Candidates /\ sent[2] = "verbatim"
  BY DEF Candidates
<1>5. x.keyed # {} => x.body = "verbatim"
  OBVIOUS
<1>6. Planned => /\ RoutingBlockers(Class(x)) # {} => x.model \notin Candidates
                 /\ TrimBlockers(Class(x)) # {} => x.body = "verbatim"
  BY <1>1 DEF Allowed, Candidates
<1>7. x.store => x.prof.optimize /\ ExactAllowed(x)
  BY <1>1 DEF SlotSafe, ExactAllowed
<1>8. ~x.prof.optimize => Plain(x)
  BY DEF Plain, Passthrough, Outcome, Candidates
<1>9. InFlight(x)
  BY <1>4, <1>5, <1>6, <1>7 DEF InFlight
<1> QED BY <1>2, <1>3, <1>8, <1>9 DEF SlotSafe, Candidates

\* The degradation model is asked with the same key.
LEMMA FallbackSafe ==
  ASSUME NEW r \in Request, SlotSafe(r), r.pc = "await", NEW x,
         x = [r EXCEPT !.pc = "fallback",
                       !.keyed = IF r.keyed = {} THEN {} ELSE r.keyed \cup {<<"fallback", r.body>>}]
  PROVE  x \in Request /\ SlotSafe(x) /\ x.pc # "done"
<1> DEFINE n == IF r.keyed = {} THEN {} ELSE r.keyed \cup {<<"fallback", r.body>>}
<1>0. InFlight(r) /\ (~r.prof.optimize => Plain(r)) /\ r.served = "none"
  BY DEF SlotSafe
<1>1. n \in SUBSET (Answerers \X Bodies) /\ (n # {} => r.keyed # {})
  BY DEF Request, Answerers
<1>2. \A sent \in n : sent[1] \notin Candidates /\ sent[2] = "verbatim"
  BY <1>0 DEF InFlight, Candidates
<1> HIDE DEF n
<1>3. x = [r EXCEPT !.pc = "fallback", !.keyed = n]
  BY DEF n
<1>4. /\ x \in Request /\ x.keyed = n
      /\ x.pc = "fallback" /\ x.served = r.served /\ x.found = r.found /\ x.model = r.model /\ x.arm = r.arm
      /\ x.lever = r.lever /\ x.body = r.body /\ (x.store <=> r.store) /\ x.prof = r.prof
  BY <1>1, <1>3 DEF Request, Phases
<1>5. Class(x) = Class(r) /\ (ExactAllowed(x) <=> ExactAllowed(r))
  BY <1>4 DEF Class, ExactAllowed
<1>6. InFlight(x)
  BY <1>0, <1>1, <1>2, <1>4, <1>5 DEF InFlight
<1>7. ~x.prof.optimize => Plain(x)
  BY <1>0, <1>4 DEF Plain
<1> QED BY <1>0, <1>4, <1>6, <1>7 DEF SlotSafe

\* A whole answer, and the degraded one.
LEMMA PaidSafe ==
  ASSUME NEW r \in Request, SlotSafe(r), NEW x,
         \/ r.pc = "await" /\ x = Answer(r, "paid")
         \/ r.pc = "fallback" /\ x = Answer(Degraded(r), "paid")
  PROVE  x \in Request /\ SlotSafe(x) /\ x.pc = "done" /\ x.served = "paid"
<1>0. InFlight(r) /\ (~r.prof.optimize => Plain(r))
  BY DEF SlotSafe
<1>1. CASE r.pc = "await" /\ x = Answer(r, "paid")
  <2>1. /\ x \in Request
        /\ x.pc = "done" /\ x.served = "paid" /\ x.found = NoEntry /\ x.model = r.model /\ x.arm = r.arm
        /\ x.lever = r.lever /\ x.body = r.body /\ (x.store <=> r.store)
        /\ x.prof.optimize <=> r.prof.optimize
    BY <1>1, AnswerFields
  <2>2. ~x.prof.optimize => Plain(x)
    BY <1>0, <2>1 DEF Plain
  <2> QED BY <2>1, <2>2 DEF SlotSafe, NoEntry
<1>2. CASE r.pc = "fallback" /\ x = Answer(Degraded(r), "paid")
  <2> DEFINE d == Degraded(r)
  <2>1. /\ d \in Request /\ d.model = "fallback" /\ d.lever = "none" /\ d.arm = "none" /\ ~d.store
        /\ d.body = r.body /\ d.prof = r.prof
    BY DEF Degraded, Request, Answerers, Arms
  <2> HIDE DEF d
  <2>2. x = Answer(d, "paid")
    BY <1>2 DEF d
  <2>3. /\ x \in Request
        /\ x.pc = "done" /\ x.served = "paid" /\ x.found = NoEntry /\ x.model = d.model /\ x.arm = d.arm
        /\ x.lever = d.lever /\ x.body = d.body /\ (x.store <=> d.store)
        /\ x.prof.optimize <=> d.prof.optimize
    BY <2>1, <2>2, AnswerFields
  <2>4. ~x.prof.optimize => Plain(x)
    BY <1>0, <2>1, <2>3 DEF Plain, Candidates
  <2>5. Truthful(x.arm, x.lever, x.model, x.body)
    BY <2>1, <2>3 DEF Truthful
  <2> QED BY <2>1, <2>3, <2>4, <2>5 DEF SlotSafe, NoEntry
<1> QED BY <1>1, <1>2

\* What is left of a request between its ledger row and its cache write.
LEMMA MeteredSafe ==
  ASSUME NEW r \in Request, SlotSafe(r), NEW x,
         x = [Idle EXCEPT !.pc = "done", !.key = r.key, !.store = r.store, !.model = r.model]
  PROVE  x \in Request /\ SlotSafe(x) /\ x.pc = "done"
<1>1. Idle \in Request /\ Idle.found = NoEntry /\ Idle.served = "none" /\ Idle.arm = "none"
  BY IdleSafe DEF Idle, Fresh
<1>2. /\ x \in Request /\ x.pc = "done" /\ x.found = NoEntry /\ x.served = "none" /\ x.arm = "none"
      /\ x.model = r.model /\ (x.store <=> r.store)
  BY <1>1 DEF Request, Phases
<1> QED BY <1>2 DEF SlotSafe, Truthful, NoEntry

\* Time and the purge touch only what the request has read.
LEMMA AgedSafe ==
  ASSUME NEW r \in Request, SlotSafe(r), NEW e \in SafeEntry, NEW x,
         x = [r EXCEPT !.found = e] \/ x = [r EXCEPT !.gone = TRUE]
  PROVE  x \in Request /\ SlotSafe(x) /\ x.pc = r.pc /\ x.served = r.served
<1>1. x \in Request
  BY ZenonT(30) DEF Request, SafeEntry
<1>2. /\ x.pc = r.pc /\ x.found \in {e, r.found} /\ x.served = r.served /\ x.model = r.model /\ x.arm = r.arm
      /\ x.lever = r.lever /\ x.body = r.body /\ x.prof = r.prof /\ (x.store <=> r.store) /\ x.keyed = r.keyed
  BY DEF Request
<1>3. Class(x) = Class(r) /\ (ExactAllowed(x) <=> ExactAllowed(r))
  BY <1>2 DEF Class, ExactAllowed
<1>4. (InFlight(r) => InFlight(x)) /\ (Plain(r) => Plain(x)) /\ e.holds # "degraded"
  BY <1>2, <1>3 DEF InFlight, Plain, SafeEntry
<1> QED BY <1>1, <1>2, <1>3, <1>4 DEF SlotSafe

-----------------------------------------------------------------------------
(* The step of UsageLedger that a step of the hot path takes *)

\* What LedgerEntry comes to when rows and jobs agree.
EntryOf(phase, served) ==
  IF phase \in Charged THEN "charged"
  ELSE IF phase \in {"none", "lost"} THEN phase
  ELSE IF served = "paid" THEN "owed_paid" ELSE "owed_free"

EntryNow(q) == EntryOf(job[q], req[q].served)
EntryThen(q) == EntryOf(job'[q], req'[q].served)

\* A step of the abstract ledger, or none.
Simulated == [Ledger!Next]_(Ledger!vars)

LEMMA EntriesNow == QueueInv => \A q \in Requests : LedgerEntry(q) = EntryNow(q)
  BY DEF QueueInv, MeteringSafe, LedgerEntry, EntryNow, EntryThen, EntryOf, Charged

LEMMA EntriesNext == QueueInv' => \A q \in Requests : LedgerEntry(q)' = EntryThen(q)
  BY DEF QueueInv, MeteringSafe, LedgerEntry, EntryNow, EntryThen, EntryOf, Charged

LEMMA Stutters ==
  ASSUME QueueInv, QueueInv', faults' = faults, \A q \in Requests : EntryThen(q) = EntryNow(q)
  PROVE  Simulated
  BY EntriesNow, EntriesNext DEF Simulated, Ledger!vars

\* One call is answered, charged, dropped or closed.
LEMMA OneEntry ==
  ASSUME QueueInv, QueueInv', faults' = faults, NEW q \in Requests,
         \A u \in Requests \ {q} : EntryThen(u) = EntryNow(u),
         \/ EntryNow(q) = "none" /\ EntryThen(q) \in Ledger!Owed
         \/ EntryNow(q) \in Ledger!Owed /\ EntryThen(q) = "charged"
         \/ EntryNow(q) = "owed_free" /\ EntryThen(q) = "lost"
         \/ EntryNow(q) \in {"charged", "lost"} /\ EntryThen(q) = "none"
  PROVE  Simulated
<1> DEFINE e == [c \in Requests |-> LedgerEntry(c)]
<1>1. e' = [e EXCEPT ![q] = EntryThen(q)] /\ e[q] = EntryNow(q)
  BY EntriesNow, EntriesNext
<1> QED BY <1>1 DEF Simulated, Ledger!Next, Ledger!Answer, Ledger!Charge, Ledger!Drop, Ledger!Close

\* A fault takes calls with it, and a call may be answered by the same step.
LEMMA FaultEntries ==
  ASSUME QueueInv, QueueInv', faults' \in {faults, faults + 1}, 0 < faults',
         NEW o \in Ledger!Owed,
         \A u \in Requests : \/ EntryThen(u) = EntryNow(u)
                             \/ EntryNow(u) \in Ledger!Owed /\ EntryThen(u) = "lost"
                             \/ EntryNow(u) = "none" /\ EntryThen(u) = o
  PROVE  Simulated
<1> DEFINE e == [c \in Requests |-> LedgerEntry(c)]
           gone == {c \in Requests : e[c] \in Ledger!Owed /\ EntryThen(c) = "lost"}
           answered == {c \in Requests : e[c] = "none" /\ EntryThen(c) = o}
<1>1. \A c \in Requests : e[c] = EntryNow(c) /\ e'[c] = EntryThen(c)
  BY EntriesNow, EntriesNext
<1>2. e' = [c \in Requests |-> IF c \in gone THEN "lost" ELSE IF c \in answered THEN o ELSE e[c]]
  BY <1>1 DEF Ledger!Owed
<1>3. gone \in SUBSET {c \in Requests : e[c] \in Ledger!Owed} /\ answered \in SUBSET {c \in Requests : e[c] = "none"}
  OBVIOUS
<1>4. faults' \in faults..(faults + 1) /\ faults' <= MaxFaults
  BY HotPathAssumption DEF QueueInv
<1> HIDE DEF gone, answered
<1> QED BY <1>2, <1>3, <1>4 DEF Simulated, Ledger!Next, Ledger!Fault

-----------------------------------------------------------------------------
(* Queue, jobs and rows *)

\* A step that moves one handler between states without an answer.
LEMMA QuietStep ==
  ASSUME HotInv, NEW q \in Requests, NEW x \in Request, SlotSafe(x), x.pc # "done",
         req[q].pc # "done", req' = [req EXCEPT ![q] = x], UNCHANGED captureVars, CacheInv'
  PROVE  HotInv' /\ Simulated
<1>1. ReqInv'
  BY DEF HotInv, ReqInv
<1>2. TagInv'
  BY DEF HotInv, TagInv, captureVars
<1>3. UNCHANGED <<job, queue, dead, rows, tag, faults>> /\ job[q] = "none"
  BY DEF HotInv, QueueInv, MeteringSafe, captureVars
<1>4. req'[q] = x /\ \A u \in Requests \ {q} : req'[u] = req[u]
  BY DEF HotInv, ReqInv
<1>5. QueueInv'
  BY <1>3, <1>4 DEF HotInv, QueueInv, MeteringSafe
<1>6. \A u \in Requests : EntryThen(u) = EntryNow(u)
  BY <1>3, <1>4 DEF EntryNow, EntryThen, EntryOf, Charged
<1>7. Simulated
  BY <1>3, <1>5, <1>6, Stutters DEF HotInv
<1> QED BY <1>1, <1>2, <1>5, <1>7 DEF HotInv

\* An answer and its capture job: the queue takes it, or a task of its own; a
\* queue that lost a worker is replaced and takes its jobs with it.
LEMMA ScheduleQueue ==
  ASSUME HotInv, NEW q \in Requests, job[q] = "none", NEW d, Schedule(q, d),
         UNCHANGED <<rows, faults>>, req'[q].pc = "done", \A u \in Requests \ {q} : req'[u] = req[u]
  PROVE  QueueInv'
<1>q. QueueInv /\ MeteringSafe /\ QueueSize \in Nat \ {0}
  BY HotPathAssumption DEF HotInv, QueueInv
<1>1. CASE CaptureInline(q)
  <2>1. job' = [job EXCEPT ![q] = "task"] /\ UNCHANGED <<queue, dead>>
    BY <1>1 DEF CaptureInline
  <2>2. job' \in [Requests -> JobPhases] /\ job'[q] = "task" /\ \A u \in Requests \ {q} : job'[u] = job[u]
    BY <1>q, <2>1 DEF QueueInv, JobPhases
  <2>3. \A i \in 1..Len(queue) : queue[i] \in Requests /\ queue[i] # q
    BY <1>q DEF QueueInv, MeteringSafe
  <2>4. MeteringSafe'
    BY <1>q, <2>1, <2>2, <2>3 DEF MeteringSafe, Charged
  <2> QED BY <1>q, <2>1, <2>2, <2>4 DEF QueueInv
<1>2. CASE Enqueue(q) /\ dead > 0
  <2>1. /\ queue' = <<q>> /\ dead' = 0
        /\ job' = [r \in Requests |-> IF r = q THEN "queued"
                                      ELSE IF job[r] \in {"queued", "running"} THEN "lost"
                                      ELSE IF job[r] = "metered" THEN "done" ELSE job[r]]
    BY <1>2 DEF Enqueue
  <2>2. job' \in [Requests -> JobPhases] /\ job'[q] = "queued"
    BY <1>q, <2>1 DEF QueueInv, JobPhases
  <2>3. queue' \in Seq(Requests) /\ Len(queue') = 1 /\ queue'[1] = q
    BY <2>1
  <2>4. \A u \in Requests \ {q} : /\ job'[u] = "none" <=> job[u] = "none"
                                  /\ job'[u] \in Charged <=> job[u] \in Charged
    BY <2>1 DEF Charged
  <2>5. MeteringSafe'
    BY <1>q, <2>1, <2>2, <2>3, <2>4 DEF MeteringSafe, Charged
  <2>6. Len(queue') <= QueueSize
    BY <1>q, <2>3
  <2>7. dead' \in Nat
    BY <2>1
  <2> QED BY <1>q, <2>2, <2>3, <2>5, <2>6, <2>7 DEF QueueInv
<1>3. CASE Enqueue(q) /\ ~(dead > 0) /\ Len(queue) < QueueSize
  <2>1. queue' = Append(queue, q) /\ dead' = dead /\ job' = [job EXCEPT ![q] = "queued"]
    BY <1>3 DEF Enqueue
  <2>2. job' \in [Requests -> JobPhases] /\ job'[q] = "queued" /\ \A u \in Requests \ {q} : job'[u] = job[u]
    BY <1>q, <2>1 DEF QueueInv, JobPhases
  <2>3. /\ queue' \in Seq(Requests) /\ Len(queue') = Len(queue) + 1 /\ queue'[Len(queue) + 1] = q
        /\ \A i \in 1..Len(queue) : queue'[i] = queue[i]
    BY <1>q, <2>1 DEF QueueInv
  <2>4. \A i \in 1..Len(queue) : queue[i] \in Requests /\ queue[i] # q
    BY <1>q DEF QueueInv, MeteringSafe
  <2>5. Len(queue) \in Nat /\ Len(queue') <= QueueSize
    BY <1>q, <1>3, <2>3 DEF QueueInv
  <2>6. \A i \in 1..Len(queue') : job'[queue'[i]] = "queued"
    BY <1>q, <2>2, <2>3, <2>4, <2>5 DEF MeteringSafe
  <2>7. \A i, j \in 1..Len(queue') : queue'[i] = queue'[j] => i = j
    BY <1>q, <2>3, <2>4, <2>5 DEF MeteringSafe
  <2>8. MeteringSafe'
    BY <1>q, <2>1, <2>2, <2>6, <2>7 DEF MeteringSafe, Charged
  <2> QED BY <1>q, <2>1, <2>2, <2>3, <2>5, <2>8 DEF QueueInv
<1>4. CASE Enqueue(q) /\ ~(dead > 0) /\ ~(Len(queue) < QueueSize)
  <2>1. CaptureInline(q)
    BY <1>4 DEF Enqueue, CaptureInline
  <2> QED BY <1>1, <2>1
<1> QED BY <1>1, <1>2, <1>3, <1>4 DEF Schedule

LEMMA AnswerStep ==
  ASSUME HotInv, NEW q \in Requests, NEW x \in Request, SlotSafe(x), x.pc = "done",
         req[q].pc # "done", req' = [req EXCEPT ![q] = x], NEW d, Schedule(q, d),
         UNCHANGED <<rows, tag, faults>>, CacheInv'
  PROVE  HotInv' /\ Simulated
<1>1. ReqInv'
  BY DEF HotInv, ReqInv
<1>2. TagInv'
  BY DEF HotInv, TagInv
<1>3. job[q] = "none" /\ QueueInv
  BY DEF HotInv, QueueInv, MeteringSafe
<1>4. req'[q] = x /\ \A u \in Requests \ {q} : req'[u] = req[u]
  BY DEF HotInv, ReqInv
<1>5. QueueInv'
  BY <1>3, <1>4, ScheduleQueue
<1>6. EntryNow(q) = "none"
  BY <1>3 DEF EntryNow, EntryThen, EntryOf, Charged
<1>7. ASSUME ~(dead > 0) \/ CaptureInline(q) PROVE Simulated
  <2>1. job'[q] \in {"queued", "task"} /\ \A u \in Requests \ {q} : job'[u] = job[u]
    BY <1>3, <1>7 DEF Schedule, Enqueue, CaptureInline, QueueInv
  <2>2. EntryThen(q) \in Ledger!Owed /\ \A u \in Requests \ {q} : EntryThen(u) = EntryNow(u)
    BY <1>4, <2>1 DEF EntryNow, EntryThen, EntryOf, Charged, Ledger!Owed
  <2> QED BY <1>3, <1>5, <1>6, <2>2, OneEntry
<1>8. ASSUME dead > 0, Enqueue(q) PROVE Simulated
  <2>1. /\ job'[q] = "queued"
        /\ \A u \in Requests \ {q} : job'[u] = IF job[u] \in {"queued", "running"} THEN "lost"
                                      ELSE IF job[u] = "metered" THEN "done" ELSE job[u]
    BY <1>8 DEF Enqueue
  <2>2. EntryThen(q) \in Ledger!Owed
    BY <2>1 DEF EntryNow, EntryThen, EntryOf, Charged, Ledger!Owed
  <2>3. ASSUME NEW u \in Requests \ {q}
        PROVE  \/ EntryThen(u) = EntryNow(u)
               \/ EntryNow(u) \in Ledger!Owed /\ EntryThen(u) = "lost"
    <3>1. CASE job[u] \in {"queued", "running"}
      BY <2>1, <3>1 DEF EntryNow, EntryThen, EntryOf, Charged, Ledger!Owed
    <3>2. CASE job[u] = "metered"
      BY <2>1, <3>2 DEF EntryNow, EntryThen, EntryOf, Charged
    <3>3. CASE job[u] \notin {"queued", "running", "metered"}
      BY <1>4, <2>1, <3>3 DEF EntryNow, EntryThen
    <3> QED BY <3>1, <3>2, <3>3
  <2>4. 0 < faults
    BY <1>3, <1>8 DEF QueueInv, MeteringSafe
  <2>5. PICK o \in Ledger!Owed : EntryThen(q) = o
    BY <2>2
  <2>6. \A u \in Requests : \/ EntryThen(u) = EntryNow(u)
                            \/ EntryNow(u) \in Ledger!Owed /\ EntryThen(u) = "lost"
                            \/ EntryNow(u) = "none" /\ EntryThen(u) = o
    <3> SUFFICES ASSUME NEW u \in Requests
                 PROVE  \/ EntryThen(u) = EntryNow(u)
                        \/ EntryNow(u) \in Ledger!Owed /\ EntryThen(u) = "lost"
                        \/ EntryNow(u) = "none" /\ EntryThen(u) = o
      OBVIOUS
    <3>1. CASE u = q
      BY <1>6, <2>5, <3>1
    <3>2. CASE u # q
      BY <2>3, <3>2
    <3> QED BY <3>1, <3>2
  <2>7. faults' = faults
    OBVIOUS
  <2> QED BY <1>3, <1>5, <2>4, <2>6, <2>7, FaultEntries
<1> QED BY <1>1, <1>2, <1>5, <1>7, <1>8 DEF HotInv, Schedule

-----------------------------------------------------------------------------
(* The handler *)

LEMMA SlotNow ==
  ASSUME HotInv, NEW q \in Requests
  PROVE  req[q] \in Request /\ SlotSafe(req[q]) /\ req[q].key \in Keys
  BY DEF HotInv, ReqInv, Request

LEMMA CacheKept == HotInv /\ UNCHANGED cacheVars => CacheInv'
  BY DEF HotInv, CacheInv, cacheVars

LEMMA NoEntrySafe == NoEntry \in SafeEntry
  BY DEF NoEntry, SafeEntry

LEMMA NoTagSafe == NoTag \in Tag /\ TagSafe(NoTag)
  BY DEF NoTag, Tag, TagSafe, Truthful, Arms, Bodies

\* Admission, refusals and the cache policy's refusals to look.
LEMMA AdmissionSafe ==
  ASSUME HotInv, NEW q \in Requests,
         \/ \E p \in Profiles, k \in Keys : Arrive(q, p, k)
         \/ Refuse(q) \/ SkipCache(q) \/ ExactBlocked(q) \/ Abandon(q)
  PROVE  HotInv' /\ Simulated
<1>r. req[q] \in Request /\ SlotSafe(req[q])
  BY SlotNow
<1>c. CacheInv'
  BY CacheKept DEF Arrive, Refuse, SkipCache, ExactBlocked, Abandon
<1>u. UNCHANGED captureVars
  BY DEF Arrive, Refuse, SkipCache, ExactBlocked, Abandon
<1>1. ASSUME NEW p \in Profiles, NEW k \in Keys, Arrive(q, p, k) PROVE HotInv' /\ Simulated
  <2>1. PICK x : x = [Fresh(p, k) EXCEPT
                        !.pc = IF p.optimize /\ p.dialect = "openai" THEN "probe" ELSE "resolve",
                        !.store = p.dialect = "openai" /\ ~p.optimize]
    OBVIOUS
  <2>2. req[q].pc = "idle" /\ req' = [req EXCEPT ![q] = x]
    BY <1>1, <2>1 DEF Arrive
  <2>3. x \in Request /\ SlotSafe(x) /\ x.pc # "done"
    BY <2>1, ArrivalSafe
  <2> QED BY <1>c, <1>u, <2>2, <2>3, QuietStep
<1>2. CASE Refuse(q) \/ Abandon(q)
  <2>1. req[q].pc # "done" /\ req' = [req EXCEPT ![q] = Idle]
    BY <1>2 DEF Refuse, Abandon
  <2>2. Idle \in Request /\ SlotSafe(Idle) /\ Idle.pc # "done"
    BY IdleSafe DEF Idle, Fresh
  <2> QED BY <1>c, <1>u, <2>1, <2>2, QuietStep
<1>3. CASE SkipCache(q) \/ ExactBlocked(q)
  <2>1. PICK next \in {"semantic", "resolve"} : req' = [req EXCEPT ![q] = [req[q] EXCEPT !.pc = next]]
    BY <1>3 DEF SkipCache, ExactBlocked, Goto, NextProbe
  <2>2. PICK x : x = [req[q] EXCEPT !.pc = next]
    OBVIOUS
  <2>3. req[q].pc = "probe"
    BY <1>3 DEF SkipCache, ExactBlocked
  <2>4. x \in Request /\ SlotSafe(x) /\ x.pc # "done"
    BY <1>r, <2>2, <2>3, MissSafe
  <2> QED BY <1>c, <1>u, <2>1, <2>2, <2>3, <2>4, QuietStep
<1> QED BY <1>1, <1>2, <1>3

\* A found entry answers, whatever has become of it.
LEMMA ServedSafe ==
  ASSUME HotInv, NEW q \in Requests, ServeHit(q)
  PROVE  HotInv' /\ Simulated
<1>r. req[q] \in Request /\ SlotSafe(req[q])
  BY SlotNow
<1>1. PICK x : x = Answer(req[q], "hit")
  OBVIOUS
<1>2. /\ req[q].pc = "found" /\ req' = [req EXCEPT ![q] = x] /\ Schedule(q, TRUE)
      /\ UNCHANGED <<rows, tag, faults>> /\ CacheInv'
  BY <1>1, CacheKept DEF ServeHit, Answered
<1>3. x \in Request /\ SlotSafe(x) /\ x.pc = "done"
  BY <1>r, <1>1, <1>2, HitSafe
<1> QED BY <1>2, <1>3, AnswerStep

\* An entry is taken in hand, from the snapshot, the table or the search.
LEMMA TakenSafe ==
  ASSUME HotInv, NEW q \in Requests, req[q].pc \in {"probe", "semantic"}, NEW k \in Keys,
         NEW e \in SafeEntry, NEW pc \in {"fill", "found"}, Holding(q, k, e, pc),
         UNCHANGED captureVars, CacheInv'
  PROVE  HotInv' /\ Simulated
<1>r. req[q] \in Request /\ SlotSafe(req[q])
  BY SlotNow
<1>1. PICK x : x = [req[q] EXCEPT !.pc = pc, !.key = k, !.found = e]
  OBVIOUS
<1>2. req' = [req EXCEPT ![q] = x]
  BY <1>1 DEF Holding
<1>3. x \in Request /\ SlotSafe(x) /\ x.pc # "done"
  BY <1>r, <1>1, HoldingSafe
<1> QED BY <1>2, <1>3, QuietStep

LEMMA ProbeSafe ==
  ASSUME HotInv, NEW q \in Requests,
         ProbeSnapshot(q) \/ ProbeTable(q) \/ FillSnapshot(q) \/ ProbeSemantic(q)
  PROVE  HotInv' /\ Simulated
<1>r. req[q] \in Request /\ SlotSafe(req[q]) /\ req[q].key \in Keys
  BY SlotNow
<1>e. \A k \in Keys : cached[k] \in SafeEntry /\ snap[k] \in SafeEntry
  BY DEF HotInv, CacheInv
<1>u. UNCHANGED captureVars
  BY DEF ProbeSnapshot, ProbeTable, FillSnapshot, ProbeSemantic
<1>1. CASE ProbeSnapshot(q)
  <2>1. req[q].pc = "probe" /\ Holding(q, req[q].key, snap[req[q].key], "found") /\ CacheInv'
    BY <1>1, CacheKept DEF ProbeSnapshot
  <2> QED BY <1>r, <1>e, <1>u, <2>1, TakenSafe
<1>2. CASE ProbeTable(q)
  <2> DEFINE k == req[q].key
  <2>1. req[q].pc = "probe" /\ ExactAllowed(req[q])
    BY <1>2 DEF ProbeTable
  <2>2. CacheInv'
    <3>1. cached' = cached /\ snap' \in {snap, [snap EXCEPT ![k] = NoEntry]}
      BY <1>2 DEF ProbeTable
    <3> QED BY <3>1, NoEntrySafe DEF HotInv, CacheInv
  <2>3. ASSUME NEW planned \in Planners,
               req' = [req EXCEPT ![q] = [req[q] EXCEPT !.pc = NextProbe(planned), !.store = TRUE]]
        PROVE  HotInv' /\ Simulated
    <3>1. PICK x : x = [req[q] EXCEPT !.pc = NextProbe(planned), !.store = TRUE]
      OBVIOUS
    <3>2. NextProbe(planned) \in {"semantic", "resolve"}
      BY DEF NextProbe
    <3>3. x \in Request /\ SlotSafe(x) /\ x.pc # "done"
      BY <1>r, <2>1, <3>1, <3>2, MissSafe
    <3> QED BY <1>u, <2>1, <2>2, <2>3, <3>1, <3>3, QuietStep
  <2>4. ASSUME NEW pc \in {"fill", "found"}, Holding(q, k, cached[k], pc) PROVE HotInv' /\ Simulated
    BY <1>r, <1>e, <1>u, <2>1, <2>2, <2>4, TakenSafe
  <2> QED BY <1>2, <2>3, <2>4 DEF ProbeTable
<1>3. CASE FillSnapshot(q)
  <2>1. PICK x : x = [req[q] EXCEPT !.pc = "found"]
    OBVIOUS
  <2>2. req[q].pc = "fill" /\ req' = [req EXCEPT ![q] = x]
    BY <1>3, <2>1 DEF FillSnapshot, Goto
  <2>3. req[q].found \in SafeEntry
    BY <1>r DEF SlotSafe, SafeEntry, Request
  <2>4. CacheInv'
    BY <1>3, <2>3 DEF HotInv, CacheInv, FillSnapshot
  <2>5. x \in Request /\ SlotSafe(x) /\ x.pc # "done"
    BY <1>r, <2>1, <2>2, <2>3, HoldingSafe
  <2> QED BY <1>u, <2>2, <2>4, <2>5, QuietStep
<1>4. CASE ProbeSemantic(q)
  <2>1. req[q].pc = "semantic" /\ CacheInv'
    BY <1>4, CacheKept DEF ProbeSemantic
  <2>2. ASSUME NEW k \in Keys, Holding(q, k, cached[k], "found") PROVE HotInv' /\ Simulated
    BY <1>e, <1>u, <2>1, <2>2, TakenSafe
  <2>3. ASSUME req' = Goto(q, "resolve") PROVE HotInv' /\ Simulated
    <3>1. PICK x : x = [req[q] EXCEPT !.pc = "resolve"]
      OBVIOUS
    <3>2. x \in Request /\ SlotSafe(x) /\ x.pc # "done"
      BY <1>r, <2>1, <3>1, MissSafe
    <3> QED BY <1>u, <2>1, <2>3, <3>1, <3>2, QuietStep DEF Goto
  <2> QED BY <1>4, <2>2, <2>3 DEF ProbeSemantic
<1> QED BY <1>1, <1>2, <1>3, <1>4

\* What Sent leaves of a request.
LEMMA SentFields ==
  ASSUME NEW r \in Request, NEW o \in OutcomeType, NEW x, x = Sent(r, o)
  PROVE  /\ x \in Request /\ x.pc = "await" /\ x.lever = o.lever /\ x.arm = o.arm /\ x.model = o.model
         /\ x.body = o.body /\ (x.store <=> r.store) /\ x.keyed = r.keyed /\ x.found = r.found
         /\ x.served = r.served
         /\ x.prof \in AllProfiles /\ (x.prof.optimize <=> r.prof.optimize) /\ x.prof.ask = r.prof.ask
<1> DEFINE p == [r.prof EXCEPT !.idem = FALSE]
<1>1. r.prof \in AllProfiles
  BY DEF Request
<1>2. p \in AllProfiles /\ (p.optimize <=> r.prof.optimize) /\ p.ask = r.prof.ask
  BY <1>1 DEF AllProfiles
<1>3. x = [r EXCEPT !.pc = "await", !.lever = o.lever, !.arm = o.arm, !.model = o.model,
                    !.body = o.body, !.prof = p]
  BY DEF Sent
<1> HIDE DEF p
<1>4. /\ o.lever \in {"none", "route", "transform"} /\ o.arm \in Arms /\ o.model \in Answerers
      /\ o.body \in Bodies
  BY DEF OutcomeType, Answerers
<1>5. /\ x \in Request /\ x.pc = "await" /\ x.lever = o.lever /\ x.arm = o.arm /\ x.model = o.model
      /\ x.body = o.body /\ (x.store <=> r.store) /\ x.keyed = r.keyed /\ x.found = r.found
      /\ x.served = r.served /\ x.prof = p
  BY ZenonT(30), <1>2, <1>3, <1>4 DEF Request, Phases
<1> QED BY <1>2, <1>5

LEMMA ForwardOpenAISafe ==
  ASSUME HotInv, NEW q \in Requests, req[q].pc = "resolve", NEW chosen \in Outcomes[req[q].prof],
         NEW hasKey \in BOOLEAN, ForwardOpenAI(q, chosen, hasKey)
  PROVE  HotInv' /\ Simulated /\ \E x : req' = [req EXCEPT ![q] = x] /\ x.pc = "await"
<1>r. req[q] \in Request /\ SlotSafe(req[q])
  BY SlotNow
<1>p. req[q].prof \in Profiles /\ req[q].prof \in AllProfiles
  BY <1>r, HotPathAssumption DEF SlotSafe
<1>1. PICK o : o = CandidateProvider(chosen, hasKey)
  OBVIOUS
<1>2. Allowed(Asks[req[q].prof.ask], o) /\ (~req[q].prof.optimize => o = Passthrough) /\ o \in OutcomeType
  BY <1>p, <1>1, OutcomesAllowed DEF Allowed
<1>3. PICK t : t = Sent(req[q], o)
  OBVIOUS
<1>4. /\ t \in Request /\ t.pc = "await" /\ t.lever = o.lever /\ t.arm = o.arm /\ t.model = o.model
      /\ t.body = o.body /\ (t.store <=> req[q].store) /\ t.keyed = req[q].keyed /\ t.found = req[q].found
      /\ t.served = req[q].served
      /\ t.prof \in AllProfiles /\ (t.prof.optimize <=> req[q].prof.optimize) /\ t.prof.ask = req[q].prof.ask
  BY <1>r, <1>2, <1>3, SentFields
<1>5. PICK r : r = [t EXCEPT !.prof.idem = req[q].prof.idem]
  OBVIOUS
<1>6. /\ r \in Request /\ r.pc = "await" /\ r.lever = o.lever /\ r.arm = o.arm /\ r.model = o.model
      /\ r.body = o.body /\ (r.store <=> req[q].store) /\ r.found = req[q].found /\ r.served = req[q].served
      /\ r.prof \in AllProfiles /\ (r.prof.optimize <=> req[q].prof.optimize) /\ r.prof.ask = req[q].prof.ask
  <2>1. PICK p : p = [t.prof EXCEPT !.idem = req[q].prof.idem]
    OBVIOUS
  <2>2. req[q].prof.idem \in BOOLEAN
    BY <1>p DEF AllProfiles
  <2>3. p \in AllProfiles /\ (p.optimize <=> t.prof.optimize) /\ p.ask = t.prof.ask
    BY <1>4, <2>1, <2>2 DEF AllProfiles
  <2>4. r = [t EXCEPT !.prof = p]
    BY <1>5, <2>1
  <2>5. /\ r \in Request /\ r.prof = p /\ r.pc = t.pc /\ r.lever = t.lever /\ r.arm = t.arm /\ r.model = t.model
        /\ r.body = t.body /\ (r.store <=> t.store) /\ r.found = t.found /\ r.served = t.served
    BY <1>4, <2>3, <2>4 DEF Request
  <2> QED BY <1>4, <2>3, <2>5
<1>7. PICK n : n = IF ForwardIdem(r) THEN {<<r.model, r.body>>} ELSE {}
  OBVIOUS
<1>8. /\ n \in SUBSET (Answerers \X Bodies)
      /\ n = {} \/ (n = {<<o.model, o.body>>} /\ o.model = "incumbent" /\ o.body = "verbatim")
  <2>1. r.model \in Answerers /\ r.body \in Bodies
    BY <1>6 DEF Request
  <2> QED BY <1>6, <1>7, <2>1 DEF ForwardIdem
<1>9. PICK x : x = [r EXCEPT !.prof.idem = FALSE, !.store = StoreCache(r), !.keyed = n]
  OBVIOUS
<1>10. /\ req' = [req EXCEPT ![q] = x] /\ UNCHANGED <<captureVars, cacheVars>>
  BY <1>1, <1>3, <1>5, <1>7, <1>9 DEF ForwardOpenAI
<1>11. /\ x \in Request /\ x.pc = "await" /\ x.lever = o.lever /\ x.arm = o.arm /\ x.model = o.model
       /\ x.body = o.body /\ x.keyed = n /\ x.found = req[q].found /\ x.served = req[q].served
       /\ x.store <=> (r.store /\ r.prof.optimize)
       /\ x.prof \in AllProfiles /\ (x.prof.optimize <=> req[q].prof.optimize) /\ x.prof.ask = req[q].prof.ask
  <2>1. PICK p : p = [r.prof EXCEPT !.idem = FALSE]
    OBVIOUS
  <2>3. p \in AllProfiles /\ (p.optimize <=> r.prof.optimize) /\ p.ask = r.prof.ask
    BY <1>6, <2>1 DEF AllProfiles
  <2>4. PICK s \in BOOLEAN : s = StoreCache(r)
    BY <1>6 DEF StoreCache, Request, AllProfiles
  <2>5. s <=> (r.store /\ r.prof.optimize)
    BY <2>4 DEF StoreCache
  <2>6. x = [r EXCEPT !.prof = p, !.store = s, !.keyed = n]
    BY <1>9, <2>1, <2>4
  <2>7. /\ x \in Request /\ x.prof = p /\ x.keyed = n /\ x.store = s /\ x.pc = r.pc /\ x.lever = r.lever
        /\ x.arm = r.arm /\ x.model = r.model /\ x.body = r.body /\ x.found = r.found /\ x.served = r.served
    BY <1>6, <1>8, <2>3, <2>6 DEF Request
  <2> QED BY <1>6, <2>3, <2>5, <2>7
<1>12. SlotSafe(x) /\ x.pc # "done"
  <2>1. x.store \in BOOLEAN /\ (x.store => req[q].store /\ req[q].prof.optimize)
    BY <1>6, <1>11 DEF Request
  <2> QED BY <1>r, <1>2, <1>8, <1>11, <2>1, SentSafe
<1>13. CacheInv'
  BY <1>10, CacheKept
<1> QED BY <1>10, <1>11, <1>12, <1>13, QuietStep

LEMMA ForwardNativeSafe ==
  ASSUME HotInv, NEW q \in Requests, req[q].pc = "resolve", NEW chosen \in Outcomes[req[q].prof],
         NEW hasKey \in BOOLEAN, ForwardNative(q, chosen, hasKey)
  PROVE  HotInv' /\ Simulated /\ \E x : req' = [req EXCEPT ![q] = x] /\ x.pc = "await"
<1>r. req[q] \in Request /\ SlotSafe(req[q])
  BY SlotNow
<1>p. req[q].prof \in Profiles /\ ~req[q].store
  BY <1>r DEF SlotSafe, ForwardNative
<1>1. PICK o : o = CandidateProvider(chosen, hasKey)
  OBVIOUS
<1>2. Allowed(Asks[req[q].prof.ask], o) /\ (~req[q].prof.optimize => o = Passthrough) /\ o \in OutcomeType
  BY <1>p, <1>1, OutcomesAllowed DEF Allowed
<1>3. PICK x : x = Sent(req[q], o)
  OBVIOUS
<1>4. /\ x \in Request /\ x.pc = "await" /\ x.lever = o.lever /\ x.arm = o.arm /\ x.model = o.model
      /\ x.body = o.body /\ (x.store <=> req[q].store) /\ x.keyed = req[q].keyed /\ x.found = req[q].found
      /\ x.served = req[q].served
      /\ x.prof \in AllProfiles /\ (x.prof.optimize <=> req[q].prof.optimize) /\ x.prof.ask = req[q].prof.ask
  BY <1>r, <1>2, <1>3, SentFields
<1>5. req' = [req EXCEPT ![q] = x] /\ UNCHANGED <<captureVars, cacheVars>>
  BY <1>1, <1>3 DEF ForwardNative
<1>6. req[q].keyed = {}
  BY <1>r DEF SlotSafe
<1>7. SlotSafe(x) /\ x.pc # "done"
  <2>1. ~x.store
    BY <1>p, <1>4
  <2> QED BY <1>r, <1>2, <1>4, <1>6, <2>1, SentSafe
<1>8. CacheInv'
  BY <1>5, CacheKept
<1> QED BY <1>4, <1>5, <1>7, <1>8, QuietStep

\* A whole answer, from the model or from the degradation model.
LEMMA RecordedSafe ==
  ASSUME HotInv, NEW q \in Requests, (\E d \in BOOLEAN : Recorded(q, d)) \/ FallbackAnswers(q)
  PROVE  HotInv' /\ Simulated
<1>r. req[q] \in Request /\ SlotSafe(req[q])
  BY SlotNow
<1>1. /\ \E d : Schedule(q, d)
      /\ UNCHANGED <<rows, tag, faults>> /\ CacheInv' /\ req[q].pc # "done"
  <2>1. CaptureInline(q) => Schedule(q, FALSE)
    BY DEF Schedule
  <2> QED BY <2>1, CacheKept DEF Recorded, FallbackAnswers
<1>2. PICK x : /\ \/ req[q].pc = "await" /\ x = Answer(req[q], "paid")
                  \/ req[q].pc = "fallback" /\ x = Answer(Degraded(req[q]), "paid")
               /\ req' = [req EXCEPT ![q] = x]
  BY DEF Recorded, FallbackAnswers, Answered
<1>3. x \in Request /\ SlotSafe(x) /\ x.pc = "done"
  BY <1>r, <1>2, PaidSafe
<1> QED BY <1>1, <1>2, <1>3, AnswerStep

LEMMA TryFallbackSafe ==
  ASSUME HotInv, NEW q \in Requests, TryFallback(q)
  PROVE  HotInv' /\ Simulated
<1>r. req[q] \in Request /\ SlotSafe(req[q])
  BY SlotNow
<1>1. PICK x : x = [req[q] EXCEPT !.pc = "fallback",
                      !.keyed = IF req[q].keyed = {} THEN {} ELSE req[q].keyed \cup {<<"fallback", req[q].body>>}]
  OBVIOUS
<1>2. req' = [req EXCEPT ![q] = x] /\ req[q].pc = "await" /\ UNCHANGED captureVars /\ CacheInv'
  BY <1>1, CacheKept DEF TryFallback
<1>3. x \in Request /\ SlotSafe(x) /\ x.pc # "done"
  BY <1>r, <1>1, <1>2, FallbackSafe
<1> QED BY <1>2, <1>3, QuietStep

\* The next request of the slot.
LEMMA CloseSafe ==
  ASSUME HotInv, NEW q \in Requests, Close(q)
  PROVE  HotInv' /\ Simulated
<1>1. /\ req[q].pc = "done" /\ job[q] \in {"done", "lost"}
      /\ req' = [req EXCEPT ![q] = Idle] /\ job' = [job EXCEPT ![q] = "none"]
      /\ rows' = [rows EXCEPT ![q] = 0] /\ tag' = [tag EXCEPT ![q] = NoTag]
      /\ UNCHANGED <<queue, dead, cacheVars, faults>>
  BY DEF Close, Untag
<1>2. /\ req'[q] = Idle /\ job'[q] = "none" /\ rows'[q] = 0
      /\ \A u \in Requests \ {q} : req'[u] = req[u] /\ job'[u] = job[u] /\ rows'[u] = rows[u]
      /\ job' \in [Requests -> JobPhases] /\ rows' \in [Requests -> Nat]
  BY <1>1 DEF HotInv, ReqInv, QueueInv, JobPhases
<1>3. ReqInv'
  BY <1>1, IdleSafe DEF HotInv, ReqInv
<1>4. TagInv'
  BY <1>1, NoTagSafe DEF HotInv, TagInv
<1>5. CacheInv'
  BY <1>1, CacheKept
<1>6. \A i \in 1..Len(queue) : queue[i] \in Requests /\ queue[i] # q
  BY <1>1 DEF HotInv, QueueInv, MeteringSafe
<1>7. MeteringSafe'
  <2>1. Idle.pc # "done"
    BY DEF Idle, Fresh
  <2> QED BY <1>1, <1>2, <1>6, <2>1 DEF HotInv, QueueInv, MeteringSafe, Charged
<1>8. QueueInv'
  BY <1>1, <1>2, <1>7 DEF HotInv, QueueInv
<1>9. /\ EntryNow(q) \in {"charged", "lost"} /\ EntryThen(q) = "none"
      /\ \A u \in Requests \ {q} : EntryThen(u) = EntryNow(u)
  BY <1>1, <1>2 DEF EntryNow, EntryThen, EntryOf, Charged
<1>10. Simulated
  BY <1>1, <1>8, <1>9, OneEntry DEF HotInv
<1> QED BY <1>3, <1>4, <1>5, <1>8, <1>10 DEF HotInv

-----------------------------------------------------------------------------
(* Capture *)

\* A job in hand moves on: it is not in the queue, so only its slot changes.
LEMMA CaptureQueue ==
  ASSUME HotInv, NEW q \in Requests, job[q] \notin {"none", "queued"},
         NEW j \in JobPhases \ {"none", "queued"}, job' = [job EXCEPT ![q] = j],
         rows' = [rows EXCEPT ![q] = IF j \in Charged THEN 1 ELSE 0],
         req'[q].pc = "done", \A u \in Requests \ {q} : req'[u] = req[u],
         queue' = queue, dead' \in Nat, dead' > 0 => faults' > 0, faults' \in 0..MaxFaults
  PROVE  QueueInv'
<1>1. /\ job'[q] = j /\ rows'[q] = (IF j \in Charged THEN 1 ELSE 0)
      /\ \A u \in Requests \ {q} : job'[u] = job[u] /\ rows'[u] = rows[u]
      /\ job' \in [Requests -> JobPhases] /\ rows' \in [Requests -> Nat]
  BY DEF HotInv, QueueInv
<1>2. \A i \in 1..Len(queue) : queue[i] \in Requests /\ queue[i] # q
  BY DEF HotInv, QueueInv, MeteringSafe
<1>3. MeteringSafe'
  <2>1. /\ \A i \in 1..Len(queue) : job[queue[i]] = "queued"
        /\ \A i, k \in 1..Len(queue) : queue[i] = queue[k] => i = k
    BY DEF HotInv, QueueInv, MeteringSafe
  <2>2. /\ \A i \in 1..Len(queue') : job'[queue'[i]] = "queued"
        /\ \A i, k \in 1..Len(queue') : queue'[i] = queue'[k] => i = k
    BY <1>1, <1>2, <2>1
  <2>3. \A u \in Requests : job'[u] = "none" <=> req'[u].pc # "done"
    BY <1>1 DEF HotInv, QueueInv, MeteringSafe
  <2>4. \A u \in Requests : rows'[u] = IF job'[u] \in Charged THEN 1 ELSE 0
    BY <1>1 DEF HotInv, QueueInv, MeteringSafe
  <2> QED BY <2>2, <2>3, <2>4 DEF MeteringSafe
<1> QED BY <1>1, <1>3 DEF HotInv, QueueInv

\* The ledger row is written once, by the job that held none.
LEMMA MeterAnswerSafe ==
  ASSUME HotInv, NEW q \in Requests, MeterAnswer(q)
  PROVE  HotInv' /\ Simulated
<1>r. req[q] \in Request /\ SlotSafe(req[q])
  BY SlotNow
<1>1. PICK x : x = [Idle EXCEPT !.pc = "done", !.key = req[q].key, !.store = req[q].store, !.model = req[q].model]
  OBVIOUS
<1>2. PICK t : t = [arm |-> req[q].arm, lever |-> req[q].lever, by |-> req[q].model, body |-> req[q].body,
                    sampled |-> FALSE]
  OBVIOUS
<1>3. PICK j : j = IF job[q] = "running" THEN "metered" ELSE "task_metered"
  OBVIOUS
<1>4. /\ job[q] \in {"running", "task"} /\ req[q].served = "paid"
      /\ req' = [req EXCEPT ![q] = x] /\ tag' = [tag EXCEPT ![q] = t] /\ job' = [job EXCEPT ![q] = j]
      /\ rows' = [rows EXCEPT ![q] = rows[q] + 1] /\ UNCHANGED <<queue, dead, cacheVars, faults>>
  BY <1>1, <1>2, <1>3 DEF MeterAnswer, InHand, Metered
<1>5. x \in Request /\ SlotSafe(x) /\ x.pc = "done"
  BY <1>r, <1>1, MeteredSafe
<1>6. t \in Tag /\ TagSafe(t)
  BY <1>r, <1>2 DEF Tag, TagSafe, SlotSafe, Request
<1>7. j \in JobPhases \ {"none", "queued"} /\ j \in Charged
  BY <1>3 DEF JobPhases, Charged
<1>8. req'[q] = x /\ job'[q] = j /\ \A u \in Requests \ {q} : req'[u] = req[u] /\ job'[u] = job[u]
  BY <1>4 DEF HotInv, ReqInv, QueueInv
<1>9. ReqInv' /\ TagInv' /\ CacheInv'
  BY <1>4, <1>5, <1>6, CacheKept DEF HotInv, ReqInv, TagInv
<1>10. rows[q] = 0
  BY <1>4 DEF HotInv, QueueInv, MeteringSafe, Charged
<1>11. QueueInv'
  <2>1. rows' = [rows EXCEPT ![q] = IF j \in Charged THEN 1 ELSE 0]
    BY <1>4, <1>7, <1>10
  <2>2. dead' \in Nat /\ (dead' > 0 => faults' > 0) /\ faults' \in 0..MaxFaults
    BY <1>4 DEF HotInv, QueueInv, MeteringSafe
  <2> QED BY <1>4, <1>5, <1>7, <1>8, <2>1, <2>2, CaptureQueue
<1>12. /\ EntryNow(q) \in Ledger!Owed /\ EntryThen(q) = "charged"
       /\ \A u \in Requests \ {q} : EntryThen(u) = EntryNow(u)
  BY <1>4, <1>7, <1>8 DEF EntryNow, EntryThen, EntryOf, Charged, Ledger!Owed
<1>13. Simulated
  BY <1>4, <1>11, <1>12, OneEntry DEF HotInv
<1> QED BY <1>9, <1>11, <1>13 DEF HotInv

\* Only what may be stored is sampled, so never a degraded answer.
LEMMA SampleSafe ==
  ASSUME HotInv, NEW q \in Requests, Sample(q) \/ tag' = Untag(q) \/ tag' = tag
  PROVE  TagInv'
<1>r. req[q] \in Request /\ SlotSafe(req[q])
  BY SlotNow
<1>1. ASSUME NEW t \in Tag, TagSafe(t), tag' = [tag EXCEPT ![q] = t] PROVE TagInv'
  BY <1>1 DEF HotInv, TagInv
<1>2. CASE tag' = Untag(q)
  BY <1>1, <1>2, NoTagSafe DEF Untag
<1>3. CASE req[q].store /\ tag' = [tag EXCEPT ![q] = [NoTag EXCEPT !.by = req[q].model, !.sampled = TRUE]]
  <2>1. PICK t : t = [NoTag EXCEPT !.by = req[q].model, !.sampled = TRUE]
    OBVIOUS
  <2>2. t \in Tag /\ t.by = req[q].model /\ t.arm = "none" /\ t.by # "fallback"
    BY <1>r, <1>3, <2>1 DEF NoTag, Tag, SlotSafe, Request, Arms, Bodies
  <2>3. TagSafe(t)
    BY <2>2 DEF TagSafe, Truthful
  <2> QED BY <1>1, <1>3, <2>1, <2>2, <2>3
<1>4. CASE tag' = tag
  BY <1>4 DEF HotInv, TagInv
<1> QED BY <1>2, <1>3, <1>4 DEF Sample

\* What Forget leaves.
LEMMA ForgetSafe ==
  ASSUME HotInv, NEW q \in Requests, req' = Forget(q)
  PROVE  ReqInv' /\ req'[q].pc = "done" /\ \A u \in Requests \ {q} : req'[u] = req[u]
<1>1. PICK x : x = [Idle EXCEPT !.pc = "done"]
  OBVIOUS
<1>2. x \in Request /\ SlotSafe(x) /\ x.pc = "done"
  BY <1>1, ForgottenSafe
<1>3. req' = [req EXCEPT ![q] = x]
  BY <1>1 DEF Forget
<1> QED BY <1>2, <1>3 DEF HotInv, ReqInv

\* A job in hand ends without a row: a fault, or a hit whose entry is gone.
LEMMA LostSafe ==
  ASSUME HotInv, NEW q \in Requests, MeterFails(q) \/ MeterHit(q)
  PROVE  HotInv' /\ Simulated
<1>1. /\ job[q] \in {"running", "task"} /\ req' = Forget(q) /\ UNCHANGED <<queue, dead, cacheVars>>
  BY DEF MeterFails, MeterHit, InHand
<1>2. ReqInv' /\ req'[q].pc = "done" /\ \A u \in Requests \ {q} : req'[u] = req[u]
  BY <1>1, ForgetSafe
<1>3. CacheInv' /\ TagInv'
  BY <1>1, CacheKept, SampleSafe DEF MeterFails, MeterHit
<1>4. rows[q] = 0 /\ rows \in [Requests -> Nat] /\ faults \in 0..MaxFaults /\ dead \in Nat /\ (dead > 0 => faults > 0)
  BY <1>1 DEF HotInv, QueueInv, MeteringSafe, Charged
<1>5. ASSUME MeterFails(q) PROVE QueueInv' /\ Simulated
  <2>1. job' = [job EXCEPT ![q] = "lost"] /\ rows' = rows /\ faults' = faults + 1 /\ faults < MaxFaults
    BY <1>5 DEF MeterFails, Ends
  <2>2. rows' = [rows EXCEPT ![q] = IF "lost" \in Charged THEN 1 ELSE 0] /\ "lost" \in JobPhases \ {"none", "queued"}
    BY <1>4, <2>1 DEF Charged, JobPhases
  <2>3. dead' \in Nat /\ (dead' > 0 => faults' > 0) /\ faults' \in 0..MaxFaults /\ 0 < faults'
    BY <1>1, <1>4, <2>1, HotPathAssumption
  <2>4. QueueInv'
    BY <1>1, <1>2, <2>1, <2>2, <2>3, CaptureQueue
  <2>5. job'[q] = "lost" /\ \A u \in Requests \ {q} : job'[u] = job[u]
    BY <2>1 DEF HotInv, QueueInv
  <2>6. \A u \in Requests \ {q} : EntryThen(u) = EntryNow(u)
    BY <1>2, <2>5 DEF EntryNow, EntryThen
  <2>7. EntryNow(q) \in Ledger!Owed /\ EntryThen(q) = "lost" /\ "owed_free" \in Ledger!Owed
    BY <1>1, <2>5 DEF EntryNow, EntryThen, EntryOf, Charged, Ledger!Owed
  <2>8. \A u \in Requests : \/ EntryThen(u) = EntryNow(u)
                            \/ EntryNow(u) \in Ledger!Owed /\ EntryThen(u) = "lost"
                            \/ EntryNow(u) = "none" /\ EntryThen(u) = "owed_free"
    BY <2>6, <2>7
  <2> QED BY <2>1, <2>3, <2>4, <2>7, <2>8, FaultEntries DEF HotInv
<1>6. ASSUME MeterHit(q) PROVE QueueInv' /\ Simulated
  <2>1. PICK j \in {"done", "lost"} : /\ job' = [job EXCEPT ![q] = j] /\ faults' = faults
                                      /\ rows' = [rows EXCEPT ![q] = IF j \in Charged THEN 1 ELSE 0]
    <3>1. CASE req[q].gone
      <4>1. job' = [job EXCEPT ![q] = "lost"] /\ faults' = faults /\ rows' = rows
        BY <1>6, <3>1 DEF MeterHit, Ends
      <4> QED BY <1>4, <4>1 DEF Charged
    <3>2. CASE ~req[q].gone
      <4>1. job' = [job EXCEPT ![q] = "done"] /\ faults' = faults /\ rows' = [rows EXCEPT ![q] = rows[q] + 1]
        BY <1>6, <3>2 DEF MeterHit, Ends
      <4>2. rows' = [rows EXCEPT ![q] = 1]
        BY <1>4, <4>1
      <4> QED BY <4>1, <4>2 DEF Charged
    <3> QED BY <3>1, <3>2
  <2>2. j \in JobPhases \ {"none", "queued"} /\ dead' \in Nat /\ (dead' > 0 => faults' > 0) /\ faults' \in 0..MaxFaults
    BY <1>1, <1>4, <2>1 DEF JobPhases
  <2>3. QueueInv'
    BY <1>1, <1>2, <2>1, <2>2, CaptureQueue
  <2>4. job'[q] = j /\ \A u \in Requests \ {q} : job'[u] = job[u]
    BY <2>1 DEF HotInv, QueueInv
  <2>5. /\ EntryNow(q) = "owed_free" /\ EntryThen(q) \in {"charged", "lost"}
        /\ \A u \in Requests \ {q} : EntryThen(u) = EntryNow(u)
    BY <1>1, <1>2, <1>6, <2>1, <2>4 DEF EntryNow, EntryThen, EntryOf, Charged, MeterHit
  <2> QED BY <2>1, <2>3, <2>5, OneEntry DEF HotInv, Ledger!Owed
<1> QED BY <1>2, <1>3, <1>5, <1>6 DEF HotInv

\* The cache write that follows a ledger row: never a degraded answer, for that
\* one says "do not store".
LEMMA StoreAnswerSafe ==
  ASSUME HotInv, NEW q \in Requests, StoreAnswer(q)
  PROVE  HotInv' /\ Simulated
<1>r. req[q] \in Request /\ SlotSafe(req[q]) /\ req[q].key \in Keys
  BY SlotNow
<1>1. /\ job[q] \in {"metered", "task_metered"} /\ req' = Forget(q) /\ job' = [job EXCEPT ![q] = "done"]
      /\ UNCHANGED <<queue, dead, rows, faults>>
  BY DEF StoreAnswer, Ends
<1>2. ReqInv' /\ req'[q].pc = "done" /\ \A u \in Requests \ {q} : req'[u] = req[u]
  BY <1>1, ForgetSafe
<1>3. TagInv'
  BY SampleSafe DEF StoreAnswer
<1>4. CacheInv'
  <2> DEFINE k == req[q].key
             new == [holds |-> IF req[q].model = "fallback" THEN "degraded" ELSE "answer", ttl |-> Ttl]
  <2>1. CASE UNCHANGED cacheVars
    BY <2>1, CacheKept
  <2>2. CASE req[q].store /\ cached' = [cached EXCEPT ![k] = new] /\ snap' = [snap EXCEPT ![k] = new]
    <3>1. new \in SafeEntry
      BY <1>r, <2>2, HotPathAssumption DEF SafeEntry, Entry, SlotSafe
    <3> HIDE DEF new
    <3> QED BY <2>2, <3>1 DEF HotInv, CacheInv
  <2> QED BY <2>1, <2>2 DEF StoreAnswer
<1>5. rows[q] = 1 /\ rows \in [Requests -> Nat]
  BY <1>1 DEF HotInv, QueueInv, MeteringSafe, Charged
<1>6. QueueInv'
  <2>1. rows' = [rows EXCEPT ![q] = IF "done" \in Charged THEN 1 ELSE 0] /\ "done" \in JobPhases \ {"none", "queued"}
    BY <1>1, <1>5 DEF Charged, JobPhases
  <2>2. dead' \in Nat /\ (dead' > 0 => faults' > 0) /\ faults' \in 0..MaxFaults
    BY <1>1 DEF HotInv, QueueInv, MeteringSafe
  <2> QED BY <1>1, <1>2, <2>1, <2>2, CaptureQueue
<1>7. job'[q] = "done" /\ \A u \in Requests \ {q} : job'[u] = job[u]
  BY <1>1 DEF HotInv, QueueInv
<1>8. \A u \in Requests : EntryThen(u) = EntryNow(u)
  BY <1>1, <1>2, <1>7 DEF EntryNow, EntryThen, EntryOf, Charged
<1>9. Simulated
  BY <1>1, <1>6, <1>8, Stutters DEF HotInv
<1> QED BY <1>2, <1>3, <1>4, <1>6, <1>9 DEF HotInv

\* A cancelled job loses what it had not metered.
LEMMA CancelJobSafe ==
  ASSUME HotInv, NEW q \in Requests, CancelJob(q)
  PROVE  HotInv' /\ Simulated
<1>1. /\ job[q] \in {"running", "metered", "task", "task_metered"} /\ req' = Forget(q)
      /\ job' = [job EXCEPT ![q] = Cut(q)] /\ faults < MaxFaults /\ faults' = faults + 1
      /\ tag' = Untag(q) /\ UNCHANGED <<queue, rows, cacheVars>> /\ dead' \in Nat
  BY DEF CancelJob, Ends, Held, Tasks, HotInv, QueueInv
<1>2. ReqInv' /\ req'[q].pc = "done" /\ \A u \in Requests \ {q} : req'[u] = req[u]
  BY <1>1, ForgetSafe
<1>3. TagInv' /\ CacheInv'
  BY <1>1, SampleSafe, CacheKept
<1>4. Cut(q) = IF job[q] \in Charged THEN "done" ELSE "lost"
  BY <1>1 DEF Cut, Charged
<1>5. PICK j \in {"done", "lost"} : j = Cut(q)
  BY <1>4
<1>6. j \in Charged <=> job[q] \in Charged
  BY <1>4, <1>5 DEF Charged
<1>7. rows[q] = (IF job[q] \in Charged THEN 1 ELSE 0) /\ rows \in [Requests -> Nat] /\ faults \in 0..MaxFaults
  BY DEF HotInv, QueueInv, MeteringSafe
<1>8. faults' \in 0..MaxFaults /\ faults' > 0
  BY <1>1, <1>7, HotPathAssumption
<1>9. QueueInv'
  <2>1. rows' = [rows EXCEPT ![q] = IF j \in Charged THEN 1 ELSE 0] /\ j \in JobPhases \ {"none", "queued"}
    BY <1>1, <1>6, <1>7 DEF JobPhases
  <2> QED BY <1>1, <1>2, <1>5, <1>8, <2>1, CaptureQueue
<1>10. job'[q] = j /\ \A u \in Requests \ {q} : job'[u] = job[u]
  BY <1>1, <1>5 DEF HotInv, QueueInv
<1>11. \A u \in Requests \ {q} : EntryThen(u) = EntryNow(u)
  BY <1>2, <1>10 DEF EntryNow, EntryThen
<1>12. \/ EntryThen(q) = EntryNow(q)
       \/ EntryNow(q) \in Ledger!Owed /\ EntryThen(q) = "lost"
  BY <1>1, <1>4, <1>5, <1>10 DEF EntryNow, EntryThen, EntryOf, Charged, Ledger!Owed
<1>13. \A u \in Requests : \/ EntryThen(u) = EntryNow(u)
                           \/ EntryNow(u) \in Ledger!Owed /\ EntryThen(u) = "lost"
                           \/ EntryNow(u) = "none" /\ EntryThen(u) = "owed_free"
  BY <1>11, <1>12
<1>14. Simulated
  BY <1>1, <1>8, <1>9, <1>13, FaultEntries DEF HotInv, Ledger!Owed
<1> QED BY <1>2, <1>3, <1>9, <1>14 DEF HotInv

\* The head of the queue goes to a worker; it is nowhere else in the queue.
LEMMA TakeJobSafe ==
  ASSUME HotInv, TakeJob
  PROVE  HotInv' /\ Simulated
<1>q. QueueInv /\ MeteringSafe
  BY DEF HotInv, QueueInv
<1>1. PICK h : h = Head(queue)
  OBVIOUS
<1>2. /\ queue # << >> /\ queue' = Tail(queue) /\ job' = [job EXCEPT ![h] = "running"]
      /\ UNCHANGED <<req, dead, rows, tag, cacheVars, faults>>
  BY <1>1 DEF TakeJob
<1>3. /\ Len(queue) \in Nat \ {0} /\ h = queue[1] /\ h \in Requests
      /\ queue' \in Seq(Requests) /\ Len(queue') = Len(queue) - 1
      /\ \A i \in 1..(Len(queue) - 1) : queue'[i] = queue[i + 1]
  BY <1>q, <1>1, <1>2 DEF QueueInv
<1>4. job[h] = "queued"
  BY <1>q, <1>3 DEF MeteringSafe
<1>5. job' \in [Requests -> JobPhases] /\ job'[h] = "running" /\ \A u \in Requests \ {h} : job'[u] = job[u]
  BY <1>q, <1>2, <1>3 DEF QueueInv, JobPhases
<1>6. \A i \in 2..Len(queue) : queue[i] \in Requests \ {h} /\ job[queue[i]] = "queued"
  BY <1>q, <1>3 DEF QueueInv, MeteringSafe
<1>7. \A i \in 1..Len(queue') : job'[queue'[i]] = "queued"
  BY <1>3, <1>5, <1>6
<1>8. \A i, j \in 1..Len(queue') : queue'[i] = queue'[j] => i = j
  <2> SUFFICES ASSUME NEW i \in 1..(Len(queue) - 1), NEW j \in 1..(Len(queue) - 1), queue'[i] = queue'[j]
               PROVE  i = j
    BY <1>3
  <2>1. queue[i + 1] = queue[j + 1] /\ i + 1 \in 1..Len(queue) /\ j + 1 \in 1..Len(queue)
    BY <1>3
  <2> QED BY <1>q, <2>1 DEF MeteringSafe
<1>9. MeteringSafe'
  BY <1>q, <1>2, <1>3, <1>4, <1>5, <1>7, <1>8 DEF MeteringSafe, Charged
<1>10. QueueInv'
  <2>1. Len(queue') <= QueueSize
    BY <1>q, <1>3, HotPathAssumption DEF QueueInv
  <2> QED BY <1>q, <1>2, <1>3, <1>5, <1>9, <2>1 DEF QueueInv
<1>11. \A u \in Requests : EntryThen(u) = EntryNow(u)
  BY <1>2, <1>4, <1>5 DEF EntryNow, EntryThen, EntryOf, Charged
<1>12. ReqInv' /\ TagInv' /\ CacheInv'
  BY <1>2, CacheKept DEF HotInv, ReqInv, TagInv
<1>13. Simulated
  BY <1>q, <1>2, <1>10, <1>11, Stutters
<1> QED BY <1>10, <1>12, <1>13 DEF HotInv

-----------------------------------------------------------------------------
(* Crashes, the clock, the purge *)

LEMMA CrashSafe ==
  ASSUME HotInv, Crash
  PROVE  HotInv' /\ Simulated
<1>q. QueueInv /\ MeteringSafe /\ ReqInv
  BY DEF HotInv, QueueInv
<1>1. PICK d : d = [Idle EXCEPT !.pc = "done"]
  OBVIOUS
<1>2. /\ req' = [q \in Requests |-> IF req[q].pc = "done" THEN d ELSE Idle]
      /\ job' = [q \in Requests |-> Cut(q)] /\ queue' = << >> /\ dead' = 0
      /\ snap' = [k \in Keys |-> NoEntry] /\ tag' = [q \in Requests |-> NoTag]
      /\ UNCHANGED <<rows, cached>> /\ faults < MaxFaults /\ faults' = faults + 1
  BY <1>1 DEF Crash
<1>3. d \in Request /\ SlotSafe(d) /\ d.pc = "done" /\ Idle \in Request /\ SlotSafe(Idle) /\ Idle.pc # "done"
  <2>1. Idle.pc # "done"
    BY DEF Idle, Fresh
  <2> QED BY <1>1, <2>1, ForgottenSafe, IdleSafe
<1>4. ReqInv'
  BY <1>2, <1>3 DEF ReqInv
<1>5. TagInv' /\ CacheInv'
  BY <1>2, NoTagSafe, NoEntrySafe DEF HotInv, TagInv, CacheInv
<1>6. \A q \in Requests : /\ Cut(q) \in JobPhases
                          /\ Cut(q) = "none" <=> job[q] = "none"
                          /\ Cut(q) \in Charged <=> job[q] \in Charged
  BY <1>q DEF QueueInv, Cut, JobPhases, Charged
<1>7. job' \in [Requests -> JobPhases] /\ \A q \in Requests : job'[q] = Cut(q)
  BY <1>2, <1>6
<1>8. faults' \in 0..MaxFaults /\ 0 < faults'
  BY <1>q, <1>2, HotPathAssumption DEF QueueInv
<1>9. MeteringSafe'
  <2>1. \A q \in Requests : req'[q].pc = "done" <=> req[q].pc = "done"
    BY <1>2, <1>3
  <2>2. Len(queue') = 0
    BY <1>2
  <2>3. /\ \A i \in 1..Len(queue') : job'[queue'[i]] = "queued"
        /\ \A i, j \in 1..Len(queue') : queue'[i] = queue'[j] => i = j
    BY <2>2
  <2> QED BY <1>q, <1>2, <1>6, <1>7, <2>1, <2>3 DEF MeteringSafe
<1>10. QueueInv'
  <2>1. queue' \in Seq(Requests) /\ Len(queue') <= QueueSize
    BY <1>2, HotPathAssumption
  <2>2. dead' \in Nat
    BY <1>2
  <2> QED BY <1>q, <1>2, <1>7, <1>8, <1>9, <2>1, <2>2 DEF QueueInv
<1>11. ASSUME NEW u \in Requests
       PROVE  EntryThen(u) = EntryNow(u) \/ (EntryNow(u) \in Ledger!Owed /\ EntryThen(u) = "lost")
  <2>1. CASE job[u] \in {"queued", "running", "task"}
    BY <1>7, <2>1 DEF EntryNow, EntryThen, EntryOf, Charged, Ledger!Owed, Cut
  <2>2. CASE job[u] \notin {"queued", "running", "task"}
    BY <1>q, <1>7, <2>2 DEF QueueInv, JobPhases, EntryNow, EntryThen, EntryOf, Charged, Cut
  <2> QED BY <2>1, <2>2
<1>12. Simulated
  <2>1. "owed_free" \in Ledger!Owed
    BY DEF Ledger!Owed
  <2> QED BY <1>q, <1>2, <1>8, <1>10, <1>11, <2>1, FaultEntries
<1> QED BY <1>4, <1>5, <1>10, <1>12 DEF HotInv

LEMMA OlderSafe == \A e \in SafeEntry : Older(e) \in SafeEntry
<1> SUFFICES ASSUME NEW e \in SafeEntry, e.ttl > 0 PROVE [e EXCEPT !.ttl = e.ttl - 1] \in SafeEntry
  BY DEF Older
<1>1. e \in Entry /\ e.holds # "degraded"
  BY DEF SafeEntry, NoEntry
<1> QED BY <1>1, HotPathAssumption DEF SafeEntry, Entry

\* Steps of the clock and the purge: every slot stays where it is.
LEMMA AgeingStep ==
  ASSUME HotInv, UNCHANGED captureVars, CacheInv', DOMAIN req' = Requests, req' = [q \in Requests |-> req'[q]],
         \A q \in Requests : req'[q] \in Request /\ SlotSafe(req'[q]) /\ req'[q].pc = req[q].pc
                             /\ req'[q].served = req[q].served
  PROVE  HotInv' /\ Simulated
<1>1. ReqInv'
  BY DEF ReqInv
<1>2. TagInv' /\ UNCHANGED <<job, queue, dead, rows, faults>>
  BY DEF HotInv, TagInv, captureVars
<1>3. QueueInv'
  BY <1>2 DEF HotInv, QueueInv, MeteringSafe
<1>4. \A u \in Requests : EntryThen(u) = EntryNow(u)
  BY <1>2 DEF EntryNow, EntryThen
<1>5. Simulated
  BY <1>2, <1>3, <1>4, Stutters DEF HotInv
<1> QED BY <1>1, <1>2, <1>3, <1>5 DEF HotInv

LEMMA ClockSafe ==
  ASSUME HotInv, Tick \/ (\E here \in BOOLEAN : PurgeExpired(here)) \/ \E k \in Keys : EvictSnapshot(k)
  PROVE  HotInv' /\ Simulated
<1>1. CASE Tick
  <2>1. /\ cached' = [k \in Keys |-> Older(cached[k])] /\ snap' = [k \in Keys |-> Older(snap[k])]
        /\ req' = [q \in Requests |-> [req[q] EXCEPT !.found = Older(req[q].found)]] /\ UNCHANGED captureVars
    BY <1>1 DEF Tick
  <2>2. CacheInv'
    BY <2>1, OlderSafe DEF HotInv, CacheInv
  <2>3. ASSUME NEW q \in Requests
        PROVE  req'[q] \in Request /\ SlotSafe(req'[q]) /\ req'[q].pc = req[q].pc /\ req'[q].served = req[q].served
    <3>1. req[q] \in Request /\ SlotSafe(req[q]) /\ req[q].found \in SafeEntry
      BY SlotNow DEF SlotSafe, SafeEntry, Request
    <3>2. PICK e \in SafeEntry : e = Older(req[q].found)
      BY <3>1, OlderSafe
    <3>3. req'[q] = [req[q] EXCEPT !.found = e]
      BY <2>1, <3>2
    <3> QED BY <3>1, <3>3, AgedSafe
  <2> QED BY <2>1, <2>2, <2>3, AgeingStep
<1>2. ASSUME NEW here \in BOOLEAN, PurgeExpired(here) PROVE HotInv' /\ Simulated
  <2>1. PICK expired \in SUBSET Keys :
          /\ cached' = [k \in Keys |-> IF k \in expired THEN NoEntry ELSE cached[k]]
          /\ snap' \in {[k \in Keys |-> NoEntry], snap}
          /\ req' = [q \in Requests |->
               IF req[q].key \in expired /\ (req[q].pc \in {"fill", "found"} \/ req[q].served = "hit")
               THEN [req[q] EXCEPT !.gone = TRUE] ELSE req[q]]
          /\ UNCHANGED captureVars
    BY <1>2 DEF PurgeExpired
  <2>2. CacheInv'
    BY <2>1, NoEntrySafe DEF HotInv, CacheInv
  <2>3. ASSUME NEW q \in Requests
        PROVE  req'[q] \in Request /\ SlotSafe(req'[q]) /\ req'[q].pc = req[q].pc /\ req'[q].served = req[q].served
    <3>1. req[q] \in Request /\ SlotSafe(req[q])
      BY SlotNow
    <3>2. req'[q] = [req[q] EXCEPT !.gone = TRUE] \/ req'[q] = req[q]
      BY <2>1
    <3> QED BY <3>1, <3>2, AgedSafe, NoEntrySafe
  <2> QED BY <2>1, <2>2, <2>3, AgeingStep
<1>3. ASSUME NEW k \in Keys, EvictSnapshot(k) PROVE HotInv' /\ Simulated
  <2>1. req' = req /\ UNCHANGED captureVars /\ cached' = cached /\ snap' = [snap EXCEPT ![k] = NoEntry]
    BY <1>3 DEF EvictSnapshot
  <2>2. CacheInv'
    BY <2>1, NoEntrySafe DEF HotInv, CacheInv
  <2>3. \A q \in Requests : req[q] \in Request /\ SlotSafe(req[q])
    BY SlotNow
  <2>4. DOMAIN req = Requests /\ req = [q \in Requests |-> req[q]]
    BY DEF HotInv, ReqInv
  <2> QED BY <2>1, <2>2, <2>3, <2>4, AgeingStep
<1> QED BY <1>1, <1>2, <1>3

-----------------------------------------------------------------------------
(* Theorems *)

LEMMA InitSafe == Init => HotInv /\ Ledger!Init
<1> SUFFICES ASSUME Init PROVE HotInv /\ Ledger!Init
  OBVIOUS
<1>1. ReqInv /\ TagInv /\ CacheInv
  BY IdleSafe, NoTagSafe, NoEntrySafe DEF Init, ReqInv, TagInv, CacheInv
<1>2. Idle.pc # "done"
  BY DEF Idle, Fresh
<1>3. queue = << >> /\ Len(queue) = 0 /\ queue \in Seq(Requests)
  BY DEF Init
<1>4. MeteringSafe
  BY <1>2, <1>3 DEF Init, MeteringSafe, Charged
<1>5. job \in [Requests -> JobPhases] /\ rows \in [Requests -> Nat] /\ dead \in Nat
  BY DEF Init, JobPhases
<1>6. Len(queue) <= QueueSize /\ faults \in 0..MaxFaults
  BY <1>3, HotPathAssumption DEF Init
<1>7. QueueInv
  BY <1>3, <1>4, <1>5, <1>6 DEF QueueInv
<1>8. Ledger!Init
  BY DEF Init, Ledger!Init, LedgerEntry
<1> QED BY <1>1, <1>7, <1>8 DEF HotInv

LEMMA NextSafe == HotInv /\ [Next]_vars => HotInv' /\ Simulated
<1> SUFFICES ASSUME HotInv, [Next]_vars PROVE HotInv' /\ Simulated
  OBVIOUS
<1>1. ASSUME NEW q \in Requests, HandlerStep(q) PROVE HotInv' /\ Simulated
  <2>1. CASE \/ \E p \in Profiles, k \in Keys : Arrive(q, p, k)
             \/ Refuse(q) \/ SkipCache(q) \/ ExactBlocked(q) \/ Abandon(q)
    BY <2>1, AdmissionSafe
  <2>2. CASE ProbeSnapshot(q) \/ ProbeTable(q) \/ FillSnapshot(q) \/ ProbeSemantic(q)
    BY <2>2, ProbeSafe
  <2>6. CASE ServeHit(q)
    BY <2>6, ServedSafe
  <2>3. ASSUME req[q].pc = "resolve", NEW o \in Outcomes[req[q].prof], NEW hasKey \in BOOLEAN,
               ForwardOpenAI(q, o, hasKey) \/ ForwardNative(q, o, hasKey)
        PROVE  HotInv' /\ Simulated
    BY <2>3, ForwardOpenAISafe, ForwardNativeSafe
  <2>4. CASE ForwardOnceAnswers(q) \/ StreamThroughEnds(q) \/ NativeAnswers(q) \/ NativeCrossProviderAnswers(q)
    BY <2>4, RecordedSafe DEF ForwardOnceAnswers, StreamThroughEnds, NativeAnswers, NativeCrossProviderAnswers
  <2>5. CASE TryFallback(q) \/ FallbackAnswers(q) \/ Close(q)
    BY <2>5, TryFallbackSafe, RecordedSafe, CloseSafe
  <2> QED BY <1>1, <2>1, <2>2, <2>3, <2>4, <2>5, <2>6 DEF HandlerStep
<1>2. ASSUME NEW q \in Requests, Capture(q) \/ MeterFails(q) \/ CancelJob(q) PROVE HotInv' /\ Simulated
  BY <1>2, MeterAnswerSafe, LostSafe, StoreAnswerSafe, CancelJobSafe DEF Capture
<1>3. CASE UNCHANGED vars
  <2>1. UNCHANGED <<req, job, queue, dead, rows, tag, cached, snap, faults>>
    BY <1>3 DEF vars
  <2>2. HotInv'
    BY <2>1 DEF HotInv, ReqInv, TagInv, CacheInv, QueueInv, MeteringSafe
  <2>3. \A u \in Requests : EntryThen(u) = EntryNow(u)
    BY <2>1 DEF EntryNow, EntryThen
  <2> QED BY <2>1, <2>2, <2>3, Stutters DEF HotInv
<1> QED BY <1>1, <1>2, <1>3, TakeJobSafe, CrashSafe, ClockSafe DEF Next

\* Every reachable state of the hot path is typed and safe.
THEOREM HotPathSafe == Spec => []HotInv
<1>1. Init => HotInv
  BY InitSafe
<1>2. HotInv /\ [Next]_vars => HotInv'
  BY NextSafe
<1> QED BY <1>1, <1>2, PTL DEF Spec

\* Requests, jobs, queue, rows and cache keep their shape, and the capture
\* queue its bound.
THEOREM TypeCorrect == Spec => []TypeOK
<1>1. HotInv => TypeOK
  BY DEF HotInv, ReqInv, TagInv, CacheInv, QueueInv, SafeEntry, TypeOK
<1> QED BY <1>1, HotPathSafe, PTL

-----------------------------------------------------------------------------
(* The process's copies and the table *)

\* A request that holds an entry.
Holds(r) == r.pc \in {"fill", "found"}

\* The cache stands still and nobody takes an entry in hand.
LEMMA NobodyHolds ==
  ASSUME HotInv, SnapshotIsCurrent, UNCHANGED cacheVars,
         \A u \in Requests : req'[u] = req[u] \/ ~Holds(req'[u])
  PROVE  SnapshotIsCurrent'
  BY DEF SnapshotIsCurrent, cacheVars, Holds

\* One request takes a current entry in hand, or lets go; no snapshot is made
\* but of what it holds.
LEMMA OneHolds ==
  ASSUME HotInv, SnapshotIsCurrent, NEW q \in Requests, NEW x, req' = [req EXCEPT ![q] = x],
         cached' = cached,
         Holds(x) /\ Live(x.found) => x.found = cached[x.key],
         NEW k \in Keys, NEW e \in Entry \cup {NoEntry}, Live(e) => e = cached[k],
         snap' \in {snap, [snap EXCEPT ![k] = e]}
  PROVE  SnapshotIsCurrent'
<1>1. req'[q] = x /\ \A u \in Requests \ {q} : req'[u] = req[u]
  BY DEF HotInv, ReqInv
<1>2. \A l \in Keys : Live(snap'[l]) => snap'[l] = cached'[l]
  BY DEF HotInv, CacheInv, SnapshotIsCurrent
<1>3. \A u \in Requests : Holds(req'[u]) /\ Live(req'[u].found) => req'[u].found = cached'[req'[u].key]
  BY <1>1 DEF SnapshotIsCurrent, Holds
<1> QED BY <1>2, <1>3 DEF SnapshotIsCurrent, Holds

LEMMA ProbeIsCurrent ==
  ASSUME HotInv, SnapshotIsCurrent, NEW q \in Requests,
         ProbeSnapshot(q) \/ ProbeTable(q) \/ FillSnapshot(q) \/ ProbeSemantic(q)
  PROVE  SnapshotIsCurrent'
<1>r. req[q] \in Request /\ req[q].key \in Keys
  BY SlotNow
<1>0. NoEntry \in Entry \cup {NoEntry} /\ ~Live(NoEntry)
  BY DEF NoEntry, Live
<1>c. cached' = cached
  BY DEF ProbeSnapshot, ProbeTable, FillSnapshot, ProbeSemantic, cacheVars
\* What is taken from snapshot or table is what the table holds.
<1>1. ASSUME NEW k \in Keys, NEW e, Live(e) => e = cached[k], NEW pc, Holding(q, k, e, pc),
             snap' \in {snap, [snap EXCEPT ![req[q].key] = NoEntry]}
      PROVE  SnapshotIsCurrent'
  <2>1. PICK x : x = [req[q] EXCEPT !.pc = pc, !.key = k, !.found = e]
    OBVIOUS
  <2>2. req' = [req EXCEPT ![q] = x]
    BY <1>1, <2>1 DEF Holding
  <2>3. x.found = e /\ x.key = k
    BY <1>r, <2>1 DEF Request
  <2> QED BY <1>r, <1>0, <1>c, <1>1, <2>2, <2>3, OneHolds
<1>2. CASE ProbeSnapshot(q)
  <2>1. Holding(q, req[q].key, snap[req[q].key], "found") /\ snap' = snap
    BY <1>2 DEF ProbeSnapshot, cacheVars
  <2>2. Live(snap[req[q].key]) => snap[req[q].key] = cached[req[q].key]
    BY <1>r DEF SnapshotIsCurrent
  <2> QED BY <1>r, <1>1, <2>1, <2>2
<1>3. CASE ProbeTable(q)
  <2>1. snap' \in {snap, [snap EXCEPT ![req[q].key] = NoEntry]}
    BY <1>3 DEF ProbeTable
  <2>2. ASSUME NEW pc, Holding(q, req[q].key, cached[req[q].key], pc) PROVE SnapshotIsCurrent'
    BY <1>r, <1>1, <2>1, <2>2
  <2>3. ASSUME NEW planned \in Planners,
               req' = [req EXCEPT ![q] = [req[q] EXCEPT !.pc = NextProbe(planned), !.store = TRUE]]
        PROVE  SnapshotIsCurrent'
    <3>1. PICK x : x = [req[q] EXCEPT !.pc = NextProbe(planned), !.store = TRUE]
      OBVIOUS
    <3>2. ~Holds(x)
      BY <1>r, <3>1 DEF Holds, NextProbe, Request
    <3> QED BY <1>r, <1>0, <1>c, <2>1, <2>3, <3>1, <3>2, OneHolds
  <2> QED BY <1>3, <2>2, <2>3 DEF ProbeTable
<1>4. CASE FillSnapshot(q)
  <2>1. PICK x : x = [req[q] EXCEPT !.pc = "found"]
    OBVIOUS
  <2>2. /\ req[q].pc = "fill" /\ req' = [req EXCEPT ![q] = x]
        /\ snap' = [snap EXCEPT ![req[q].key] = req[q].found]
    BY <1>4, <2>1 DEF FillSnapshot, Goto
  <2>3. Live(req[q].found) => req[q].found = cached[req[q].key]
    BY <2>2 DEF SnapshotIsCurrent
  <2>4. x.found = req[q].found /\ x.key = req[q].key /\ req[q].found \in Entry \cup {NoEntry}
    BY <1>r, <2>1 DEF Request
  <2> QED BY <1>r, <1>c, <2>2, <2>3, <2>4, OneHolds
<1>5. CASE ProbeSemantic(q)
  <2>1. snap' = snap
    BY <1>5 DEF ProbeSemantic, cacheVars
  <2>2. ASSUME NEW k \in Keys, Holding(q, k, cached[k], "found") PROVE SnapshotIsCurrent'
    BY <1>1, <2>1, <2>2
  <2>3. ASSUME req' = Goto(q, "resolve") PROVE SnapshotIsCurrent'
    <3>1. PICK x : x = [req[q] EXCEPT !.pc = "resolve"]
      OBVIOUS
    <3>2. ~Holds(x)
      BY <1>r, <3>1 DEF Holds, Request
    <3> QED BY <1>r, <1>0, <1>c, <2>1, <2>3, <3>1, <3>2, OneHolds DEF Goto
  <2> QED BY <1>5, <2>2, <2>3 DEF ProbeSemantic
<1> QED BY <1>2, <1>3, <1>4, <1>5

\* A new row takes a free key, whose copies are all dead.
LEMMA StoreIsCurrent ==
  ASSUME HotInv, SnapshotIsCurrent, NEW q \in Requests, StoreAnswer(q)
  PROVE  SnapshotIsCurrent'
<1>r. req[q].key \in Keys
  BY SlotNow
<1>1. \A u \in Requests : req'[u] = req[u] \/ ~Holds(req'[u])
  <2>1. req' = Forget(q)
    BY DEF StoreAnswer
  <2> QED BY <2>1, ForgetSafe DEF Holds
<1>2. CASE UNCHANGED cacheVars
  BY <1>1, <1>2, NobodyHolds
<1>3. ASSUME NEW new, cached[req[q].key] = NoEntry, cached' = [cached EXCEPT ![req[q].key] = new],
             snap' = [snap EXCEPT ![req[q].key] = new]
      PROVE  SnapshotIsCurrent'
  <2>1. /\ cached'[req[q].key] = new /\ snap'[req[q].key] = new
        /\ \A l \in Keys \ {req[q].key} : cached'[l] = cached[l] /\ snap'[l] = snap[l]
    BY <1>r, <1>3 DEF HotInv, CacheInv
  <2>2. \A l \in Keys : Live(snap'[l]) => snap'[l] = cached'[l]
    BY <2>1 DEF SnapshotIsCurrent
  <2>3. ASSUME NEW u \in Requests, Holds(req'[u]), Live(req'[u].found)
        PROVE  req'[u].found = cached'[req'[u].key]
    <3>1. req'[u] = req[u] /\ req[u].key \in Keys
      BY <1>1, <2>3, SlotNow
    <3>2. req[u].found = cached[req[u].key] /\ Live(req[u].found)
      BY <2>3, <3>1 DEF SnapshotIsCurrent, Holds
    <3>3. ~Live(NoEntry)
      BY DEF Live, NoEntry
    <3>4. req[u].key # req[q].key
      BY <1>3, <3>2, <3>3
    <3> QED BY <2>1, <3>1, <3>2, <3>4
  <2> QED BY <2>2, <2>3 DEF SnapshotIsCurrent, Holds
<1> QED BY <1>2, <1>3 DEF StoreAnswer

\* Rows and copies grow old together, and what the purge deletes was dead
\* wherever it was held.
LEMMA ClockIsCurrent ==
  ASSUME HotInv, SnapshotIsCurrent,
         Tick \/ (\E here \in BOOLEAN : PurgeExpired(here)) \/ \E k \in Keys : EvictSnapshot(k)
  PROVE  SnapshotIsCurrent'
<1>0. ~Live(NoEntry)
  BY DEF Live, NoEntry
<1>r. \A u \in Requests : req[u] \in Request /\ req[u].key \in Keys
  BY SlotNow
<1>1. CASE Tick
  <2>1. \A e \in Entry \cup {NoEntry} : Live(Older(e)) => Live(e)
    BY HotPathAssumption DEF Live, Older, Entry, NoEntry
  <2>2. \A k \in Keys : cached'[k] = Older(cached[k]) /\ snap'[k] = Older(snap[k])
    BY <1>1 DEF Tick
  <2>3. \A k \in Keys : Live(snap'[k]) => snap'[k] = cached'[k]
    BY <2>1, <2>2 DEF HotInv, CacheInv, SafeEntry, SnapshotIsCurrent
  <2>4. ASSUME NEW u \in Requests, Holds(req'[u]), Live(req'[u].found)
        PROVE  req'[u].found = cached'[req'[u].key]
    <3>1. req'[u] = [req[u] EXCEPT !.found = Older(req[u].found)] /\ req[u].found \in Entry \cup {NoEntry}
      BY <1>1, <1>r DEF Tick, Request
    <3>2. req'[u].pc = req[u].pc /\ req'[u].key = req[u].key /\ req'[u].found = Older(req[u].found)
      BY <1>r, <3>1 DEF Request
    <3>3. Holds(req[u]) /\ Live(req[u].found)
      BY <2>1, <2>4, <3>1, <3>2 DEF Holds
    <3> QED BY <1>r, <2>2, <3>2, <3>3 DEF SnapshotIsCurrent, Holds
  <2> QED BY <2>3, <2>4 DEF SnapshotIsCurrent, Holds
<1>2. ASSUME NEW here \in BOOLEAN, PurgeExpired(here) PROVE SnapshotIsCurrent'
  <2>1. /\ \A k \in Keys : Live(cached[k]) => cached'[k] = cached[k]
        /\ \A k \in Keys : snap'[k] \in {NoEntry, snap[k]}
    BY <1>2 DEF PurgeExpired
  <2>2. \A u \in Requests : req'[u] = req[u] \/ req'[u] = [req[u] EXCEPT !.gone = TRUE]
    BY <1>2 DEF PurgeExpired
  <2>3. \A k \in Keys : Live(snap'[k]) => snap'[k] = cached'[k]
    BY <1>0, <2>1 DEF SnapshotIsCurrent
  <2>4. ASSUME NEW u \in Requests, Holds(req'[u]), Live(req'[u].found)
        PROVE  req'[u].found = cached'[req'[u].key]
    <3>1. req'[u].pc = req[u].pc /\ req'[u].key = req[u].key /\ req'[u].found = req[u].found
      BY <1>r, <2>2 DEF Request
    <3>2. req[u].found = cached[req[u].key] /\ Live(cached[req[u].key])
      BY <2>4, <3>1 DEF SnapshotIsCurrent, Holds
    <3> QED BY <1>r, <2>1, <3>1, <3>2
  <2> QED BY <2>3, <2>4 DEF SnapshotIsCurrent, Holds
<1>3. ASSUME NEW k \in Keys, EvictSnapshot(k) PROVE SnapshotIsCurrent'
  <2>1. req' = req /\ cached' = cached /\ \A l \in Keys : snap'[l] \in {NoEntry, snap[l]}
    BY <1>3 DEF EvictSnapshot, HotInv, CacheInv
  <2> QED BY <1>0, <2>1 DEF SnapshotIsCurrent
<1> QED BY <1>1, <1>2, <1>3

\* What the other handlers do to their request takes no entry in hand.
LEMMA HandlerIsCurrent ==
  ASSUME HotInv, SnapshotIsCurrent, NEW q \in Requests, HandlerStep(q)
  PROVE  SnapshotIsCurrent'
<1>r. req[q] \in Request
  BY SlotNow
<1>q. ASSUME NEW x, ~Holds(x), req' = [req EXCEPT ![q] = x], UNCHANGED cacheVars PROVE SnapshotIsCurrent'
  <2>1. \A u \in Requests : req'[u] = req[u] \/ ~Holds(req'[u])
    BY <1>q DEF HotInv, ReqInv
  <2> QED BY <1>q, <2>1, NobodyHolds
<1>i. ~Holds(Idle)
  BY DEF Holds, Idle, Fresh
<1>a. \A r \in Request, how \in {"hit", "paid"} : ~Holds(Answer(r, how))
  BY AnswerFields DEF Holds
<1>1. ASSUME NEW p \in Profiles, NEW k \in Keys, Arrive(q, p, k) PROVE SnapshotIsCurrent'
  <2>1. PICK x : x = [Fresh(p, k) EXCEPT
                        !.pc = IF p.optimize /\ p.dialect = "openai" THEN "probe" ELSE "resolve",
                        !.store = p.dialect = "openai" /\ ~p.optimize]
    OBVIOUS
  <2>2. x.pc \in {"probe", "resolve"}
    BY <2>1 DEF Fresh
  <2>3. req' = [req EXCEPT ![q] = x] /\ UNCHANGED cacheVars
    BY <1>1, <2>1 DEF Arrive
  <2> QED BY <1>q, <2>2, <2>3 DEF Holds
<1>2. CASE Refuse(q) \/ Abandon(q) \/ Close(q)
  BY <1>2, <1>i, <1>q DEF Refuse, Abandon, Close, cacheVars
<1>3. CASE SkipCache(q) \/ ExactBlocked(q)
  <2>1. PICK next \in {"semantic", "resolve"} : req' = [req EXCEPT ![q] = [req[q] EXCEPT !.pc = next]]
    BY <1>3 DEF SkipCache, ExactBlocked, Goto, NextProbe
  <2>2. PICK x : x = [req[q] EXCEPT !.pc = next]
    OBVIOUS
  <2>3. ~Holds(x)
    BY <1>r, <2>2 DEF Holds, Request
  <2> QED BY <1>3, <1>q, <2>1, <2>2, <2>3 DEF SkipCache, ExactBlocked
<1>4. CASE ProbeSnapshot(q) \/ ProbeTable(q) \/ FillSnapshot(q) \/ ProbeSemantic(q)
  BY <1>4, ProbeIsCurrent
<1>5. CASE ServeHit(q) \/ \E d \in BOOLEAN : Recorded(q, d)
  <2>1. PICK how \in {"hit", "paid"} : req' = [req EXCEPT ![q] = Answer(req[q], how)]
    BY <1>5 DEF ServeHit, Recorded, Answered
  <2>2. UNCHANGED cacheVars
    BY <1>5 DEF ServeHit, Recorded
  <2> QED BY <1>r, <1>a, <1>q, <2>1, <2>2
<1>6. CASE FallbackAnswers(q)
  <2>1. Degraded(req[q]) \in Request
    BY <1>r DEF Degraded, Request, Answerers, Arms
  <2>2. req' = [req EXCEPT ![q] = Answer(Degraded(req[q]), "paid")] /\ UNCHANGED cacheVars
    BY <1>6 DEF FallbackAnswers
  <2> QED BY <1>a, <1>q, <2>1, <2>2
<1>7. CASE TryFallback(q)
  <2>1. PICK keyed : req' = [req EXCEPT ![q] = [req[q] EXCEPT !.pc = "fallback", !.keyed = keyed]]
    BY <1>7 DEF TryFallback
  <2>2. PICK x : x = [req[q] EXCEPT !.pc = "fallback", !.keyed = keyed]
    OBVIOUS
  <2>3. ~Holds(x)
    BY <1>r, <2>2 DEF Holds, Request
  <2> QED BY <1>7, <1>q, <2>1, <2>2, <2>3 DEF TryFallback
<1>8. ASSUME req[q].pc = "resolve", NEW o \in Outcomes[req[q].prof], NEW hasKey \in BOOLEAN,
             ForwardOpenAI(q, o, hasKey) \/ ForwardNative(q, o, hasKey)
      PROVE  SnapshotIsCurrent'
  <2>1. PICK x : req' = [req EXCEPT ![q] = x] /\ x.pc = "await"
    BY <1>8, ForwardOpenAISafe, ForwardNativeSafe
  <2> QED BY <1>8, <1>q, <2>1 DEF Holds, ForwardOpenAI, ForwardNative
<1> QED
  BY <1>1, <1>2, <1>3, <1>4, <1>5, <1>6, <1>7, <1>8
  DEF HandlerStep, ForwardOnceAnswers, StreamThroughEnds, NativeAnswers, NativeCrossProviderAnswers

LEMMA NextIsCurrent == HotInv /\ SnapshotIsCurrent /\ [Next]_vars => SnapshotIsCurrent'
<1> SUFFICES ASSUME HotInv, SnapshotIsCurrent, [Next]_vars PROVE SnapshotIsCurrent'
  OBVIOUS
<1>0. ~Live(NoEntry)
  BY DEF Live, NoEntry
<1>1. ASSUME NEW q \in Requests, Capture(q) \/ MeterFails(q) \/ CancelJob(q) PROVE SnapshotIsCurrent'
  <2>1. CASE MeterAnswer(q)
    <3>1. PICK x : x = [Idle EXCEPT !.pc = "done", !.key = req[q].key, !.store = req[q].store, !.model = req[q].model]
      OBVIOUS
    <3>2. x.pc = "done"
      BY <3>1 DEF Idle, Fresh
    <3>3. req' = [req EXCEPT ![q] = x] /\ UNCHANGED cacheVars
      BY <2>1, <3>1 DEF MeterAnswer
    <3>4. \A u \in Requests : req'[u] = req[u] \/ ~Holds(req'[u])
      BY <3>2, <3>3 DEF HotInv, ReqInv, Holds
    <3> QED BY <3>3, <3>4, NobodyHolds
  <2>2. CASE MeterHit(q) \/ MeterFails(q) \/ CancelJob(q)
    <3>1. req' = Forget(q) /\ UNCHANGED cacheVars
      BY <2>2 DEF MeterHit, MeterFails, CancelJob
    <3>2. \A u \in Requests : req'[u] = req[u] \/ ~Holds(req'[u])
      BY <3>1, ForgetSafe DEF Holds
    <3> QED BY <3>1, <3>2, NobodyHolds
  <2> QED BY <1>1, <2>1, <2>2, StoreIsCurrent DEF Capture
<1>2. CASE Crash
  <2>1. PICK d : d = [Idle EXCEPT !.pc = "done"]
    OBVIOUS
  <2>2. ~Holds(d) /\ ~Holds(Idle)
    BY <2>1 DEF Holds, Idle, Fresh
  <2>3. \A u \in Requests : ~Holds(req'[u])
    BY <1>2, <2>1, <2>2 DEF Crash
  <2>4. \A k \in Keys : snap'[k] = NoEntry
    BY <1>2 DEF Crash
  <2> QED BY <1>0, <2>3, <2>4 DEF SnapshotIsCurrent, Holds
<1>3. CASE TakeJob
  BY <1>3, NobodyHolds DEF TakeJob
<1>4. CASE UNCHANGED vars
  BY <1>4, NobodyHolds DEF vars, cacheVars
<1> QED BY <1>1, <1>2, <1>3, <1>4, HandlerIsCurrent, ClockIsCurrent DEF Next

\* For as long as a process's copy of a cached answer lives, be it its snapshot or
\* what a handler holds across an await, the table holds the same row with the
\* same deadline.
THEOREM SnapshotNeverStale == Spec => []SnapshotIsCurrent
<1>1. Init => SnapshotIsCurrent
  BY DEF Init, SnapshotIsCurrent, Live, NoEntry, Idle, Fresh
<1>2. HotInv /\ SnapshotIsCurrent /\ [Next]_vars => SnapshotIsCurrent'
  BY NextIsCurrent
<1> QED BY <1>1, <1>2, HotPathSafe, PTL DEF Spec

\* A ledger row tells the experiment as it was, in whatever world the request
\* drew its outcome.
THEOREM LedgerTagIsAlwaysTruthful == Spec => []LedgerTagIsTruthful
<1>1. HotInv => LedgerTagIsTruthful
  BY DEF HotInv, TagInv, TagSafe, Truthful, LedgerTagIsTruthful
<1> QED BY <1>1, HotPathSafe, PTL

\* Bypassed traffic is neither served from the cache, stored, sampled nor
\* changed on its way.
THEOREM BypassIsAlwaysPlain == Spec => []BypassIsPlain
<1>1. HotInv => BypassIsPlain
  BY DEF HotInv, ReqInv, SlotSafe, Plain, BypassIsPlain
<1> QED BY <1>1, HotPathSafe, PTL

\* A degraded answer enters neither the cache nor the replay corpus.
THEOREM DegradedIsAlwaysForgotten == Spec => []DegradedIsForgotten
<1>1. HotInv => DegradedIsForgotten
  BY DEF HotInv, TagInv, TagSafe, CacheInv, SafeEntry, DegradedIsForgotten
<1> QED BY <1>1, HotPathSafe, PTL

\* While the planner answers, what the classification holds back from a lever
\* is not touched by it, whatever priors, policies and draws there are.
THEOREM BlockedRequestsAlwaysStayWhole ==
  ASSUME \A w \in Worlds : w.planned
  PROVE  Spec => []BlockedRequestsStayWhole
<1>0. Planned /\ \A r : ExactAllowed(r) => EnforcedBlockers(Class(r)) = {}
  BY DEF Planned, Planners, ExactAllowed, ExactCachePolicy
<1>1. HotInv => BlockedRequestsStayWhole
  BY <1>0 DEF HotInv, ReqInv, SlotSafe, InFlight, BlockedRequestsStayWhole
<1> QED BY <1>1, HotPathSafe, PTL

\* Metering implements the ledger of UsageLedger: every step of handlers,
\* queue, workers, crashes and clocks is a step of the ledger or none.  So an
\* answered call gets at most one row, and a paid one is lost only by a fault.
THEOREM MeteringImplementsLedger == Spec => MeteringRefinesLedger
<1>1. Init => Ledger!Init
  BY InitSafe
<1>2. HotInv /\ [Next]_vars => [Ledger!Next]_(Ledger!vars)
  BY NextSafe DEF Simulated
<1>3. Spec => []HotInv
  BY HotPathSafe
<1> QED BY <1>1, <1>2, <1>3, PTL DEF Spec, MeteringRefinesLedger, Ledger!Spec
=============================================================================
