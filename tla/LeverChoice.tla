---------------------------- MODULE LeverChoice ----------------------------
(***************************************************************************)
(* How the proxy chooses what to do with one request, as pure operators:   *)
(* the classification of the request, the planner's verdict on each lever, *)
(* the policy rows the request meets, and the arm it draws.                *)
(*                                                                         *)
(* A request is a record: `facts', what the body shows of itself, `ctx',   *)
(* what the caller says about it, and `turns', its messages.  A world is   *)
(* everything else the choice depends on: the policy rows, the learned     *)
(* priors, the draws and the artifact of a compression.                    *)
(***************************************************************************)
EXTENDS Naturals, Sequences, SequencesExt

Facts == {"tools", "json", "multimodal", "fresh", "personal", "high_risk", "large", "long"}
Contexts == [task : {"none", "unsure", "sure", "sensitive"}, risk : {"low", "medium", "high", "unknown"},
             person : BOOLEAN]
Levers == {"route", "trim", "compression"}

\* What the request sees of a lever's policy: no enabled row for its route or
\* for the default one, the lever paused, outside the rollout, or in.
RowStates == {"none", "paused", "outside", "in"}

-----------------------------------------------------------------------------
(* Classification *)

\* The risk the caller states, unless the task or the text says worse.
RiskLevel(r) ==
  IF r.ctx.task = "sensitive" \/ "high_risk" \in r.facts THEN "high" ELSE r.ctx.risk

UnknownTask(r) == r.ctx.task \in {"none", "unsure"}

RiskyOrUnknown(r) == RiskLevel(r) \in {"high", "unknown"} \/ UnknownTask(r)

\* The derived flags that every gate below reads, and nothing of the text.
ClassifyRequest(r) ==
  (r.facts \cap {"tools", "json", "multimodal", "fresh", "personal"})
    \cup (IF r.ctx.person THEN {"personal"} ELSE {})
    \cup (IF RiskyOrUnknown(r) THEN {"risky"} ELSE {})

CacheBlockers(c) == c \cap {"risky", "personal", "fresh", "tools", "multimodal"}

EvaluateCacheEligibility(lever, c) ==
  CacheBlockers(c) \cup (IF lever = "semantic_cache" THEN c \cap {"json"} ELSE {}) = {}

\* Of the blockers of the exact cache only two are enforced, and none when the
\* planner raised at admission and left no plan to look at.
EnforcedBlockers(c) == CacheBlockers(c) \cap {"tools", "multimodal"}
ExactCachePolicy(c, planned) == planned => EnforcedBlockers(c) = {}

SemanticCachePolicy(c) == EvaluateCacheEligibility("semantic_cache", c)

RoutingBlockers(c) == c \cap {"risky", "personal", "multimodal"}

TrimBlockers(c) == c \cap {"risky", "tools", "json", "multimodal"}

-----------------------------------------------------------------------------
(* The plan *)

\* A lever whose policy is there: rejected by a blocker, else in the shadow
\* until its gate clears.
ModelRoutingCandidate(c, present) ==
  IF ~present THEN "unavailable" ELSE IF RoutingBlockers(c) # {} THEN "rejected" ELSE "shadow_only"

TokenTrimCandidate(c, present) ==
  IF ~present THEN "unavailable" ELSE IF TrimBlockers(c) # {} THEN "rejected" ELSE "shadow_only"

PromptCompressionCandidate(c, present) ==
  IF ~present THEN "unavailable" ELSE IF TrimBlockers(c) # {} THEN "rejected" ELSE "shadow_only"

\* Mutant: a learned prior lifts a rejection too.
WithOutcomePriorAlways(lever, status, ready) ==
  IF lever \in ready THEN "recommendable" ELSE status

\* A prior that is ready lifts a candidate, never a rejection.
WithOutcomePrior(lever, status, ready) ==
  IF lever \in ready /\ status # "rejected" /\ (status = "unavailable" => lever # "compression")
  THEN "recommendable" ELSE status

\* The plan attached while one lever is being resolved.
Plan(c, lever, ready) ==
  [l \in Levers |-> WithOutcomePrior(l,
     CASE l = "route" -> ModelRoutingCandidate(c, l = lever)
       [] l = "trim" -> TokenTrimCandidate(c, l = lever)
       [] l = "compression" -> PromptCompressionCandidate(c, l = lever), ready)]

\* A planner that raises leaves the plan made at admission, which knows no
\* policy and so rejects nothing.
RejectedCandidate(c, lever, w) == w.planned /\ Plan(c, lever, w.ready)[lever] = "rejected"

-----------------------------------------------------------------------------
(* The three levers *)

\* Smart routing asks the request's own shape as well.
IsEligible(r) == r.facts \cap {"large", "tools", "json", "long"} = {}

\* The bandit, when it is on and the policy has cleared candidates besides
\* the primary: an unproven one now and then, else the proven one with the
\* best savings, else the primary; in shadow mode only the trace tells.
SelectCandidate(w) ==
  LET cleared == {m \in {"candidate", "second"} : ~w.proven[m] \/ w.quality[m]}
  IN CASE w.explore /\ \E m \in cleared : ~w.proven[m] -> {m \in cleared : ~w.proven[m]}
       [] OTHER -> LET proven == {m \in cleared : w.proven[m]}
                   IN IF proven = {} THEN {"candidate"} ELSE proven

MaybeBanditSelect(w) == IF w.bandit = "active" THEN SelectCandidate(w) ELSE {"candidate"}

\* No decision, or the candidate.  Any failure on the way is no decision.
ResolveRoute(r, w) ==
  /\ w.row["route"] = "in"
  /\ w.smart => IsEligible(r)

ResolveTrim(w) == w.row["trim"] = "in"

ResolveCompression(w) == w.row["compression"] = "in"

AssignArm(w) == IF w.held THEN "control" ELSE "treatment"

\* System messages and the last turns of the rest; a message whose role and
\* text have been seen is dropped.
TrimMessages(ms, keepLast) ==
  LET system == SelectSeq(ms, LAMBDA m : m.role = "system")
      rest == SelectSeq(ms, LAMBDA m : m.role # "system")
      window == IF Len(rest) > keepLast
                THEN SubSeq(rest, Len(rest) - keepLast + 1, Len(rest)) ELSE rest
  IN FoldLeft(LAMBDA out, m : IF \E i \in DOMAIN out : out[i] = m THEN out ELSE Append(out, m),
              << >>, system \o window)

ApplyTrim(ms, keepLast) == IF TrimMessages(ms, keepLast) = ms THEN "verbatim" ELSE "trimmed"

\* The rewrite replaces exactly the prompt it was evaluated for.
ApplyCompression(artifact) == IF artifact = "same" THEN "compressed" ELSE "verbatim"

-----------------------------------------------------------------------------
(* The choice *)

Outcome(lever, arm, model, body) == [lever |-> lever, arm |-> arm, model |-> model, body |-> body]
Passthrough == Outcome("none", "none", "incumbent", "verbatim")

\* A candidate of another provider must be able to take the request; then the
\* plan; then the arm.
ResolveRouteState(r, w) ==
  LET c == ClassifyRequest(r)
  IN IF w.crossing = "ineligible" \/ RejectedCandidate(c, "route", w) THEN {Passthrough}
     ELSE IF AssignArm(w) = "control" THEN {Outcome("route", "control", "incumbent", "verbatim")}
     ELSE {Outcome("route", "treatment", m, "verbatim") : m \in MaybeBanditSelect(w)}

ResolveCompressionState(r, w) ==
  IF ~ResolveCompression(w) \/ RejectedCandidate(ClassifyRequest(r), "compression", w) THEN Passthrough
  ELSE IF AssignArm(w) = "control" THEN Outcome("transform", "control", "incumbent", "verbatim")
  ELSE IF w.artifact = "missing" THEN Passthrough
  ELSE Outcome("transform", "treatment", "incumbent", ApplyCompression(w.artifact))

ResolveTrimState(r, w, keepLast) ==
  IF ~ResolveTrim(w) THEN ResolveCompressionState(r, w)
  ELSE IF RejectedCandidate(ClassifyRequest(r), "trim", w) THEN Passthrough
  ELSE IF AssignArm(w) = "control" THEN Outcome("transform", "control", "incumbent", "verbatim")
  ELSE Outcome("transform", "treatment", "incumbent", ApplyTrim(r.turns, keepLast))

\* OpenAI dialect: at most one lever, routing before trim before compression.
ResolveOpenAIOptimizations(r, w, keepLast) ==
  IF ResolveRoute(r, w) THEN ResolveRouteState(r, w) ELSE {ResolveTrimState(r, w, keepLast)}

\* Native dialects: only a candidate of another provider that can take the
\* request and that the plan does not reject, no transforms, and a holdback
\* that carries no tag.
NativeRouteAllowed(r, w) ==
  w.crossing # "ineligible" /\ ~RejectedCandidate(ClassifyRequest(r), "route", w)

MaybeRouteNativeCrossProvider(r, w) ==
  IF ~ResolveRoute(r, w) \/ w.crossing = "same" \/ ~NativeRouteAllowed(r, w) \/ AssignArm(w) = "control"
  THEN {Passthrough}
  ELSE {Outcome("route", "treatment", m, "verbatim") : m \in MaybeBanditSelect(w)}
=============================================================================
