--------------------------- MODULE ChangeControl ---------------------------
(***************************************************************************)
(* The control plane that decides which optimization runs on live traffic: *)
(* recommendations, the shadow evals that gate them, the change requests   *)
(* a human decides, and the proxy policies the hot path executes.          *)
(*                                                                         *)
(* One project is modelled.  Every HTTP handler, every phase of an eval    *)
(* task and every run of a background sweep is one transaction and one     *)
(* action.                                                                 *)
(***************************************************************************)
EXTENDS Naturals, Sequences, FiniteSets

CONSTANTS
  Recs,            \* recommendations the generators can seed
  Models,          \* candidate models the catalog can name as substitute
  NoRec, NoModel,  \* "no recommendation", "no candidate model"
  Lever,           \* Lever[r]: the lever of recommendation r
  Target,          \* Target[r]: the model its policy is keyed on
  Route,           \* Route[r]: the route key of that policy
  DefaultRoute,    \* the route key that matches every route
  GlobalEnforced,  \* settings.governance_change_requests_enabled
  CanaryEnabled,   \* settings.canary_enabled
  InitialPercent,  \* settings.canary_initial_percent
  Stages,          \* settings.canary_stages
  Switches,        \* the operator switches that move in this instance
  MaxRuns          \* bound on eval runs

RoutingLevers == {"model_downshift", "smart_routing"}
TransformLevers == {"token_trim", "prompt_compression"}
\* Levers with a row in proxy_policies; the others apply without one.
PolicyLevers == RoutingLevers \cup TransformLevers
GatedLevers == RoutingLevers \cup {"prompt_compression"}
GovernedLevers == RoutingLevers \cup {"prompt_compression"}
Levers == PolicyLevers \cup {"semantic_cache", "batching"}
AutoByDefault == {"semantic_cache", "token_trim", "batching"}
AutomatableLevers == PolicyLevers

FullyLive == 100

ASSUME ConstantsAssumption ==
  /\ NoRec \notin Recs
  /\ NoModel \notin Models
  /\ Lever \in [Recs -> Levers]
  /\ GlobalEnforced \in BOOLEAN
  /\ CanaryEnabled \in BOOLEAN
  /\ InitialPercent \in Nat
  /\ Stages \in Seq(Nat)
  /\ MaxRuns \in Nat
  /\ Switches \subseteq {"entitled", "enforced", "lever", "auto", "policy", "bandit"}

Key(r) == <<Lever[r], Target[r], Route[r]>>
Keys == {Key(r) : r \in {s \in Recs : Lever[s] \in PolicyLevers}}

\* "unsafe" stands for every verdict that blocks, "insufficient" included.
Actionable == {"safe", "needs_human"}
Verdicts == Actionable \cup {"unsafe"}
RunStates == {"pending", "running", "failed"} \cup Verdicts
RecStates == {"absent", "open", "applied", "dismissed", "rolled_back"}
RequestStates == {"none", "proposed", "approved", "rejected", "active", "rolled_back"}

Run == [rec : Recs, cand : Models \cup {NoModel}, st : RunStates, again : BOOLEAN]
Request == [st : RequestStates, cand : Models \cup {NoModel},
            evidence : Models \cup {NoModel}, decided : BOOLEAN]
Policy == [enabled : BOOLEAN, source : Recs \cup {NoRec}, cand : Models \cup {NoModel},
           bandit : SUBSET Models, rollout : Nat]

NoRequest == [st |-> "none", cand |-> NoModel, evidence |-> NoModel, decided |-> FALSE]
NoPolicy == [enabled |-> FALSE, source |-> NoRec, cand |-> NoModel,
             bandit |-> {}, rollout |-> FullyLive]

VARIABLES
  status,    \* status[r]: recommendations.status
  runs,      \* eval_runs in creation order
  cr,        \* cr[r]: the change request of recommendation r
  pol,       \* pol[k]: the proxy_policies row of key k
  leverOn,   \* lever_configs.enabled
  autoOn,    \* lever_configs.automation_mode = "auto"
  entitled,  \* the organization holds the Performance tier
  enforced,  \* organizations.governance_enforced
  cleared,   \* history: <<model, candidate>> pairs some eval has cleared
  resumed    \* history: keys last enabled by a PATCH rather than by an apply

vars == <<status, runs, cr, pol, leverOn, autoOn, entitled, enforced, cleared, resumed>>
settings == <<leverOn, autoOn, entitled, enforced>>

Init ==
  /\ status = [r \in Recs |-> "absent"]
  /\ runs = << >>
  /\ cr = [r \in Recs |-> NoRequest]
  /\ pol = [k \in Keys |-> NoPolicy]
  /\ leverOn = [l \in Levers |-> TRUE]
  /\ autoOn = [l \in Levers |-> l \in AutoByDefault]
  /\ entitled = TRUE
  /\ enforced = FALSE
  /\ cleared = {}
  /\ resumed = {}

-----------------------------------------------------------------------------
(* Recommendation generators *)

\* A seed creates the row once; a row that exists is refreshed only while it
\* is open and keeps its status, so nothing the model keeps changes.
Upsert(r) ==
  /\ status[r] = "absent"
  /\ status' = [status EXCEPT ![r] = "open"]
  /\ UNCHANGED <<runs, cr, pol, settings, cleared, resumed>>

-----------------------------------------------------------------------------
(* Shadow evals *)

IsLatest(i, r) ==
  /\ runs[i].rec = r
  /\ \A j \in DOMAIN runs : runs[j].rec = r => j <= i

\* POST /evaluate.  A pending run is reused, so its background task is queued
\* a second time; otherwise a run is opened for the catalog's substitute as it
\* stands now (compression replays the target model itself).
EvaluateRecommendation(r) ==
  /\ status[r] # "absent"
  /\ Lever[r] \in GatedLevers
  /\ \/ \E i \in DOMAIN runs :
          /\ runs[i].rec = r
          /\ runs[i].st = "pending"
          /\ runs' = [runs EXCEPT ![i].again = TRUE]
     \/ /\ \A i \in DOMAIN runs : runs[i].rec = r => runs[i].st # "pending"
        /\ Len(runs) < MaxRuns
        /\ \E c \in IF Lever[r] \in RoutingLevers THEN Models ELSE {NoModel} :
             runs' = Append(runs, [rec |-> r, cand |-> c, st |-> "pending", again |-> FALSE])
  /\ UNCHANGED <<status, cr, pol, settings, cleared, resumed>>

\* A background task starts: the first one, or the second one of a run that
\* was queued twice, which puts a finished run back to running.
StartRun(i) ==
  /\ \/ runs[i].st = "pending" /\ runs' = [runs EXCEPT ![i].st = "running"]
     \/ /\ runs[i].again
        /\ runs[i].st \notin {"pending", "running"}
        /\ runs' = [runs EXCEPT ![i] = [@ EXCEPT !.st = "running", !.again = FALSE]]
  /\ UNCHANGED <<status, cr, pol, settings, cleared, resumed>>

\* Mutant: the evidence is refreshed whatever the request's state.
EnsureRequestAlways(r, c) ==
  IF cr[r].st = "none"
  THEN [cr EXCEPT ![r] = [st |-> "proposed", cand |-> c, evidence |-> c, decided |-> FALSE]]
  ELSE [cr EXCEPT ![r].evidence = c]

\* ensure_change_request: proposed once; while still proposed the evidence is
\* replaced by the new run's, the candidate is not.
EnsureRequest(r, c) ==
  IF cr[r].st = "none"
  THEN [cr EXCEPT ![r] = [st |-> "proposed", cand |-> c, evidence |-> c, decided |-> FALSE]]
  ELSE IF cr[r].st = "proposed" THEN [cr EXCEPT ![r].evidence = c] ELSE cr

FinishRun(i, v) ==
  LET r == runs[i].rec
      c == runs[i].cand
  IN /\ runs[i].st = "running"
     /\ runs' = [runs EXCEPT ![i].st = v]
     /\ cr' = IF v \in Actionable /\ Lever[r] \in GovernedLevers
              THEN EnsureRequest(r, c) ELSE cr
     /\ cleared' = IF v \in Actionable THEN cleared \cup {<<Target[r], c>>} ELSE cleared
     /\ UNCHANGED <<status, pol, settings, resumed>>

\* The replay raised: the transaction is rolled back and the run marked failed.
FailRun(i) ==
  /\ runs[i].st = "running"
  /\ runs' = [runs EXCEPT ![i].st = "failed"]
  /\ UNCHANGED <<status, cr, pol, settings, cleared, resumed>>

-----------------------------------------------------------------------------
(* Change requests *)

DecideRequest(r, approve) ==
  /\ cr[r].st = "proposed"
  /\ cr' = [cr EXCEPT ![r] = [@ EXCEPT !.st = IF approve THEN "approved" ELSE "rejected",
                                       !.decided = TRUE]]
  /\ UNCHANGED <<status, runs, pol, settings, cleared, resumed>>

GovernanceEnforced == GlobalEnforced \/ enforced

\* Mutant: a request nobody has decided yet passes the gate.
ChangeRequestExists(r) ==
  (Lever[r] \in GovernedLevers /\ GovernanceEnforced) => cr[r].st \in {"proposed", "approved"}

ChangeRequestApproved(r) ==
  (Lever[r] \in GovernedLevers /\ GovernanceEnforced) => cr[r].st = "approved"

MarkActive(r) ==
  [cr EXCEPT ![r].st = IF @ \in {"proposed", "approved"} THEN "active" ELSE @]
MarkRolledBack(r) ==
  [cr EXCEPT ![r].st = IF @ = "active" THEN "rolled_back" ELSE @]

-----------------------------------------------------------------------------
(* Applying and withdrawing a recommendation *)

\* The latest run decides; a subjective verdict clears a human only.
Appliable(r, i, automated) ==
  /\ IsLatest(i, r)
  /\ \/ runs[i].st = "safe"
     \/ runs[i].st = "needs_human" /\ ~automated

\* The candidates with which the eval gate lets r through: the gating run's,
\* or none at all for a lever the gate does not cover.
GateClears(r, automated) ==
  IF Lever[r] \in GatedLevers
  THEN {runs[i].cand : i \in {j \in DOMAIN runs : Appliable(r, j, automated)}}
  ELSE {NoModel}

\* Compression refuses to start while a trim policy is live on its model, on
\* its own route or, for either side, the default route.
TransformConflict(r) ==
  /\ Lever[r] = "prompt_compression"
  /\ \E k \in Keys :
       /\ k[1] = "token_trim" /\ k[2] = Target[r] /\ pol[k].enabled
       /\ Route[r] # DefaultRoute => k[3] \in {Route[r], DefaultRoute}

InitialRollout ==
  IF ~CanaryEnabled THEN FullyLive
  ELSE IF InitialPercent < 1 THEN 1
  ELSE IF InitialPercent > FullyLive THEN FullyLive ELSE InitialPercent

\* The row an activation leaves behind: a row that was off starts a new ramp,
\* a live one keeps its rollout; the bandit set stays in params either way.
Activated(p, r, c) ==
  [p EXCEPT !.enabled = TRUE, !.source = r, !.cand = c,
            !.rollout = IF p.enabled THEN @ ELSE InitialRollout]

\* No row for a lever without policies, nor for a model swapped for itself.
Activates(r, c) == Lever[r] \in PolicyLevers /\ c # Target[r]

ActivateExecution(r, c) ==
  IF Activates(r, c)
  THEN [pol EXCEPT ![Key(r)] = Activated(@, r, c)]
  ELSE pol

\* _apply_recommendation and its callers' bookkeeping: every gate passes or
\* nothing is committed.
ApplyRecommendation(r, c) ==
  /\ entitled
  /\ leverOn[Lever[r]]
  /\ ChangeRequestApproved(r)
  /\ ~TransformConflict(r)
  /\ pol' = ActivateExecution(r, c)
  /\ cr' = MarkActive(r)
  /\ status' = [status EXCEPT ![r] = "applied"]
  /\ resumed' = IF Activates(r, c) THEN resumed \ {Key(r)} ELSE resumed
  /\ UNCHANGED <<runs, settings, cleared>>

\* PATCH status=applied, from any status.
Apply(r) ==
  /\ status[r] # "absent"
  /\ \E c \in GateClears(r, FALSE) : ApplyRecommendation(r, c)

\* The promotion sweep applies an open recommendation of a lever in auto mode.
AutoApply(r) ==
  /\ status[r] = "open"
  /\ Lever[r] \in AutomatableLevers
  /\ autoOn[Lever[r]]
  /\ \E c \in GateClears(r, TRUE) : ApplyRecommendation(r, c)

\* Mutant: withdrawing turns no policy off.
DeactivateNothing(r) == pol

DeactivateExecution(r) ==
  [k \in Keys |-> IF pol[k].source = r THEN [pol[k] EXCEPT !.enabled = FALSE] ELSE pol[k]]

\* Mutants: the change request is left as it is; the change-request word for
\* a dismissal is written to the recommendation.
WithdrawKeepsRequest(r, next) ==
  /\ status[r] # "absent"
  /\ pol' = DeactivateExecution(r)
  /\ status' = [status EXCEPT ![r] = next]
  /\ UNCHANGED <<runs, cr, settings, cleared, resumed>>
WithdrawAsRejected(r, next) ==
  /\ status[r] # "absent"
  /\ pol' = DeactivateExecution(r)
  /\ cr' = MarkRolledBack(r)
  /\ status' = [status EXCEPT ![r] = IF next = "dismissed" THEN "rejected" ELSE next]
  /\ UNCHANGED <<runs, settings, cleared, resumed>>

\* PATCH status=dismissed or rolled_back, from any status.
Withdraw(r, next) ==
  /\ status[r] # "absent"
  /\ pol' = DeactivateExecution(r)
  /\ cr' = MarkRolledBack(r)
  /\ status' = [status EXCEPT ![r] = next]
  /\ UNCHANGED <<runs, settings, cleared, resumed>>

\* PATCH status=open touches nothing but the status.
Reopen(r) ==
  /\ status[r] # "absent"
  /\ status' = [status EXCEPT ![r] = "open"]
  /\ UNCHANGED <<runs, cr, pol, settings, cleared, resumed>>

-----------------------------------------------------------------------------
(* The drift sweep *)

NextStage(current) ==
  LET above == {i \in DOMAIN Stages : Stages[i] > current}
      first == {i \in above : \A j \in above : i <= j}
  IN IF first = {} THEN current ELSE Stages[CHOOSE i \in first : TRUE]

\* A clean rule mid-canary moves one stage up.
Promoted(p) ==
  IF CanaryEnabled /\ p.rollout < FullyLive
  THEN [p EXCEPT !.rollout = NextStage(@)] ELSE p

LiveKeys == {k \in Keys : pol[k].enabled}

\* One sweep over the enabled rules.  The measurements are the environment's:
\* regressed rules roll back with their recommendation and change request;
\* rules with signal and no regression are promoted; regressed bandit
\* candidates leave the set of a rule that is still live.
DriftSweep(regressed, signal, lost) ==
  /\ pol' = [k \in Keys |->
        IF k \in regressed THEN [pol[k] EXCEPT !.enabled = FALSE]
        ELSE IF k \in LiveKeys
        THEN LET p == IF k \in signal THEN Promoted(pol[k]) ELSE pol[k]
             IN [p EXCEPT !.bandit = @ \ {c \in Models : <<k, c>> \in lost}]
        ELSE pol[k]]
  /\ status' = [r \in Recs |->
        IF \E k \in regressed : pol[k].source = r THEN "rolled_back" ELSE status[r]]
  /\ cr' = [r \in Recs |->
        IF (\E k \in regressed : pol[k].source = r) /\ cr[r].st = "active"
        THEN [cr[r] EXCEPT !.st = "rolled_back"] ELSE cr[r]]
  /\ UNCHANGED <<runs, settings, cleared, resumed>>

-----------------------------------------------------------------------------
(* Operator controls *)

\* Mutant: resuming asks for the lever only.
SetPolicyAnyPlan(k, on) ==
  /\ "policy" \in Switches
  /\ pol[k].source # NoRec
  /\ on => leverOn[k[1]]
  /\ pol' = [pol EXCEPT ![k].enabled = on]
  /\ resumed' = IF on /\ ~pol[k].enabled THEN resumed \cup {k} ELSE resumed
  /\ UNCHANGED <<status, runs, cr, settings, cleared>>

\* PATCH on a policy row: pausing is always allowed, resuming asks for the
\* plan and the lever and for nothing else.
SetPolicy(k, on) ==
  /\ "policy" \in Switches
  /\ pol[k].source # NoRec
  /\ on => entitled /\ leverOn[k[1]]
  /\ pol' = [pol EXCEPT ![k].enabled = on]
  /\ resumed' = IF on /\ ~pol[k].enabled THEN resumed \cup {k} ELSE resumed
  /\ UNCHANGED <<status, runs, cr, settings, cleared>>

\* Mutant: any completed run on the pair will do.
CandidateEvaluated(k, c) ==
  \E i \in DOMAIN runs :
    Target[runs[i].rec] = k[2] /\ runs[i].cand = c /\ runs[i].st \in Verdicts

\* The newest completed run on the pair (incumbent, candidate) clears it.
CandidateCleared(k, c) ==
  LET onPair == {i \in DOMAIN runs : /\ Target[runs[i].rec] = k[2]
                                     /\ runs[i].cand = c
                                     /\ runs[i].st \in Verdicts}
  IN \E i \in onPair :
       /\ \A j \in onPair : j <= i
       /\ \/ runs[i].st = "safe"
          \/ /\ runs[i].st = "needs_human"
             /\ cr[runs[i].rec].st \in {"approved", "active"}

AddBanditCandidate(k, c) ==
  /\ "bandit" \in Switches
  /\ k[1] \in RoutingLevers /\ pol[k].source # NoRec
  /\ entitled
  /\ c # k[2] /\ c # pol[k].cand /\ c \notin pol[k].bandit
  /\ CandidateCleared(k, c)
  /\ pol' = [pol EXCEPT ![k].bandit = @ \cup {c}]
  /\ UNCHANGED <<status, runs, cr, settings, cleared, resumed>>

RemoveBanditCandidate(k, c) ==
  /\ "bandit" \in Switches
  /\ c \in pol[k].bandit
  /\ pol' = [pol EXCEPT ![k].bandit = @ \ {c}]
  /\ UNCHANGED <<status, runs, cr, settings, cleared, resumed>>

\* PATCH on a lever: switching it on, or to auto, is for the Pro plan.
SetLever(l, on) ==
  /\ "lever" \in Switches
  /\ on => entitled
  /\ leverOn' = [leverOn EXCEPT ![l] = on]
  /\ UNCHANGED <<status, runs, cr, pol, autoOn, entitled, enforced, cleared, resumed>>

SetAutomation(l, auto) ==
  /\ "auto" \in Switches
  /\ auto => entitled
  /\ autoOn' = [autoOn EXCEPT ![l] = auto]
  /\ UNCHANGED <<status, runs, cr, pol, leverOn, entitled, enforced, cleared, resumed>>

SetEnforced(on) ==
  /\ "enforced" \in Switches
  /\ enforced' = on
  /\ UNCHANGED <<status, runs, cr, pol, leverOn, autoOn, entitled, cleared, resumed>>

\* Billing moves the organization between plans.
SetEntitled(on) ==
  /\ "entitled" \in Switches
  /\ entitled' = on
  /\ UNCHANGED <<status, runs, cr, pol, leverOn, autoOn, enforced, cleared, resumed>>

-----------------------------------------------------------------------------
UsedLevers == {Lever[r] : r \in Recs}

HumanStep ==
  \/ \E r \in Recs :
       \/ EvaluateRecommendation(r)
       \/ Apply(r)
       \/ \E next \in {"dismissed", "rolled_back"} : Withdraw(r, next)
       \/ Reopen(r)
       \/ \E approve \in BOOLEAN : DecideRequest(r, approve)
  \/ \E k \in Keys :
       \/ \E on \in BOOLEAN : SetPolicy(k, on)
       \/ \E c \in Models : AddBanditCandidate(k, c) \/ RemoveBanditCandidate(k, c)
  \/ \E on \in BOOLEAN :
       \/ SetEnforced(on) \/ SetEntitled(on)
       \/ \E l \in UsedLevers : SetLever(l, on) \/ SetAutomation(l, on)

EvalStep ==
  \E i \in DOMAIN runs :
    \/ StartRun(i)
    \/ \E v \in Verdicts : FinishRun(i, v)
    \/ FailRun(i)

SweepStep ==
  \/ \E r \in Recs : AutoApply(r)
  \/ \E regressed \in SUBSET LiveKeys :
       \E signal \in SUBSET (LiveKeys \ regressed) :
         \E lost \in SUBSET UNION {{<<k, c>> : c \in pol[k].bandit} : k \in LiveKeys \ regressed} :
           DriftSweep(regressed, signal, lost)

Next == HumanStep \/ EvalStep \/ SweepStep \/ \E r \in Recs : Upsert(r)

Spec == Init /\ [][Next]_vars

-----------------------------------------------------------------------------
(* Properties *)

\* Rows, runs, requests and policies stay in the domains of their columns.
TypeOK ==
  /\ status \in [Recs -> RecStates]
  /\ runs \in Seq(Run)
  /\ cr \in [Recs -> Request]
  /\ pol \in [Keys -> Policy]
  /\ leverOn \in [Levers -> BOOLEAN]
  /\ autoOn \in [Levers -> BOOLEAN]
  /\ entitled \in BOOLEAN
  /\ enforced \in BOOLEAN
  /\ resumed \subseteq Keys

\* Every model the hot path may route to, primary or bandit, live or paused,
\* has at some time cleared a shadow eval against the model it replaces, and
\* so has every compression artifact, whatever was evaluated, resumed, taken
\* over or rolled back since.
ClearedCandidates ==
  \A k \in Keys : k[1] \in GatedLevers =>
    /\ pol[k].source # NoRec => <<k[2], pol[k].cand>> \in cleared
    /\ \A c \in pol[k].bandit : <<k[2], c>> \in cleared

\* With enforcement on everywhere, the recommendation behind every model-swap
\* or compression policy, a resumed one too, has a change request that a
\* human approved and that an apply has activated.
GovernedPolicies ==
  GlobalEnforced =>
    \A k \in Keys : (k[1] \in GovernedLevers /\ pol[k].source # NoRec) =>
      /\ cr[pol[k].source].decided
      /\ cr[pol[k].source].st \in {"active", "rolled_back"}

\* A recommendation that was dismissed or rolled back, by a human or by the
\* drift guard, never leaves its change request active.
WithdrawnRequestIsClosed ==
  \A r \in Recs : status[r] \in {"dismissed", "rolled_back"} => cr[r].st # "active"

\* A live policy that no operator has resumed by hand is sourced from a
\* recommendation that is applied, or that was reopened after being applied.
LivePolicyIsBacked ==
  \A k \in Keys : (pol[k].enabled /\ k \notin resumed) =>
    /\ pol[k].source # NoRec
    /\ status[pol[k].source] \in {"applied", "open"}

\* Once a human has decided a change request its evidence and candidate are
\* frozen, it is never up for decision again, and a rejected or rolled-back
\* request never comes back.
DecisionIsFinal ==
  [][\A r \in Recs :
       /\ cr[r].decided =>
            /\ cr'[r].decided /\ cr'[r].st # "proposed"
            /\ cr'[r].cand = cr[r].cand /\ cr'[r].evidence = cr[r].evidence
       /\ cr[r].st \in {"rejected", "rolled_back"} => cr'[r].st = cr[r].st]_vars

\* Nothing starts changing production traffic for an organization that is not
\* on the Pro plan or has the lever switched off, whichever of the three
\* writers (a human's apply, the automation, a resumed row) turns it on.
OnlyProGoesLive ==
  [][\A k \in Keys : (~pol[k].enabled /\ pol'[k].enabled) => (entitled /\ leverOn[k[1]])]_vars
=============================================================================
