------------------------ MODULE ChangeControl_proofs ------------------------
(***************************************************************************)
(* Proofs about ChangeControl, for every set of recommendations and models *)
(* and every assignment of levers, targets and routes to recommendations.  *)
(***************************************************************************)
EXTENDS ChangeControl, TLAPS

\* A policy row of a recommendation's key exists when its lever has one.
LEMMA KeyInKeys == ASSUME NEW r \in Recs, Lever[r] \in PolicyLevers
                   PROVE  Key(r) \in Keys
  BY DEF Keys

\* next_stage returns a percentage.
LEMMA NextStageType == ASSUME NEW n \in Nat PROVE NextStage(n) \in Nat
<1> DEFINE above == {i \in DOMAIN Stages : Stages[i] > n}
           first == {i \in above : \A j \in above : i <= j}
<1>1. CASE first = {}
  BY <1>1 DEF NextStage
<1>2. CASE first # {}
  <2>1. (CHOOSE i \in first : TRUE) \in DOMAIN Stages
    BY <1>2
  <2>2. Stages \in Seq(Nat)
    BY ConstantsAssumption
  <2>3. Stages[CHOOSE i \in first : TRUE] \in Nat
    BY <2>1, <2>2
  <2> QED BY <1>2, <2>3 DEF NextStage
<1> QED BY <1>1, <1>2

\* A ramp starts at a percentage.
LEMMA InitialRolloutType == InitialRollout \in Nat
  BY ConstantsAssumption DEF InitialRollout, FullyLive

\* The row an activation leaves behind is a policy row.
LEMMA ActivatedType == ASSUME NEW p \in Policy, NEW r \in Recs, NEW c \in Models \cup {NoModel}
                       PROVE  Activated(p, r, c) \in Policy
  BY InitialRolloutType DEF Activated, Policy

\* A run's recommendation, candidate and state have their types.
LEMMA RunType == ASSUME TypeOK, NEW i \in DOMAIN runs
                 PROVE  /\ runs[i] \in Run
                        /\ runs[i].rec \in Recs
                        /\ runs[i].cand \in Models \cup {NoModel}
<1>1. runs[i] \in Run
  BY DEF TypeOK
<1> QED BY <1>1 DEF Run

\* The gate hands over the candidate of an actionable run, or none.
LEMMA GateCandidateType ==
  ASSUME TypeOK, NEW r \in Recs, NEW b \in BOOLEAN, NEW c \in GateClears(r, b)
  PROVE  c \in Models \cup {NoModel}
<1>1. CASE Lever[r] \in GatedLevers
  <2>1. PICK i \in DOMAIN runs : c = runs[i].cand
    BY <1>1 DEF GateClears
  <2> QED BY <2>1, RunType
<1>2. CASE Lever[r] \notin GatedLevers
  BY <1>2 DEF GateClears
<1> QED BY <1>1, <1>2

\* Opening, activating and closing a change request keep its type.
LEMMA RequestType ==
  ASSUME TypeOK, NEW r \in Recs
  PROVE  /\ MarkActive(r) \in [Recs -> Request]
         /\ MarkRolledBack(r) \in [Recs -> Request]
         /\ \A c \in Models \cup {NoModel} : EnsureRequest(r, c) \in [Recs -> Request]
<1>1. cr[r] \in Request /\ cr[r].st \in RequestStates
  BY DEF TypeOK, Request
<1>2. \A s \in RequestStates : [cr[r] EXCEPT !.st = s] \in Request
  BY <1>1 DEF Request
<1>3. \A s \in RequestStates : [cr EXCEPT ![r].st = s] \in [Recs -> Request]
  BY <1>2 DEF TypeOK
<1>4. MarkActive(r) \in [Recs -> Request]
  BY <1>1, <1>3 DEF MarkActive, RequestStates
<1>5. MarkRolledBack(r) \in [Recs -> Request]
  BY <1>1, <1>3 DEF MarkRolledBack, RequestStates
<1>6. ASSUME NEW c \in Models \cup {NoModel}
      PROVE  EnsureRequest(r, c) \in [Recs -> Request]
  <2>1. [st |-> "proposed", cand |-> c, evidence |-> c, decided |-> FALSE] \in Request
    BY DEF Request, RequestStates
  <2>2. [cr[r] EXCEPT !.evidence = c] \in Request
    BY <1>1 DEF Request
  <2> QED BY <2>1, <2>2 DEF EnsureRequest, TypeOK
<1> QED BY <1>4, <1>5, <1>6

\* An apply keeps the types.
LEMMA ApplyType ==
  ASSUME TypeOK, NEW r \in Recs, NEW c \in Models \cup {NoModel},
         ApplyRecommendation(r, c)
  PROVE  TypeOK'
<1>1. pol' \in [Keys -> Policy]
  <2>1. CASE Activates(r, c)
    <3>1. pol[Key(r)] \in Policy
      BY <2>1, KeyInKeys DEF TypeOK, Activates
    <3>2. Activated(pol[Key(r)], r, c) \in Policy
      BY <3>1, ActivatedType
    <3> QED BY <2>1, <3>2 DEF TypeOK, ApplyRecommendation, ActivateExecution
  <2>2. CASE ~Activates(r, c)
    BY <2>2 DEF TypeOK, ApplyRecommendation, ActivateExecution
  <2> QED BY <2>1, <2>2
<1>2. cr' \in [Recs -> Request]
  BY RequestType DEF ApplyRecommendation
<1>3. status' \in [Recs -> RecStates]
  BY DEF TypeOK, ApplyRecommendation, RecStates
<1> QED BY <1>1, <1>2, <1>3 DEF TypeOK, ApplyRecommendation, settings

-----------------------------------------------------------------------------
(* Type correctness *)

\* Nothing is seeded, evaluated or live at first.
LEMMA InitType == Init => TypeOK
<1> SUFFICES ASSUME Init PROVE TypeOK
  OBVIOUS
<1>1. NoRequest \in Request
  BY DEF NoRequest, Request, RequestStates
<1>2. NoPolicy \in Policy
  BY DEF NoPolicy, Policy, FullyLive
<1>3. cr \in [Recs -> Request] /\ pol \in [Keys -> Policy]
  BY <1>1, <1>2 DEF Init
<1>4. leverOn \in [Levers -> BOOLEAN] /\ autoOn \in [Levers -> BOOLEAN]
  BY DEF Init
<1>5. status \in [Recs -> RecStates]
  BY DEF Init, RecStates
<1>6. runs \in Seq(Run)
  BY DEF Init
<1>7. entitled \in BOOLEAN /\ enforced \in BOOLEAN /\ resumed \subseteq Keys
  BY DEF Init
<1> QED BY <1>3, <1>4, <1>5, <1>6, <1>7 DEF TypeOK

\* The eval steps: opening, starting, finishing and failing a run.
LEMMA EvalStepType ==
  ASSUME TypeOK, \/ \E r \in Recs : EvaluateRecommendation(r)
                 \/ EvalStep
  PROVE  TypeOK'
<1> USE DEF settings
<1>1. \A i \in DOMAIN runs : \A s \in RunStates : \A b \in BOOLEAN :
        [runs[i] EXCEPT !.st = s, !.again = b] \in Run
  BY RunType DEF Run
<1>2. \A i \in DOMAIN runs : \A s \in RunStates : [runs EXCEPT ![i].st = s] \in Seq(Run)
  <2> SUFFICES ASSUME NEW i \in DOMAIN runs, NEW s \in RunStates
               PROVE  [runs EXCEPT ![i].st = s] \in Seq(Run)
    OBVIOUS
  <2>1. [runs[i] EXCEPT !.st = s] \in Run
    BY RunType DEF Run
  <2> QED BY <2>1 DEF TypeOK
<1>3. ASSUME NEW r \in Recs, EvaluateRecommendation(r) PROVE TypeOK'
  <2>1. runs' \in Seq(Run)
    <3>1. CASE \E i \in DOMAIN runs : runs' = [runs EXCEPT ![i].again = TRUE]
      <4>1. PICK i \in DOMAIN runs : runs' = [runs EXCEPT ![i].again = TRUE]
        BY <3>1
      <4>2. [runs[i] EXCEPT !.again = TRUE] \in Run
        BY RunType DEF Run
      <4> QED BY <4>1, <4>2 DEF TypeOK
    <3>2. CASE \E c \in IF Lever[r] \in RoutingLevers THEN Models ELSE {NoModel} :
             runs' = Append(runs, [rec |-> r, cand |-> c, st |-> "pending", again |-> FALSE])
      <4>1. PICK c \in Models \cup {NoModel} :
             runs' = Append(runs, [rec |-> r, cand |-> c, st |-> "pending", again |-> FALSE])
        BY <3>2
      <4>2. [rec |-> r, cand |-> c, st |-> "pending", again |-> FALSE] \in Run
        BY DEF Run, RunStates
      <4> QED BY <4>1, <4>2 DEF TypeOK
    <3> QED BY <1>3, <3>1, <3>2 DEF EvaluateRecommendation
  <2> QED BY <1>3, <2>1 DEF TypeOK, EvaluateRecommendation
<1>4. ASSUME NEW i \in DOMAIN runs, StartRun(i) PROVE TypeOK'
  <2>1. runs' \in Seq(Run)
    <3>1. [runs EXCEPT ![i].st = "running"] \in Seq(Run)
      BY <1>2 DEF RunStates
    <3>2. [runs[i] EXCEPT !.st = "running", !.again = FALSE] \in Run
      BY <1>1 DEF RunStates
    <3>3. [runs EXCEPT ![i] = [@ EXCEPT !.st = "running", !.again = FALSE]] \in Seq(Run)
      BY <3>2 DEF TypeOK
    <3> QED BY <1>4, <3>1, <3>3 DEF StartRun
  <2> QED BY <1>4, <2>1 DEF TypeOK, StartRun
<1>5. ASSUME NEW i \in DOMAIN runs, NEW v \in Verdicts, FinishRun(i, v) PROVE TypeOK'
  <2>1. runs' \in Seq(Run)
    BY <1>2, <1>5 DEF FinishRun, RunStates
  <2>2. cr' \in [Recs -> Request]
    BY <1>5, RunType, RequestType DEF FinishRun, TypeOK
  <2> QED BY <1>5, <2>1, <2>2 DEF TypeOK, FinishRun
<1>6. ASSUME NEW i \in DOMAIN runs, FailRun(i) PROVE TypeOK'
  <2>1. runs' \in Seq(Run)
    BY <1>2, <1>6 DEF FailRun, RunStates
  <2> QED BY <1>6, <2>1 DEF TypeOK, FailRun
<1> QED BY <1>3, <1>4, <1>5, <1>6 DEF EvalStep

\* The drift sweep.
LEMMA DriftType ==
  ASSUME TypeOK, NEW regressed, NEW signal, NEW lost, DriftSweep(regressed, signal, lost)
  PROVE  TypeOK'
<1>1. pol' \in [Keys -> Policy]
  <2>1. ASSUME NEW k \in Keys PROVE pol'[k] \in Policy
    <3>1. pol[k] \in Policy
      BY DEF TypeOK
    <3>2. [pol[k] EXCEPT !.enabled = FALSE] \in Policy
      BY <3>1 DEF Policy
    <3>3. Promoted(pol[k]) \in Policy
      BY <3>1, NextStageType DEF Policy, Promoted
    <3>4. \A p \in Policy : \A S : [p EXCEPT !.bandit = @ \ S] \in Policy
      BY DEF Policy
    <3> QED BY <3>1, <3>2, <3>3, <3>4 DEF DriftSweep
  <2> QED BY <2>1 DEF DriftSweep
<1>2. cr' \in [Recs -> Request]
  <2>1. ASSUME NEW r \in Recs PROVE cr'[r] \in Request
    <3>1. cr[r] \in Request
      BY DEF TypeOK
    <3>2. [cr[r] EXCEPT !.st = "rolled_back"] \in Request
      BY <3>1 DEF Request, RequestStates
    <3> QED BY <3>1, <3>2 DEF DriftSweep
  <2> QED BY <2>1 DEF DriftSweep
<1>3. status' \in [Recs -> RecStates]
  BY DEF TypeOK, DriftSweep, RecStates
<1> QED BY <1>1, <1>2, <1>3 DEF TypeOK, DriftSweep, settings

\* Every other step.
LEMMA OtherStepType ==
  ASSUME TypeOK, NEW r \in Recs,
         \/ Upsert(r) \/ Reopen(r)
         \/ \E next \in {"dismissed", "rolled_back"} : Withdraw(r, next)
         \/ \E approve \in BOOLEAN : DecideRequest(r, approve)
  PROVE  TypeOK'
<1> USE DEF settings
<1>1. CASE Upsert(r)
  BY <1>1 DEF Upsert, TypeOK, RecStates
<1>2. CASE Reopen(r)
  BY <1>2 DEF Reopen, TypeOK, RecStates
<1>3. ASSUME NEW next \in {"dismissed", "rolled_back"}, Withdraw(r, next) PROVE TypeOK'
  <2>1. cr' \in [Recs -> Request]
    BY <1>3, RequestType DEF Withdraw
  <2>2. pol' \in [Keys -> Policy]
    <3>1. \A k \in Keys : pol[k] \in Policy /\ [pol[k] EXCEPT !.enabled = FALSE] \in Policy
      BY DEF TypeOK, Policy
    <3> QED BY <1>3, <3>1 DEF Withdraw, DeactivateExecution
  <2>3. status' \in [Recs -> RecStates]
    BY <1>3 DEF Withdraw, TypeOK, RecStates
  <2> QED BY <1>3, <2>1, <2>2, <2>3 DEF Withdraw, TypeOK
<1>4. ASSUME NEW approve \in BOOLEAN, DecideRequest(r, approve) PROVE TypeOK'
  <2>1. cr[r] \in Request
    BY DEF TypeOK
  <2>2. [cr[r] EXCEPT !.st = IF approve THEN "approved" ELSE "rejected", !.decided = TRUE]
          \in Request
    BY <2>1 DEF Request, RequestStates
  <2> QED BY <1>4, <2>2 DEF DecideRequest, TypeOK
<1> QED BY <1>1, <1>2, <1>3, <1>4

\* The operator controls.
LEMMA ControlType ==
  ASSUME TypeOK,
         \/ \E k \in Keys :
              \/ \E on \in BOOLEAN : SetPolicy(k, on)
              \/ \E c \in Models : AddBanditCandidate(k, c) \/ RemoveBanditCandidate(k, c)
         \/ \E on \in BOOLEAN :
              \/ SetEnforced(on) \/ SetEntitled(on)
              \/ \E l \in UsedLevers : SetLever(l, on) \/ SetAutomation(l, on)
  PROVE  TypeOK'
<1> USE DEF settings
<1>1. ASSUME NEW k \in Keys, NEW on \in BOOLEAN, SetPolicy(k, on) PROVE TypeOK'
  <2>1. pol[k] \in Policy
    BY DEF TypeOK
  <2>2. [pol[k] EXCEPT !.enabled = on] \in Policy
    BY <2>1 DEF Policy
  <2>3. pol' \in [Keys -> Policy]
    BY <1>1, <2>2 DEF SetPolicy, TypeOK
  <2>4. resumed' \subseteq Keys
    BY <1>1 DEF SetPolicy, TypeOK
  <2> QED BY <1>1, <2>3, <2>4 DEF SetPolicy, TypeOK
<1>2. ASSUME NEW k \in Keys, NEW c \in Models, AddBanditCandidate(k, c) PROVE TypeOK'
  <2>1. pol[k] \in Policy
    BY DEF TypeOK
  <2>2. [pol[k] EXCEPT !.bandit = @ \cup {c}] \in Policy
    BY <2>1 DEF Policy
  <2> QED BY <1>2, <2>2 DEF AddBanditCandidate, TypeOK
<1>3. ASSUME NEW k \in Keys, NEW c \in Models, RemoveBanditCandidate(k, c) PROVE TypeOK'
  <2>1. pol[k] \in Policy
    BY DEF TypeOK
  <2>2. [pol[k] EXCEPT !.bandit = @ \ {c}] \in Policy
    BY <2>1 DEF Policy
  <2> QED BY <1>3, <2>2 DEF RemoveBanditCandidate, TypeOK
<1>4. ASSUME NEW on \in BOOLEAN, SetEnforced(on) \/ SetEntitled(on) PROVE TypeOK'
  BY <1>4 DEF SetEnforced, SetEntitled, TypeOK
<1>5. ASSUME NEW on \in BOOLEAN, NEW l \in UsedLevers, SetLever(l, on) \/ SetAutomation(l, on)
      PROVE  TypeOK'
  BY <1>5 DEF SetLever, SetAutomation, TypeOK
<1> QED BY <1>1, <1>2, <1>3, <1>4, <1>5

\* Both writers of an apply go through the gate and _apply_recommendation.
LEMMA ApplyCases ==
  ASSUME TypeOK, NEW r \in Recs, Apply(r) \/ AutoApply(r)
  PROVE  \E automated \in BOOLEAN : \E c \in GateClears(r, automated) :
           ApplyRecommendation(r, c)
  BY DEF Apply, AutoApply

\* Every handler and every sweep keeps the types.
LEMMA NextType == TypeOK /\ [Next]_vars => TypeOK'
<1> SUFFICES ASSUME TypeOK, [Next]_vars PROVE TypeOK'
  OBVIOUS
<1>1. ASSUME NEW r \in Recs, Apply(r) \/ AutoApply(r) PROVE TypeOK'
  <2>1. PICK b \in BOOLEAN : \E c \in GateClears(r, b) : ApplyRecommendation(r, c)
    BY <1>1, ApplyCases
  <2>2. PICK c \in GateClears(r, b) : ApplyRecommendation(r, c)
    BY <2>1
  <2>3. c \in Models \cup {NoModel}
    BY GateCandidateType
  <2> QED BY <2>2, <2>3, ApplyType
<1>2. CASE UNCHANGED vars
  BY <1>2 DEF TypeOK, vars
<1> QED BY <1>1, <1>2, EvalStepType, DriftType, OtherStepType, ControlType
        DEF Next, HumanStep, SweepStep

\* Every handler and every sweep leaves the rows well-formed: statuses are
\* words of their own vocabulary, a request's candidate and evidence are
\* models the catalog knows, a rollout is a percentage.
THEOREM TypeCorrect == Spec => []TypeOK
<1>1. Init => TypeOK
  BY InitType
<1>2. TypeOK /\ [Next]_vars => TypeOK'
  BY NextType
<1> QED BY <1>1, <1>2, PTL DEF Spec

-----------------------------------------------------------------------------
(* The safety invariants.  None of them is inductive alone: a policy row must
   be known to belong to the key of its source, an actionable verdict to have
   been recorded as cleared, and an approved request to have been decided. *)

\* A row is sourced from a recommendation of its own key, and is never live
\* without a source.
SourceKey ==
  \A k \in Keys : /\ pol[k].source # NoRec => Key(pol[k].source) = k
                  /\ pol[k].enabled => pol[k].source # NoRec

RunsCleared ==
  \A i \in DOMAIN runs : runs[i].st \in Actionable =>
    <<Target[runs[i].rec], runs[i].cand>> \in cleared

RequestDecided ==
  \A r \in Recs : /\ cr[r].st = "approved" => cr[r].decided
                  /\ cr[r].decided => cr[r].st \notin {"none", "proposed"}

SafetyInv ==
  /\ TypeOK
  /\ SourceKey
  /\ RunsCleared
  /\ RequestDecided
  /\ ClearedCandidates
  /\ GovernedPolicies
  /\ WithdrawnRequestIsClosed
  /\ LivePolicyIsBacked

\* With no rows there is nothing to clear, approve or withdraw.
LEMMA InitSafety == Init => SafetyInv
<1> SUFFICES ASSUME Init PROVE SafetyInv
  OBVIOUS
<1>1. TypeOK
  BY InitType
<1>2. \A k \in Keys : pol[k] = NoPolicy
  BY DEF Init
<1>3. \A r \in Recs : cr[r] = NoRequest /\ status[r] = "absent"
  BY DEF Init
<1>4. RunsCleared
  BY DEF Init, RunsCleared
<1>5. SourceKey /\ ClearedCandidates /\ GovernedPolicies /\ LivePolicyIsBacked
  BY <1>2 DEF NoPolicy, SourceKey, ClearedCandidates, GovernedPolicies, LivePolicyIsBacked
<1>6. RequestDecided /\ WithdrawnRequestIsClosed
  BY <1>3 DEF NoRequest, RequestDecided, WithdrawnRequestIsClosed
<1> QED BY <1>1, <1>4, <1>5, <1>6 DEF SafetyInv

\* The candidate the gate hands over for a gated lever has been cleared.
LEMMA GateCleared ==
  ASSUME TypeOK, RunsCleared, NEW r \in Recs, NEW b \in BOOLEAN, NEW c \in GateClears(r, b),
         Lever[r] \in GatedLevers
  PROVE  <<Target[r], c>> \in cleared
<1>1. PICK i \in DOMAIN runs : c = runs[i].cand /\ Appliable(r, i, b)
  BY DEF GateClears
<1>2. runs[i].rec = r /\ runs[i].st \in Actionable
  BY <1>1 DEF Appliable, IsLatest, Actionable
<1> QED BY <1>1, <1>2 DEF RunsCleared

\* Applying: the row of the recommendation's key changes, no other does; under
\* enforcement the request that becomes active was approved, hence decided.
LEMMA ApplySafety ==
  ASSUME SafetyInv, NEW r \in Recs, NEW b \in BOOLEAN, NEW c \in GateClears(r, b),
         ApplyRecommendation(r, c), TypeOK'
  PROVE  SafetyInv'
<1>1. TypeOK /\ r # NoRec /\ c \in Models \cup {NoModel}
  BY ConstantsAssumption, GateCandidateType DEF SafetyInv
<1>2. ASSUME NEW k \in Keys, k # Key(r) \/ ~Activates(r, c)
      PROVE  pol'[k] = pol[k] /\ (k \in resumed' <=> k \in resumed)
  BY <1>1, <1>2 DEF ApplyRecommendation, ActivateExecution, TypeOK
<1>3. ASSUME Key(r) \in Keys, Activates(r, c)
      PROVE  /\ pol'[Key(r)].enabled
             /\ pol'[Key(r)].source = r
             /\ pol'[Key(r)].cand = c
             /\ pol'[Key(r)].bandit = pol[Key(r)].bandit
  <2>1. pol'[Key(r)] = Activated(pol[Key(r)], r, c)
    BY <1>1, <1>3 DEF ApplyRecommendation, ActivateExecution, TypeOK
  <2>2. pol[Key(r)] \in Policy
    BY <1>1, <1>3 DEF TypeOK
  <2> QED BY <2>1, <2>2 DEF Activated, Policy
<1>4. /\ \A s \in Recs : s # r => cr'[s] = cr[s] /\ status'[s] = status[s]
      /\ status'[r] = "applied"
      /\ cr'[r].decided = cr[r].decided
      /\ cr'[r].st = IF cr[r].st \in {"proposed", "approved"} THEN "active" ELSE cr[r].st
  <2>1. cr[r] \in Request
    BY <1>1 DEF TypeOK
  <2> QED BY <1>1, <2>1 DEF ApplyRecommendation, MarkActive, TypeOK, Request
<1>5. cleared' = cleared /\ runs' = runs
  BY DEF ApplyRecommendation
<1>6. SourceKey'
  BY <1>1, <1>2, <1>3 DEF SourceKey, SafetyInv
<1>7. RunsCleared'
  BY <1>5 DEF RunsCleared, SafetyInv
<1>8. RequestDecided'
  BY <1>4 DEF RequestDecided, SafetyInv
<1>9. ClearedCandidates'
  <2> SUFFICES ASSUME NEW k \in Keys, k[1] \in GatedLevers
               PROVE  /\ pol'[k].source # NoRec => <<k[2], pol'[k].cand>> \in cleared
                      /\ \A d \in pol'[k].bandit : <<k[2], d>> \in cleared
    BY <1>5 DEF ClearedCandidates
  <2>1. CASE k # Key(r) \/ ~Activates(r, c)
    BY <1>2, <2>1 DEF ClearedCandidates, SafetyInv
  <2>2. CASE k = Key(r) /\ Activates(r, c)
    <3>1. Lever[r] \in GatedLevers /\ k[2] = Target[r]
      BY <2>2 DEF Key
    <3>2. <<Target[r], c>> \in cleared
      BY <3>1, <1>1, GateCleared DEF SafetyInv
    <3> QED BY <1>3, <2>2, <3>1, <3>2 DEF ClearedCandidates, SafetyInv
  <2> QED BY <2>1, <2>2
<1>10. GovernedPolicies'
  <2> SUFFICES ASSUME GlobalEnforced, NEW k \in Keys, k[1] \in GovernedLevers,
                      pol'[k].source # NoRec
               PROVE  /\ cr'[pol'[k].source].decided
                      /\ cr'[pol'[k].source].st \in {"active", "rolled_back"}
    BY DEF GovernedPolicies
  <2>1. CASE k # Key(r) \/ ~Activates(r, c)
    <3>1. pol[k].source \in Recs
      BY <1>1, <1>2, <2>1 DEF TypeOK, Policy
    <3> QED BY <1>2, <1>4, <2>1, <3>1 DEF GovernedPolicies, SafetyInv
  <2>2. CASE k = Key(r) /\ Activates(r, c)
    <3>1. cr[r].st = "approved"
      BY <2>2 DEF ApplyRecommendation, ChangeRequestApproved, GovernanceEnforced, Key
    <3> QED BY <1>3, <1>4, <2>2, <3>1 DEF RequestDecided, SafetyInv
  <2> QED BY <2>1, <2>2
<1>11. WithdrawnRequestIsClosed'
  BY <1>4 DEF WithdrawnRequestIsClosed, SafetyInv
<1>12. LivePolicyIsBacked'
  <2> SUFFICES ASSUME NEW k \in Keys, pol'[k].enabled, k \notin resumed'
               PROVE  pol'[k].source # NoRec /\ status'[pol'[k].source] \in {"applied", "open"}
    BY DEF LivePolicyIsBacked
  <2>1. CASE k # Key(r) \/ ~Activates(r, c)
    <3>1. pol[k].source # NoRec /\ status[pol[k].source] \in {"applied", "open"}
      BY <1>2, <1>5, <2>1 DEF LivePolicyIsBacked, SafetyInv
    <3>2. pol[k].source \in Recs
      BY <1>1, <3>1 DEF TypeOK, Policy
    <3> QED BY <1>2, <1>4, <2>1, <3>1, <3>2
  <2>2. CASE k = Key(r) /\ Activates(r, c)
    BY <1>1, <1>3, <1>4, <2>2
  <2> QED BY <2>1, <2>2
<1> QED BY <1>6, <1>7, <1>8, <1>9, <1>10, <1>11, <1>12 DEF SafetyInv

\* Eval steps leave policies and statuses alone, record what they clear, and
\* touch a request only before it is decided.
LEMMA EvalSafety ==
  ASSUME SafetyInv, TypeOK', \/ \E r \in Recs : EvaluateRecommendation(r)
                             \/ EvalStep
  PROVE  SafetyInv'
<1> USE DEF settings
<1>1. TypeOK
  BY DEF SafetyInv
<1>2. pol' = pol /\ status' = status /\ resumed' = resumed
  BY DEF EvaluateRecommendation, EvalStep, StartRun, FinishRun, FailRun
<1>3. cleared \subseteq cleared'
  BY DEF EvaluateRecommendation, EvalStep, StartRun, FinishRun, FailRun
<1>4. \A r \in Recs : \/ cr'[r] = cr[r]
                      \/ /\ cr[r].st \in {"none", "proposed"}
                         /\ cr'[r].st = "proposed"
                         /\ cr'[r].decided = FALSE \/ cr'[r].decided = cr[r].decided
  <2>1. ASSUME NEW i \in DOMAIN runs, NEW v \in Verdicts, FinishRun(i, v), NEW r \in Recs,
               cr'[r] # cr[r]
        PROVE  /\ cr[r].st \in {"none", "proposed"}
               /\ cr'[r].st = "proposed"
               /\ cr'[r].decided = FALSE \/ cr'[r].decided = cr[r].decided
    <3>1. cr' = EnsureRequest(runs[i].rec, runs[i].cand) /\ runs[i].rec \in Recs
      BY <1>1, <2>1, RunType DEF FinishRun
    <3>2. cr[r] \in Request
      BY <1>1 DEF TypeOK
    <3> QED BY <1>1, <2>1, <3>1, <3>2 DEF EnsureRequest, TypeOK, Request
  <2> QED BY <2>1 DEF EvaluateRecommendation, EvalStep, StartRun, FailRun
<1>5. RunsCleared'
  <2>1. ASSUME NEW r \in Recs, EvaluateRecommendation(r), NEW i \in DOMAIN runs',
               runs'[i].st \in Actionable
        PROVE  i \in DOMAIN runs /\ runs'[i].rec = runs[i].rec /\ runs'[i].cand = runs[i].cand
               /\ runs[i].st \in Actionable
    <3>1. CASE \E j \in DOMAIN runs : runs' = [runs EXCEPT ![j].again = TRUE]
      BY <1>1, <2>1, <3>1, RunType DEF Run
    <3>2. CASE \E c : runs' = Append(runs, [rec |-> r, cand |-> c, st |-> "pending",
                                            again |-> FALSE])
      <4>1. PICK c : runs' = Append(runs, [rec |-> r, cand |-> c, st |-> "pending",
                                           again |-> FALSE])
        BY <3>2
      <4>2. runs \in Seq(Run) /\ DOMAIN runs = 1..Len(runs) /\ DOMAIN runs' = 1..Len(runs)+1
        BY <1>1, <4>1 DEF TypeOK
      <4>3. runs'[Len(runs)+1].st = "pending"
        BY <4>1, <4>2
      <4>4. i # Len(runs)+1
        BY <2>1, <4>3 DEF Actionable
      <4>5. i \in 1..Len(runs) /\ runs'[i] = runs[i]
        BY <2>1, <4>1, <4>2, <4>4
      <4> QED BY <2>1, <4>2, <4>5
    <3> QED BY <2>1, <3>1, <3>2 DEF EvaluateRecommendation
  <2>2. ASSUME NEW j \in DOMAIN runs, StartRun(j) \/ FailRun(j), NEW i \in DOMAIN runs',
               runs'[i].st \in Actionable
        PROVE  i \in DOMAIN runs /\ runs'[i] = runs[i]
    <3>1. runs[j] \in Run /\ runs \in Seq(Run)
      BY <1>1, RunType DEF TypeOK
    <3>2. \/ runs' = [runs EXCEPT ![j].st = "running"]
          \/ runs' = [runs EXCEPT ![j].st = "failed"]
          \/ runs' = [runs EXCEPT ![j] = [@ EXCEPT !.st = "running", !.again = FALSE]]
      BY <2>2 DEF StartRun, FailRun
    <3>3. DOMAIN runs' = DOMAIN runs /\ runs'[j].st \in {"running", "failed"}
      BY <3>1, <3>2 DEF Run
    <3>4. i # j
      BY <2>2, <3>3 DEF Actionable
    <3> QED BY <2>2, <3>1, <3>2, <3>3, <3>4
  <2>3. ASSUME NEW j \in DOMAIN runs, NEW v \in Verdicts, FinishRun(j, v),
               NEW i \in DOMAIN runs', runs'[i].st \in Actionable
        PROVE  <<Target[runs'[i].rec], runs'[i].cand>> \in cleared'
    <3>1. /\ runs[j] \in Run /\ runs \in Seq(Run)
          /\ runs' = [runs EXCEPT ![j].st = v] /\ DOMAIN runs' = DOMAIN runs
      BY <1>1, <2>3, RunType DEF TypeOK, FinishRun
    <3>2. CASE i = j
      <4>1. runs'[i].rec = runs[i].rec /\ runs'[i].cand = runs[i].cand /\ runs'[i].st = v
        BY <3>1, <3>2 DEF Run
      <4> QED BY <2>3, <3>2, <4>1 DEF FinishRun
    <3>3. CASE i # j
      <4>1. runs'[i] = runs[i] /\ i \in DOMAIN runs
        BY <2>3, <3>1, <3>3
      <4> QED BY <1>3, <2>3, <4>1 DEF RunsCleared, SafetyInv
    <3> QED BY <3>2, <3>3
  <2> QED BY <1>3, <2>1, <2>2, <2>3 DEF RunsCleared, SafetyInv, EvalStep
<1>6. SourceKey' /\ LivePolicyIsBacked'
  BY <1>2 DEF SourceKey, LivePolicyIsBacked, SafetyInv
<1>7. ClearedCandidates'
  BY <1>2, <1>3 DEF ClearedCandidates, SafetyInv
<1>8. RequestDecided'
  BY <1>4 DEF RequestDecided, SafetyInv
<1>9. GovernedPolicies'
  <2>1. \A k \in Keys : pol[k].source # NoRec => pol[k].source \in Recs
    BY <1>1 DEF TypeOK, Policy
  <2> QED BY <1>2, <1>4, <2>1 DEF GovernedPolicies, SafetyInv
<1>10. WithdrawnRequestIsClosed'
  BY <1>2, <1>4 DEF WithdrawnRequestIsClosed, SafetyInv
<1> QED BY <1>5, <1>6, <1>7, <1>8, <1>9, <1>10 DEF SafetyInv

\* Withdrawing, reopening, seeding and deciding.
LEMMA RecommendationSafety ==
  ASSUME SafetyInv, TypeOK', NEW r \in Recs,
         \/ Upsert(r) \/ Reopen(r)
         \/ \E next \in {"dismissed", "rolled_back"} : Withdraw(r, next)
         \/ \E approve \in BOOLEAN : DecideRequest(r, approve)
  PROVE  SafetyInv'
<1> USE DEF settings
<1>1. /\ TypeOK /\ cr[r] \in Request
      /\ \A k \in Keys : pol[k] \in Policy /\ (pol[k].source # NoRec => pol[k].source \in Recs)
  BY DEF SafetyInv, TypeOK, Policy
<1>2. CASE Upsert(r) \/ Reopen(r)
  <2>1. /\ pol' = pol /\ cr' = cr /\ runs' = runs /\ cleared' = cleared /\ resumed' = resumed
        /\ status'[r] = "open" /\ \A s \in Recs : s # r => status'[s] = status[s]
    BY <1>1, <1>2 DEF Upsert, Reopen, TypeOK
  <2>2. SourceKey' /\ RunsCleared' /\ RequestDecided' /\ ClearedCandidates' /\ GovernedPolicies'
    BY <2>1 DEF SafetyInv, SourceKey, RunsCleared, RequestDecided, ClearedCandidates,
                GovernedPolicies
  <2>3. WithdrawnRequestIsClosed' /\ LivePolicyIsBacked'
    BY <1>1, <2>1 DEF SafetyInv, WithdrawnRequestIsClosed, LivePolicyIsBacked
  <2> QED BY <2>2, <2>3 DEF SafetyInv
<1>3. ASSUME NEW next \in {"dismissed", "rolled_back"}, Withdraw(r, next) PROVE SafetyInv'
  <2>1. /\ runs' = runs /\ cleared' = cleared /\ resumed' = resumed
        /\ \A s \in Recs : s # r => status'[s] = status[s] /\ cr'[s] = cr[s]
        /\ cr'[r].decided = cr[r].decided
        /\ cr'[r].st = IF cr[r].st = "active" THEN "rolled_back" ELSE cr[r].st
    BY <1>1, <1>3 DEF Withdraw, MarkRolledBack, TypeOK, Request
  <2>2. ASSUME NEW k \in Keys
        PROVE  /\ pol'[k].source = pol[k].source /\ pol'[k].cand = pol[k].cand
               /\ pol'[k].bandit = pol[k].bandit
               /\ pol'[k].enabled => pol[k].enabled /\ pol[k].source # r
    BY <1>1, <1>3 DEF Withdraw, DeactivateExecution, Policy
  <2>3. SourceKey'
    BY <2>2 DEF SafetyInv, SourceKey
  <2>4. RunsCleared' /\ ClearedCandidates'
    BY <2>1, <2>2 DEF SafetyInv, RunsCleared, ClearedCandidates
  <2>5. RequestDecided' /\ WithdrawnRequestIsClosed'
    BY <2>1 DEF SafetyInv, RequestDecided, WithdrawnRequestIsClosed
  <2>6. GovernedPolicies'
    BY <1>1, <2>1, <2>2 DEF SafetyInv, GovernedPolicies
  <2>7. LivePolicyIsBacked'
    BY <1>1, <2>1, <2>2 DEF SafetyInv, LivePolicyIsBacked
  <2> QED BY <2>3, <2>4, <2>5, <2>6, <2>7 DEF SafetyInv
<1>4. ASSUME NEW approve \in BOOLEAN, DecideRequest(r, approve) PROVE SafetyInv'
  <2>1. /\ UNCHANGED <<pol, status, runs, cleared, resumed>>
        /\ \A s \in Recs : s # r => cr'[s] = cr[s]
        /\ cr[r].st = "proposed" /\ cr'[r].st \in {"approved", "rejected"} /\ cr'[r].decided
    BY <1>1, <1>4 DEF DecideRequest, TypeOK, Request
  <2>2. SourceKey' /\ RunsCleared' /\ ClearedCandidates' /\ LivePolicyIsBacked'
    BY <2>1 DEF SafetyInv, SourceKey, RunsCleared, ClearedCandidates, LivePolicyIsBacked
  <2>3. RequestDecided' /\ WithdrawnRequestIsClosed'
    BY <2>1 DEF SafetyInv, RequestDecided, WithdrawnRequestIsClosed
  <2>4. GovernedPolicies'
    BY <1>1, <2>1 DEF SafetyInv, GovernedPolicies
  <2> QED BY <2>2, <2>3, <2>4 DEF SafetyInv
<1> QED BY <1>2, <1>3, <1>4

\* The drift sweep turns off every row of the recommendations it rolls back,
\* because a recommendation is the source of one row at most.
LEMMA DriftSafety ==
  ASSUME SafetyInv, TypeOK', NEW regressed \in SUBSET LiveKeys, NEW signal, NEW lost,
         DriftSweep(regressed, signal, lost)
  PROVE  SafetyInv'
<1>1. /\ TypeOK /\ regressed \subseteq Keys
      /\ \A r \in Recs : cr[r] \in Request
      /\ \A k \in Keys : pol[k] \in Policy /\ (pol[k].source # NoRec => pol[k].source \in Recs)
  BY DEF SafetyInv, TypeOK, Policy, LiveKeys
<1>2. runs' = runs /\ cleared' = cleared /\ resumed' = resumed
  BY DEF DriftSweep
<1>3. ASSUME NEW k \in Keys
      PROVE  /\ pol'[k].source = pol[k].source /\ pol'[k].cand = pol[k].cand
             /\ pol'[k].bandit \subseteq pol[k].bandit
             /\ pol'[k].enabled => pol[k].enabled /\ k \notin regressed
  <2>1. /\ Promoted(pol[k]).source = pol[k].source /\ Promoted(pol[k]).cand = pol[k].cand
        /\ Promoted(pol[k]).bandit = pol[k].bandit /\ Promoted(pol[k]).enabled = pol[k].enabled
        /\ Promoted(pol[k]) \in Policy
    BY <1>1, NextStageType DEF Promoted, Policy
  <2>2. CASE k \in regressed
    BY <1>1, <2>2 DEF DriftSweep, Policy
  <2>3. CASE k \notin regressed
    BY <1>1, <2>1, <2>3 DEF DriftSweep, Policy
  <2> QED BY <2>2, <2>3
<1>4. ASSUME NEW r \in Recs
      PROVE  /\ cr'[r].decided = cr[r].decided
             /\ cr'[r].st = cr[r].st \/ (cr[r].st = "active" /\ cr'[r].st = "rolled_back")
             /\ \/ status'[r] = status[r] /\ cr'[r] = cr[r]
                \/ cr'[r].st # "active" /\ \E k \in regressed : pol[k].source = r
             /\ (\A k \in regressed : pol[k].source # r) => status'[r] = status[r]
  BY <1>1 DEF DriftSweep, Request
<1>5. SourceKey'
  BY <1>3 DEF SafetyInv, SourceKey
<1>6. RunsCleared' /\ ClearedCandidates'
  BY <1>2, <1>3 DEF SafetyInv, RunsCleared, ClearedCandidates
<1>7. RequestDecided' /\ WithdrawnRequestIsClosed'
  BY <1>4 DEF SafetyInv, RequestDecided, WithdrawnRequestIsClosed
<1>8. GovernedPolicies'
  BY <1>1, <1>3, <1>4 DEF SafetyInv, GovernedPolicies
<1>9. LivePolicyIsBacked'
  <2> SUFFICES ASSUME NEW k \in Keys, pol'[k].enabled, k \notin resumed'
               PROVE  pol'[k].source # NoRec /\ status'[pol'[k].source] \in {"applied", "open"}
    BY DEF LivePolicyIsBacked
  <2>1. /\ pol[k].source \in Recs /\ pol[k].source # NoRec
        /\ status[pol[k].source] \in {"applied", "open"} /\ k \notin regressed
    BY <1>1, <1>2, <1>3 DEF SafetyInv, LivePolicyIsBacked
  <2>2. \A j \in regressed : pol[j].source # pol[k].source
    BY <1>1, <2>1 DEF SafetyInv, SourceKey
  <2> QED BY <1>3, <1>4, <2>1, <2>2
<1> QED BY <1>5, <1>6, <1>7, <1>8, <1>9 DEF SafetyInv

\* A candidate that joins a bandit set was cleared by the run that admits it.
LEMMA BanditCleared ==
  ASSUME TypeOK, RunsCleared, NEW k \in Keys, NEW c \in Models, CandidateCleared(k, c)
  PROVE  <<k[2], c>> \in cleared
  BY DEF CandidateCleared, RunsCleared, Actionable

\* The operator controls.
LEMMA ControlSafety ==
  ASSUME SafetyInv, TypeOK',
         \/ \E k \in Keys :
              \/ \E on \in BOOLEAN : SetPolicy(k, on)
              \/ \E c \in Models : AddBanditCandidate(k, c) \/ RemoveBanditCandidate(k, c)
         \/ \E on \in BOOLEAN :
              \/ SetEnforced(on) \/ SetEntitled(on)
              \/ \E l \in UsedLevers : SetLever(l, on) \/ SetAutomation(l, on)
  PROVE  SafetyInv'
<1> USE DEF settings
<1>1. /\ TypeOK /\ \A k \in Keys : pol[k] \in Policy
      /\ UNCHANGED <<status, runs, cr, cleared>>
  BY DEF SafetyInv, TypeOK, SetPolicy, AddBanditCandidate, RemoveBanditCandidate, SetEnforced,
         SetEntitled, SetLever, SetAutomation
<1>2. \A k \in Keys :
        /\ pol'[k].source = pol[k].source /\ pol'[k].cand = pol[k].cand
        /\ pol'[k].enabled => pol[k].source # NoRec /\ (pol[k].enabled \/ k \in resumed')
        /\ \A c \in pol'[k].bandit : c \in pol[k].bandit \/ <<k[2], c>> \in cleared
  <2>1. ASSUME NEW j \in Keys, NEW on \in BOOLEAN, SetPolicy(j, on), NEW k \in Keys
        PROVE  /\ pol'[k].source = pol[k].source /\ pol'[k].cand = pol[k].cand
               /\ pol'[k].enabled => pol[k].source # NoRec /\ (pol[k].enabled \/ k \in resumed')
               /\ pol'[k].bandit = pol[k].bandit
    BY <1>1, <2>1 DEF SetPolicy, SafetyInv, SourceKey, TypeOK, Policy
  <2>2. ASSUME NEW j \in Keys, NEW c \in Models, NEW k \in Keys,
               AddBanditCandidate(j, c) \/ RemoveBanditCandidate(j, c)
        PROVE  /\ pol'[k].source = pol[k].source /\ pol'[k].cand = pol[k].cand
               /\ pol'[k].enabled = pol[k].enabled
               /\ \A d \in pol'[k].bandit : d \in pol[k].bandit \/ <<k[2], d>> \in cleared
    <3>1. CASE AddBanditCandidate(j, c)
      <4>1. pol' = [pol EXCEPT ![j].bandit = @ \cup {c}] /\ <<j[2], c>> \in cleared
        BY <1>1, <2>2, <3>1, BanditCleared DEF AddBanditCandidate, SafetyInv
      <4> QED BY <1>1, <4>1 DEF TypeOK, Policy
    <3>2. CASE RemoveBanditCandidate(j, c)
      <4>1. pol' = [pol EXCEPT ![j].bandit = @ \ {c}]
        BY <3>2 DEF RemoveBanditCandidate
      <4> QED BY <1>1, <4>1 DEF TypeOK, Policy
    <3> QED BY <2>2, <3>1, <3>2
  <2>3. ASSUME NEW on \in BOOLEAN,
               \/ SetEnforced(on) \/ SetEntitled(on)
               \/ \E l \in UsedLevers : SetLever(l, on) \/ SetAutomation(l, on)
        PROVE  pol' = pol
    BY <2>3 DEF SetEnforced, SetEntitled, SetLever, SetAutomation
  <2> QED BY <2>1, <2>2, <2>3 DEF SafetyInv, SourceKey
<1>3. resumed \subseteq resumed'
  BY DEF SetPolicy, AddBanditCandidate, RemoveBanditCandidate, SetEnforced,
         SetEntitled, SetLever, SetAutomation
<1>4. SourceKey' /\ RunsCleared' /\ ClearedCandidates' /\ RequestDecided'
  BY <1>1, <1>2 DEF SafetyInv, SourceKey, RunsCleared, ClearedCandidates, RequestDecided
<1>5. GovernedPolicies' /\ WithdrawnRequestIsClosed'
  BY <1>1, <1>2 DEF SafetyInv, GovernedPolicies, WithdrawnRequestIsClosed
<1>6. LivePolicyIsBacked'
  BY <1>1, <1>2, <1>3 DEF SafetyInv, LivePolicyIsBacked
<1> QED BY <1>4, <1>5, <1>6 DEF SafetyInv

\* Every handler and every sweep keeps the inductive invariant.
LEMMA NextSafety == SafetyInv /\ [Next]_vars => SafetyInv'
<1> SUFFICES ASSUME SafetyInv, [Next]_vars PROVE SafetyInv'
  OBVIOUS
<1>1. TypeOK /\ TypeOK'
  BY NextType DEF SafetyInv
<1>2. ASSUME NEW r \in Recs, Apply(r) \/ AutoApply(r) PROVE SafetyInv'
  <2>1. PICK b \in BOOLEAN : \E c \in GateClears(r, b) : ApplyRecommendation(r, c)
    BY <1>1, <1>2, ApplyCases
  <2> QED BY <1>1, <2>1, ApplySafety
<1>3. CASE UNCHANGED vars
  BY <1>1, <1>3 DEF vars, SafetyInv, SourceKey, RunsCleared, RequestDecided, ClearedCandidates,
                    GovernedPolicies, WithdrawnRequestIsClosed, LivePolicyIsBacked
<1> QED BY <1>1, <1>2, <1>3, EvalSafety, DriftSafety, RecommendationSafety, ControlSafety
        DEF Next, HumanStep, SweepStep

\* The inductive invariant holds in every reachable state.
LEMMA SafetyInvariant == Spec => []SafetyInv
  BY InitSafety, NextSafety, PTL DEF Spec

\* No model that never cleared a shadow eval against the model it replaces is
\* ever the primary or a bandit candidate of a routing policy, and no
\* compression row exists without a cleared eval.
THEOREM EvalGate == Spec => []ClearedCandidates
<1>1. SafetyInv => ClearedCandidates
  BY DEF SafetyInv
<1> QED BY <1>1, SafetyInvariant, PTL

\* With enforcement on, every model swap and every compression row goes back
\* to a change request a human approved.
THEOREM GovernanceGate == Spec => []GovernedPolicies
<1>1. SafetyInv => GovernedPolicies
  BY DEF SafetyInv
<1> QED BY <1>1, SafetyInvariant, PTL

\* A dismissal and a rollback, manual or automatic, close the change request.
THEOREM WithdrawalCloses == Spec => []WithdrawnRequestIsClosed
<1>1. SafetyInv => WithdrawnRequestIsClosed
  BY DEF SafetyInv
<1> QED BY <1>1, SafetyInvariant, PTL

\* Withdrawing or rolling back a recommendation takes its policy out of
\* traffic, until an operator resumes the row by hand.
THEOREM WithdrawalStops == Spec => []LivePolicyIsBacked
<1>1. SafetyInv => LivePolicyIsBacked
  BY DEF SafetyInv
<1> QED BY <1>1, SafetyInvariant, PTL

-----------------------------------------------------------------------------
(* Action properties *)

\* A decided change request is frozen: a late eval, a second decision or a
\* re-apply does not change what was decided, or bring back what was closed.
THEOREM DecisionFrozen == Spec => DecisionIsFinal
<1> DEFINE Frozen(r) ==
             /\ cr[r].decided =>
                  /\ cr'[r].decided /\ cr'[r].st # "proposed"
                  /\ cr'[r].cand = cr[r].cand /\ cr'[r].evidence = cr[r].evidence
             /\ cr[r].st \in {"rejected", "rolled_back"} => cr'[r].st = cr[r].st
<1>1. SafetyInv /\ [Next]_vars => [\A r \in Recs : Frozen(r)]_vars
  <2> SUFFICES ASSUME SafetyInv, Next, NEW r \in Recs PROVE Frozen(r)
    OBVIOUS
  <2> USE DEF settings
  <2>1. TypeOK /\ cr[r] \in Request /\ (cr[r].decided => cr[r].st \notin {"none", "proposed"})
    BY DEF SafetyInv, TypeOK, RequestDecided
  <2>2. CASE cr' = cr
    BY <2>1, <2>2
  <2>3. ASSUME NEW s \in Recs, Apply(s) \/ AutoApply(s) PROVE Frozen(r)
    <3>1. cr' = MarkActive(s)
      BY <2>3 DEF Apply, AutoApply, ApplyRecommendation
    <3> QED BY <2>1, <3>1 DEF MarkActive, TypeOK, Request
  <2>4. ASSUME NEW s \in Recs, NEW next, Withdraw(s, next) PROVE Frozen(r)
    BY <2>1, <2>4 DEF Withdraw, MarkRolledBack, TypeOK, Request
  <2>5. ASSUME NEW s \in Recs, NEW approve \in BOOLEAN, DecideRequest(s, approve)
        PROVE  Frozen(r)
    BY <2>1, <2>5 DEF DecideRequest, TypeOK, Request
  <2>6. ASSUME NEW i \in DOMAIN runs, NEW v \in Verdicts, FinishRun(i, v) PROVE Frozen(r)
    <3>1. cr' = cr \/ cr' = EnsureRequest(runs[i].rec, runs[i].cand)
      BY <2>6 DEF FinishRun
    <3> QED BY <2>1, <3>1, RunType DEF EnsureRequest, TypeOK, Request
  <2>7. ASSUME NEW regressed, NEW signal, NEW lost, DriftSweep(regressed, signal, lost)
        PROVE  Frozen(r)
    BY <2>1, <2>7 DEF DriftSweep, Request
  <2> QED BY <2>2, <2>3, <2>4, <2>5, <2>6, <2>7
       DEF Next, HumanStep, EvalStep, SweepStep, EvaluateRecommendation, Reopen, SetPolicy,
           AddBanditCandidate, RemoveBanditCandidate, SetEnforced, SetEntitled, SetLever,
           SetAutomation, StartRun, FailRun, Upsert
<1> QED BY <1>1, SafetyInvariant, PTL DEF Spec, DecisionIsFinal

\* A policy row turns on only for an organization on the Pro plan whose lever
\* is on: neither a human's apply, nor the automation, nor the drift sweep,
\* nor a resume of the row gets around either switch.
THEOREM GoingLiveIsPaidFor == Spec => OnlyProGoesLive
<1> DEFINE Allowed(k) == (~pol[k].enabled /\ pol'[k].enabled) => (entitled /\ leverOn[k[1]])
<1>1. SafetyInv /\ [Next]_vars => [\A k \in Keys : Allowed(k)]_vars
  <2> SUFFICES ASSUME SafetyInv, Next, NEW k \in Keys, ~pol[k].enabled, pol'[k].enabled
               PROVE  entitled /\ leverOn[k[1]]
    OBVIOUS
  <2> USE DEF settings
  <2>1. TypeOK /\ pol[k] \in Policy /\ pol' # pol
    BY DEF SafetyInv, TypeOK
  <2>2. ASSUME NEW r \in Recs, Apply(r) \/ AutoApply(r) PROVE entitled /\ leverOn[k[1]]
    <3>1. /\ entitled /\ leverOn[Lever[r]]
          /\ \E c : pol' = ActivateExecution(r, c)
      BY <2>2 DEF Apply, AutoApply, ApplyRecommendation
    <3>2. k = Key(r)
      BY <2>1, <3>1 DEF ActivateExecution, TypeOK
    <3> QED BY <3>1, <3>2 DEF Key
  <2>3. ASSUME NEW j \in Keys, NEW on \in BOOLEAN, SetPolicy(j, on)
        PROVE  entitled /\ leverOn[k[1]]
    BY <2>1, <2>3 DEF SetPolicy, TypeOK, Policy
  <2>4. ASSUME NEW j \in Keys, NEW c \in Models,
               AddBanditCandidate(j, c) \/ RemoveBanditCandidate(j, c)
        PROVE  FALSE
    <3>1. PICK S \in SUBSET Models : pol' = [pol EXCEPT ![j].bandit = S]
      <4>1. pol[j].bandit \subseteq Models
        BY <2>1 DEF TypeOK, Policy
      <4> QED BY <2>4, <4>1 DEF AddBanditCandidate, RemoveBanditCandidate
    <3> QED BY <2>1, <3>1 DEF TypeOK, Policy
  <2>5. ASSUME NEW r \in Recs, NEW next, Withdraw(r, next) PROVE FALSE
    BY <2>1, <2>5 DEF Withdraw, DeactivateExecution, Policy
  <2>6. ASSUME NEW regressed, NEW signal, NEW lost, DriftSweep(regressed, signal, lost)
        PROVE  FALSE
    BY <2>1, <2>6 DEF DriftSweep, LiveKeys, Policy
  <2> QED BY <2>1, <2>2, <2>3, <2>4, <2>5, <2>6
       DEF Next, HumanStep, EvalStep, SweepStep, EvaluateRecommendation, Reopen, DecideRequest,
           SetEnforced, SetEntitled, SetLever, SetAutomation, StartRun, FinishRun, FailRun,
           Upsert
<1> QED BY <1>1, SafetyInvariant, PTL DEF Spec, OnlyProGoesLive
=============================================================================
