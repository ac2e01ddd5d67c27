------------------------------ MODULE Learning ------------------------------
(***************************************************************************)
(* The learning loop of one lever: optimized requests leave decisions,     *)
(* customers send feedback on them, both fade with age; a periodic sweep   *)
(* scores the segments of traffic, replaces the priors the planner reads,  *)
(* proposes what has proved itself, and in auto mode applies it.  The      *)
(* sweep is one database session that commits at its end; people and the   *)
(* drift guard act meanwhile.                                              *)
(***************************************************************************)
EXTENDS Integers, FiniteSets, FiniteSetsExt

CONSTANTS
  Segments,      \* segments of traffic, each a route and what it is served with
  RouteOf,       \* RouteOf[s]: the route whose policy would run s
  Refused,       \* segments the gates refuse to apply automatically
  Profiles,      \* what a decision may show: [saved, quality]
  Decisions,     \* decisions there may ever be
  TopCandidates, \* candidates a sweep looks at
  ApplyLimit,    \* recommendations a sweep tries to apply
  MinRecommend,  \* least sample weight for a proposal, in halves
  MinAuto,       \* least sample weight for automation, in halves
  LastMonth,     \* bound on months
  MaxFeedback,   \* bound on feedback
  MaxDeeds       \* bound on months turned, what people and the drift guard do, and failed sweeps

ASSUME LearningAssumption ==
  /\ Refused \subseteq Segments
  /\ {TopCandidates, ApplyLimit, MinRecommend, MinAuto} \subseteq Nat \ {0}
  /\ {LastMonth, MaxFeedback, MaxDeeds} \subseteq Nat
  /\ \A p \in Profiles : p.saved \in {"gain", "loss", "unknown"} /\ p.quality \in {"ok", "bad", "unknown"}

VARIABLES
  decision,   \* decision[d]: one optimized request and the feedback on it
  rec,        \* rec[k]: the recommendation with dedupe key k
  running,    \* routes with an enabled policy
  automode,   \* the lever runs in auto mode, not approve
  prior,      \* prior[s]: the readiness the planner is told
  today,      \* the current month
  sweep,      \* the sweep's session
  deeds       \* deeds and failures so far

lvars == <<decision, rec, running, automode, prior, today, sweep, deeds>>

Unmade == [age |-> "unmade"]
Purposes == {"apply", "automation_upgrade"}
RecKeys == Segments \X Purposes \X (1..LastMonth)
NoRecommendation == [state |-> "none", born |-> 0]
Asleep == [pc |-> "idle"]

LearnInit ==
  /\ decision = [d \in Decisions |-> Unmade]
  /\ rec = [k \in RecKeys |-> NoRecommendation]
  /\ running = {}
  /\ automode \in BOOLEAN
  /\ prior = [s \in Segments |-> "none"]
  /\ today = 1
  /\ sweep = Asleep
  /\ deeds = 0

-----------------------------------------------------------------------------
(* Scoring. *)

\* A decision is in the window while fresh or a half-life old.
InWindow == {d \in Decisions : decision[d].age \in {"fresh", "old"}}
Sample(s) == {d \in InWindow : decision[d].segment = s}
Weight(D) == Cardinality(D) + Cardinality({d \in D : decision[d].age = "fresh"})   \* in halves

\* At least percent in a hundred of whole is in part; nothing is no evidence.
AtLeast(part, whole, percent) == Weight(whole) > 0 /\ 100 * Weight(part) >= percent * Weight(whole)
Permits(part, whole, permille) == Weight(whole) = 0 \/ 1000 * Weight(part) >= permille * Weight(whole)

Where(s, P(_)) == {d \in Sample(s) : P(decision[d])}
MeasuredSavings(s) == Where(s, LAMBDA r : r.saved /= "unknown")
GrossSavings(s) ==
  Weight(Where(s, LAMBDA r : r.saved = "gain")) - Weight(Where(s, LAMBDA r : r.saved = "loss"))
QualityMeasured(s) == Where(s, LAMBDA r : r.quality /= "unknown")
QualityPassed(s) == Where(s, LAMBDA r : r.quality = "ok")
Reviewed(s) == Where(s, LAMBDA r : r.feedback /= {})
Accepted(s) == Where(s, LAMBDA r : "accepted" \in r.feedback)
Corrected(s) == Where(s, LAMBDA r : "corrective" \in r.feedback)

SavingsProven(s) == GrossSavings(s) > 0 /\ AtLeast(MeasuredSavings(s), Sample(s), 80)

\* One corrective signal is a risk, so the acceptance rate adds nothing to it.
QualityRisk(s) == Corrected(s) /= {} \/ ~Permits(QualityPassed(s), QualityMeasured(s), 980)

AutoReady(s) ==
  /\ Weight(Sample(s)) >= MinAuto
  /\ AtLeast(MeasuredSavings(s), Sample(s), 95)
  /\ AtLeast(Reviewed(s), Sample(s), 50)
  /\ Permits(QualityPassed(s), QualityMeasured(s), 995)
  /\ Accepted(s) /= {}

Readiness(s) ==
  CASE Weight(Sample(s)) < MinRecommend \/ Reviewed(s) = {} -> "insufficient_data"
    [] OTHER -> IF ~SavingsProven(s) THEN "savings_unproven"
                ELSE IF QualityRisk(s) THEN "quality_risk"
                ELSE IF AutoReady(s) THEN "auto_apply_candidate" ELSE "recommendable"

ReadinessRank ==
  [auto_apply_candidate |-> 0, recommendable |-> 1, quality_risk |-> 2, savings_unproven |-> 3, insufficient_data |-> 4]

\* Sample counts are rounded half up before they are compared.
Before(s, t) ==
  LET rank(x) == ReadinessRank[Readiness(x)]
      count(x) == (Weight(Sample(x)) + 1) \div 2
  IN rank(s) < rank(t) \/ (rank(s) = rank(t) /\ count(s) > count(t))

\* The first n of S in an order, ties broken either way.
FirstOf(S, n, Precedes(_, _)) ==
  {T \in SUBSET S : /\ Cardinality(T) = Min({n, Cardinality(S)})
                    /\ \A t \in T, u \in S \ T : ~Precedes(u, t)}

Scored == {s \in Segments : Sample(s) /= {}}
Promotable(s) == Readiness(s) \in {"recommendable", "auto_apply_candidate"}

-----------------------------------------------------------------------------
(* Traffic and people. *)

Observe(d, s, p) ==
  /\ decision[d] = Unmade
  /\ \A e \in Decisions : e < d => decision[e] /= Unmade
  /\ decision' = [decision EXCEPT ![d] =
       [age |-> "fresh", segment |-> s, saved |-> p.saved, quality |-> p.quality, feedback |-> {}]]
  /\ UNCHANGED <<rec, running, automode, prior, today, sweep, deeds>>

Feedback(d, outcome) ==
  /\ d \in InWindow
  /\ outcome \notin decision[d].feedback
  /\ MapThenSumSet(LAMBDA e : Cardinality(decision[e].feedback), InWindow) < MaxFeedback
  /\ decision' = [decision EXCEPT ![d].feedback = @ \cup {outcome}]
  /\ UNCHANGED <<rec, running, automode, prior, today, sweep, deeds>>

\* A half-life passes.
Fade ==
  /\ InWindow /= {}
  /\ decision' = [d \in Decisions |->
       CASE decision[d].age = "fresh" -> [decision[d] EXCEPT !.age = "old"]
         [] decision[d].age = "old" -> [age |-> "gone"]
         [] OTHER -> decision[d]]
  /\ UNCHANGED <<rec, running, automode, prior, today, sweep, deeds>>

Deed == deeds < MaxDeeds /\ deeds' = deeds + 1

TurnMonth ==
  /\ Deed
  /\ today < LastMonth
  /\ today' = today + 1
  /\ UNCHANGED <<decision, rec, running, automode, prior, sweep>>

\* Approving the proposal to automate changes no setting of the lever.
Approve(k) ==
  /\ Deed
  /\ rec[k].state = "open"
  /\ rec' = [rec EXCEPT ![k].state = "applied"]
  /\ running' = IF k[2] = "apply" THEN running \cup {RouteOf[k[1]]} ELSE running
  /\ UNCHANGED <<decision, automode, prior, today, sweep>>

Dismiss(k) ==
  /\ Deed
  /\ rec[k].state = "open"
  /\ rec' = [rec EXCEPT ![k].state = "dismissed"]
  /\ UNCHANGED <<decision, running, automode, prior, today, sweep>>

SwitchMode ==
  /\ Deed
  /\ automode' = ~automode
  /\ UNCHANGED <<decision, rec, running, prior, today, sweep>>

\* The drift guard or a person turns a policy off.
StopPolicy(r) ==
  /\ Deed
  /\ r \in running
  /\ running' = running \ {r}
  /\ UNCHANGED <<decision, rec, automode, prior, today, sweep>>

-----------------------------------------------------------------------------
(* The sweep. *)

\* A policy of the default route covers every route.
HasEnabledPolicy(s) == {RouteOf[s], "default"} \cap running /= {}

\* Dedupe keys of what the candidates earn: a proposal to run the segment, or
\* to let the lever run by itself once its policy is live under approve mode.
Seeds(cands) ==
  {<<s, "apply", today>> : s \in {c \in cands : Promotable(c) /\ ~HasEnabledPolicy(c)}}
  \cup {<<s, "automation_upgrade", today>> :
          s \in {c \in cands : Readiness(c) = "auto_apply_candidate" /\ HasEnabledPolicy(c) /\ ~automode}}

\* Rows that exist are refreshed while open and otherwise left alone.
SweepScore ==
  /\ sweep.pc = "idle"
  /\ \E cands \in FirstOf(Scored, TopCandidates, Before) :
       sweep' = [pc |-> "promoted",
                 prior |-> [s \in Segments |-> IF s \in cands THEN Readiness(s) ELSE "none"],
                 new |-> {k \in Seeds(cands) : rec[k].state = "none"}]
  /\ UNCHANGED <<decision, rec, running, automode, prior, today, deeds>>

Inserted == [k \in RecKeys |->
  IF k \in sweep.new THEN [state |-> "open", born |-> 1 + Max({rec[j].born : j \in RecKeys})] ELSE rec[k]]

OpenToApply(rows) == {k \in RecKeys : rows[k].state = "open" /\ k[2] = "apply"}

OldestFirst(rows) == FirstOf(OpenToApply(rows), ApplyLimit, LAMBDA j, k : rows[j].born < rows[k].born)

\* Mutant: the first refusal ends the round.
AppliedBeforeRefusal(tried) ==
  {k \in tried : \A j \in tried : j[1] \in Refused => Inserted[k].born < Inserted[j].born}

\* A refusal of one recommendation is logged and the next one is tried.
Applied(tried) == {k \in tried : k[1] \notin Refused}

SweepApply ==
  /\ sweep.pc = "promoted"
  /\ \E tried \in IF automode THEN OldestFirst(Inserted) ELSE {{}} :
       sweep' = [pc |-> "applied", prior |-> sweep.prior, new |-> sweep.new,
                 done |-> Applied(tried)]
  /\ UNCHANGED <<decision, rec, running, automode, prior, today, deeds>>

\* The session's copies win over what was committed meanwhile.
SweepCommit ==
  /\ sweep.pc = "applied"
  /\ rec' = [k \in RecKeys |-> IF k \in sweep.done THEN [Inserted[k] EXCEPT !.state = "applied"] ELSE Inserted[k]]
  /\ running' = running \cup {RouteOf[k[1]] : k \in sweep.done}
  /\ prior' = sweep.prior
  /\ sweep' = Asleep
  /\ UNCHANGED <<decision, automode, today, deeds>>

SweepFails ==
  /\ Deed
  /\ sweep.pc /= "idle"
  /\ sweep' = Asleep
  /\ UNCHANGED <<decision, rec, running, automode, prior, today>>

LearnNext ==
  \/ \E d \in Decisions, s \in Segments, p \in Profiles : Observe(d, s, p)
  \/ \E d \in Decisions, outcome \in {"accepted", "corrective"} : Feedback(d, outcome)
  \/ Fade \/ TurnMonth \/ SwitchMode
  \/ \E k \in RecKeys : Approve(k) \/ Dismiss(k)
  \/ \E r \in running : StopPolicy(r)
  \/ SweepScore \/ SweepApply \/ SweepCommit \/ SweepFails

\* The scheduler runs the sweep for ever, and a sweep ends.
LearnFairness == WF_lvars(SweepScore) /\ WF_lvars(SweepApply) /\ WF_lvars(SweepCommit)

LearnSpec == LearnInit /\ [][LearnNext]_lvars /\ LearnFairness

-----------------------------------------------------------------------------
(* Properties. *)

\* Among the candidates of a sweep however ties fall.
Noticed(s) == Cardinality({t \in Scored \ {s} : ~Before(s, t)}) < TopCandidates

\* Among the oldest open recommendations, which are all that a sweep tries,
\* however ties fall.
Tried(k) ==
  Cardinality({j \in OpenToApply(rec) \ {k} : rec[k].state = "open" => rec[j].born <= rec[k].born}) < ApplyLimit

\* The evidence has earned s its policy, nobody declined it this month, no
\* gate refuses it and the sweeps reach it, yet it does not run.
Overdue(s) ==
  LET k == <<s, "apply", today>> IN
    /\ automode /\ Promotable(s) /\ Noticed(s) /\ s \notin Refused
    /\ ~HasEnabledPolicy(s)
    /\ rec[k].state \in {"none", "open"} /\ Tried(k)

\* The evidence says s is a risk, yet the planner is told something else.
Unheard(s) == Readiness(s) = "quality_risk" /\ Noticed(s) /\ prior[s] /= "quality_risk"

\* What the evidence says is acted on in the end, within the cuts of a sweep: a
\* segment that has earned it is applied, and a risky one reaches the planner,
\* whatever sweeps fail, whatever recommendations are dismissed or approved in
\* the middle of one, and though older ones are refused in every sweep
\* (sweep_all_projects, auto_apply_ready_recommendations).
EvidenceIsHeeded == \A s \in Segments : ~<>[](Overdue(s) \/ Unheard(s))
=============================================================================
