------------------------------ MODULE Billing ------------------------------
(***************************************************************************)
(* The billing state of one organization and what the proxy makes of it.   *)
(*                                                                         *)
(* The row is written by sign-in (which may start the trial), the lazy     *)
(* expiry of a control-plane read, the trial sweep, Stripe's webhook and   *)
(* the operator.  Each is a session: it loads the row, computes the new    *)
(* one in memory, drops its own process's cached entitlement, and commits  *)
(* later; a commit writes the columns that differ from the loaded ones.    *)
(*                                                                         *)
(* The proxy's hot path never writes.  Each instance caches the            *)
(* entitlement for a TTL; the lookup awaits the database in between.       *)
(***************************************************************************)
EXTENDS Naturals

CONSTANTS
  Sessions,   \* database sessions of the control plane
  Processes,  \* app processes that run them
  Instances,  \* the processes that serve proxied traffic, each with its cache
  Aged,       \* free_trial_days have passed since the organization was created
  Ttl,        \* lifetime of a cached entitlement, in ticks of the clock
  Granted,    \* subscription statuses the operator sets by hand
  MaxGrants   \* bound on the operator's writes


Tiers == {"free", "performance"}
Statuses == {"trialing", "active", "past_due", "canceled", "expired"}

ASSUME BillingAssumption ==
  /\ Instances \subseteq Processes
  /\ Aged \in BOOLEAN
  /\ Granted \subseteq Statuses
  /\ Ttl \in Nat \ {0}
  /\ MaxGrants \in Nat

Ends == {"none", "future", "past"}     \* trial_ends_at against the clock
EventKinds == {"checkout.session.completed", "customer.subscription.deleted",
               "invoice.payment_failed"}
Answers == {"none", "pro", "base"}

\* tried: trial_started_at is set.  ready: payment_method_ready_at is set.
Row == [tier : Tiers, status : Statuses, ends : Ends, tried : BOOLEAN, ready : BOOLEAN]

VARIABLES
  row,      \* the organizations row
  sess,     \* sess[s]: the operation and the columns its commit will write
  vaulted,  \* the customer finished a Checkout session at Stripe
  over,     \* this month's proxied requests have reached the free limit
  cache,    \* cache[i]: the cached entitlement and its age
  lookup,   \* lookup[i]: what a lookup in flight has read
  served,   \* served[i]: a request was optimized since the last tick
  granted   \* history: the operator's writes so far

vars == <<row, sess, vaulted, over, cache, lookup, served, granted>>

Columns == {"tier", "status", "ends", "tried", "ready"}
NewOrg == [tier |-> "free", status |-> "active", ends |-> "none", tried |-> FALSE,
           ready |-> FALSE]
Nothing == [c \in {} |-> NewOrg[c]]
Idle == [op |-> "idle", set |-> Nothing]
Ops == {"idle", "sign_in", "read", "sweep", "webhook", "plan", "config"}
Empty == [answer |-> "none", age |-> 0]

Init ==
  /\ row = NewOrg
  /\ sess = [s \in Sessions |-> Idle]
  /\ vaulted = FALSE
  /\ over = FALSE
  /\ cache = [i \in Instances |-> Empty]
  /\ lookup = [i \in Instances |-> "none"]
  /\ served = [i \in Instances |-> FALSE]
  /\ granted = 0

-----------------------------------------------------------------------------
(* billing_lifecycle: the transitions, on a row in memory *)

StartTrial(r) == [tier |-> "performance", status |-> "trialing", ends |-> "future",
                  tried |-> TRUE, ready |-> FALSE]

ActivatePerformance(r) == [r EXCEPT !.tier = "performance", !.status = "active"]

TrialElapsed(r) == r.ends = "past"

CompletePaymentMethodSetup(r) ==
  LET q == [r EXCEPT !.ready = TRUE]
  IN IF r.status = "trialing" /\ ~TrialElapsed(r)
     THEN [q EXCEPT !.tier = "performance"]
     ELSE ActivatePerformance(q)

\* Mutant: the entitlement's reason is stored as the status.
ExpireTrialAsReason(r) == [r EXCEPT !.tier = "free", !.status = "trial_expired"]

ExpireTrial(r) == [r EXCEPT !.tier = "free", !.status = "expired"]

MarkPastDue(r) == [r EXCEPT !.status = "past_due"]

CancelSubscription(r) == [r EXCEPT !.tier = "free", !.status = "canceled"]

TrialExpired(r) == r.status = "trialing" /\ TrialElapsed(r)

\* Mutant: every elapsed trial continues.
EndTrialAlwaysPro(r) == ActivatePerformance(r)

\* The trial-end transition shared by the lazy read and the sweep.
EndTrial(r) == IF r.ready THEN ActivatePerformance(r) ELSE ExpireTrial(r)

\* Mutant: a trial may be started again.
CanStartTrialAgain(r) == r.tier = "free" /\ r.status \in {"active", "expired"} /\ ~r.ready

CanStartTrial(r) == r.tier = "free" /\ r.status = "active" /\ ~r.tried /\ ~r.ready

-----------------------------------------------------------------------------
(* Sessions *)

\* The UPDATE will name only the columns whose value the session changed.
Changed(new) == [c \in {c \in Columns : new[c] # row[c]} |-> new[c]]

\* Load the row and compute the new one in memory.
Load(s, op, new) ==
  /\ sess[s].op = "idle"
  /\ sess' = [sess EXCEPT ![s] = [op |-> op, set |-> Changed(new)]]

Written(set) == [c \in Columns |-> IF c \in DOMAIN set THEN set[c] ELSE row[c]]

Invalidate(p) == cache' = [i \in Instances |-> IF i = p THEN Empty ELSE cache[i]]

SignIn(s, p) ==
  /\ CanStartTrial(row)
  /\ Load(s, "sign_in", StartTrial(row))
  /\ Invalidate(p)
  /\ UNCHANGED <<row, vaulted, over, lookup, served, granted>>

\* A read of the entitlement on the control plane.
MaybeExpire(s, p) ==
  /\ TrialExpired(row)
  /\ Load(s, "read", EndTrial(row))
  /\ Invalidate(p)
  /\ UNCHANGED <<row, vaulted, over, lookup, served, granted>>

\* Mutant: only trials that can continue are swept.
SweepReadyTrials(s, p) ==
  /\ TrialExpired(row) /\ row.ready
  /\ Load(s, "sweep", EndTrial(row))
  /\ Invalidate(p)
  /\ UNCHANGED <<row, vaulted, over, lookup, served, granted>>

SweepExpiredTrials(s, p) ==
  /\ TrialExpired(row)
  /\ Load(s, "sweep", EndTrial(row))
  /\ Invalidate(p)
  /\ UNCHANGED <<row, vaulted, over, lookup, served, granted>>

\* Stripe delivers events at least once and in any order, and the webhook keeps
\* no record of those it has seen.  Checkout runs in setup mode, so its event
\* carries no subscription.
HandleEvent(s, p, k) ==
  /\ vaulted
  /\ Load(s, "webhook", CASE k = "checkout.session.completed" -> CompletePaymentMethodSetup(row)
                          [] k = "customer.subscription.deleted" -> CancelSubscription(row)
                          [] k = "invoice.payment_failed" -> MarkPastDue(row))
  /\ Invalidate(p)
  /\ UNCHANGED <<row, vaulted, over, lookup, served, granted>>

\* The operator's two writes.  The plan switch drops the cache after its
\* commit, the subscription config not at all.
SetPlan(s, tier) ==
  /\ granted < MaxGrants
  /\ Load(s, "plan", [row EXCEPT !.tier = tier])
  /\ granted' = granted + 1
  /\ UNCHANGED <<row, vaulted, over, cache, lookup, served>>

SetBillingConfig(s, status, extend) ==
  /\ granted < MaxGrants
  /\ Load(s, "config", [row EXCEPT !.status = status, !.ends = IF extend THEN "future" ELSE @])
  /\ granted' = granted + 1
  /\ UNCHANGED <<row, vaulted, over, cache, lookup, served>>

Commit(s, p) ==
  LET op == sess[s].op
      set == sess[s].set
  IN /\ op # "idle"
     /\ row' = Written(set)
     /\ sess' = [sess EXCEPT ![s] = Idle]
     /\ IF op = "plan" THEN Invalidate(p) ELSE UNCHANGED cache
     /\ UNCHANGED <<vaulted, over, lookup, served, granted>>

\* The request fails or its process dies before the commit.
Abort(s) ==
  /\ sess[s].op # "idle"
  /\ sess' = [sess EXCEPT ![s] = Idle]
  /\ UNCHANGED <<row, vaulted, over, cache, lookup, served, granted>>

-----------------------------------------------------------------------------
(* The proxy's hot path *)

Over(r) == r.status = "trialing" /\ over

\* A trialing row without an end of its own ends free_trial_days after creation.
Expired(r) == /\ r.status = "trialing"
              /\ r.ends = "past" \/ (r.ends = "none" /\ Aged)

ObserveOnly(r) == \/ r.tier # "performance"
                  \/ Expired(r)
                  \/ r.status \in {"past_due", "canceled", "expired"}
                  \/ Over(r)

Entitlement(r) == IF ObserveOnly(r) THEN "base" ELSE "pro"

LookUp(i) ==
  /\ cache[i] = Empty /\ lookup[i] = "none"
  /\ lookup' = [lookup EXCEPT ![i] = Entitlement(row)]
  /\ UNCHANGED <<row, sess, vaulted, over, cache, served, granted>>

StoreEntitlement(i) ==
  /\ lookup[i] # "none"
  /\ cache' = [cache EXCEPT ![i] = [answer |-> lookup[i], age |-> 0]]
  /\ served' = [served EXCEPT ![i] = @ \/ lookup[i] = "pro"]
  /\ lookup' = [lookup EXCEPT ![i] = "none"]
  /\ UNCHANGED <<row, sess, vaulted, over, granted>>

\* A failed lookup is answered with Base and not cached.
LookUpFails(i) ==
  /\ lookup[i] # "none"
  /\ lookup' = [lookup EXCEPT ![i] = "none"]
  /\ UNCHANGED <<row, sess, vaulted, over, cache, served, granted>>

CachedEntitlement(i) ==
  /\ cache[i] # Empty
  /\ served' = [served EXCEPT ![i] = @ \/ cache[i].answer = "pro"]
  /\ UNCHANGED <<row, sess, vaulted, over, cache, lookup, granted>>

-----------------------------------------------------------------------------
(* The environment *)

\* External: the customer finishes Checkout; from now on Stripe has events.
CheckoutFinishes ==
  /\ vaulted' = TRUE
  /\ UNCHANGED <<row, sess, over, cache, lookup, served, granted>>

\* A request does not outlive the trial that it starts.
TrialRunsOut ==
  /\ row.ends = "future"
  /\ \A s \in Sessions : sess[s].op # "sign_in"
  /\ row' = [row EXCEPT !.ends = "past"]
  /\ UNCHANGED <<sess, vaulted, over, cache, lookup, served, granted>>

\* The month's count reaches the limit, or a new month begins.
MonthlyCount ==
  /\ over' = ~over
  /\ UNCHANGED <<row, sess, vaulted, cache, lookup, served, granted>>

\* Mutant: a cached entitlement lives until it is invalidated.
TickWithoutTtl ==
  /\ served' = [i \in Instances |-> FALSE]
  /\ UNCHANGED <<row, sess, vaulted, over, cache, lookup, granted>>

Tick ==
  /\ cache' = [i \in Instances |-> IF cache[i] = Empty \/ cache[i].age + 1 >= Ttl THEN Empty
                                   ELSE [cache[i] EXCEPT !.age = @ + 1]]
  /\ served' = [i \in Instances |-> FALSE]
  /\ UNCHANGED <<row, sess, vaulted, over, lookup, granted>>

-----------------------------------------------------------------------------
SweepStep == \E s \in Sessions, p \in Processes : SweepExpiredTrials(s, p)

OperatorStep(s) ==
  \/ \E tier \in Tiers : SetPlan(s, tier)
  \/ \E status \in Granted, extend \in BOOLEAN : SetBillingConfig(s, status, extend)

CommitStep(s) == \E p \in Processes : Commit(s, p)

Next ==
  \/ \E s \in Sessions, p \in Processes :
       \/ SignIn(s, p) \/ MaybeExpire(s, p)
       \/ \E k \in EventKinds : HandleEvent(s, p, k)
  \/ SweepStep
  \/ \E s \in Sessions : OperatorStep(s) \/ CommitStep(s) \/ Abort(s)
  \/ \E i \in Instances : \/ LookUp(i) \/ StoreEntitlement(i) \/ LookUpFails(i)
                          \/ CachedEntitlement(i)
  \/ CheckoutFinishes \/ TrialRunsOut \/ MonthlyCount \/ Tick

Spec == Init /\ [][Next]_vars

\* Time passes, the database answers, and the hourly sweep runs and commits.
FairSpec ==
  /\ Spec
  /\ WF_vars(Tick)
  /\ \A i \in Instances : WF_vars(StoreEntitlement(i) \/ LookUpFails(i))
  /\ SF_vars(SweepStep)
  /\ \A s \in Sessions : SF_vars(CommitStep(s))

-----------------------------------------------------------------------------
\* The billing columns stay in their domains however sessions mix their
\* writes, now and after each commit that is pending.
TypeOK ==
  /\ row \in Row
  /\ DOMAIN sess = Sessions
  /\ \A s \in Sessions : /\ sess[s].op \in Ops
                        /\ DOMAIN sess[s].set \subseteq Columns
                        /\ Written(sess[s].set) \in Row
  /\ vaulted \in BOOLEAN /\ over \in BOOLEAN
  /\ granted \in 0..MaxGrants
  /\ cache \in [Instances -> [answer : Answers, age : 0..(Ttl - 1)]]
  /\ lookup \in [Instances -> Answers]
  /\ served \in [Instances -> BOOLEAN]

\* Whatever sessions overwrite each other, an organization optimizes outside a
\* trial only with a payment method on file or by an operator's hand.
ProIsPaid ==
  (Entitlement(row) = "pro" /\ row.status # "trialing") => row.ready \/ granted > 0

\* The self-serve trial is granted once: no sign-in revives one that expired.
TrialGrantedOnce ==
  [][row.status = "expired" /\ row'.status = "trialing" => granted' > 0]_vars

\* An elapsed trial does not stay: it becomes Pro or Base, or is extended.
TrialEnds == TrialExpired(row) ~> ~TrialExpired(row)

\* Once an organization stays on Base, its proxied requests stop being
\* optimized on every instance, stale caches and slow lookups included.
LockReachesProxy ==
  (<>[](Entitlement(row) = "base")) => <>[](\A i \in Instances : ~served[i])
=============================================================================
