--------------------------- MODULE Billing_proofs ---------------------------
(***************************************************************************)
(* Safety of the billing state for any number of sessions, processes and   *)
(* instances, any TTL and any set of statuses the operator grants.         *)
(*                                                                         *)
(* A commit writes the columns its session changed over whatever row it    *)
(* finds, so the invariant has to speak of every pending write as well as  *)
(* of the row: what a session may still write depends on what was true of  *)
(* the row when it loaded it, and only what never becomes false again (a   *)
(* payment method on file, a trial once started) may be remembered.        *)
(***************************************************************************)
EXTENDS Billing, TLAPS

\* Session s will write v to column c.
Pending(s, c, v) == c \in DOMAIN sess[s].set /\ sess[s].set[c] = v

Writes(s, c) == c \in DOMAIN sess[s].set

\* Nobody takes back a payment method or the start of a trial.
KeptColumns ==
  \A s \in Sessions, c \in {"ready", "tried"} : Writes(s, c) => Pending(s, c, TRUE)

\* Unless an operator has a hand in it, Performance and "active" are written
\* over each other only with a payment method on file.
PaidWrites ==
  granted = 0 =>
    /\ row.tier = "performance" /\ row.status = "active" => row.ready
    /\ \A s \in Sessions :
         /\ Pending(s, "tier", "performance") =>
              Pending(s, "status", "trialing") \/ Writes(s, "ready") \/ row.ready
         /\ Pending(s, "status", "active") => Writes(s, "ready") \/ row.ready

\* Unless an operator has a hand in it, a trial leaves its mark, only a sign-in
\* starts one, and while that sign-in is pending no trial has expired or is
\* about to.
TrialWrites ==
  granted = 0 =>
    /\ row.status \in {"trialing", "expired"} \/ row.ends # "none" => row.tried
    /\ \A s \in Sessions :
         /\ Pending(s, "status", "trialing") => sess[s].op = "sign_in" /\ Writes(s, "tried")
         /\ Writes(s, "ends") => Pending(s, "ends", "future") /\ Writes(s, "tried")
         /\ Pending(s, "status", "expired") => row.tried
    /\ \A s \in Sessions : sess[s].op = "sign_in" =>
         /\ row.ends # "past" /\ row.status # "expired"
         /\ \A t \in Sessions : ~Pending(t, "status", "expired")

BillingInv == TypeOK /\ KeptColumns /\ PaidWrites /\ TrialWrites

-----------------------------------------------------------------------------
(* Rows and columns *)

ColumnsTyped(r) ==
  /\ r["tier"] \in Tiers /\ r["status"] \in Statuses /\ r["ends"] \in Ends
  /\ r["tried"] \in BOOLEAN /\ r["ready"] \in BOOLEAN

\* A row is a value for each column, within the column's domain.
LEMMA RowByColumns ==
  ASSUME NEW r PROVE r \in Row <=> (r = [c \in Columns |-> r[c]] /\ ColumnsTyped(r))
  BY DEF Row, Columns, ColumnsTyped

\* A session that loads the row and computes a new one remembers exactly the
\* columns that differ, and writing them at once would give the new row.
LEMMA LoadedColumns ==
  ASSUME row \in Row, NEW new \in Row
  PROVE  LET set == Changed(new)
         IN /\ DOMAIN set \subseteq Columns
            /\ \A c \in Columns : /\ c \in DOMAIN set <=> new[c] # row[c]
                                  /\ c \in DOMAIN set => set[c] = new[c]
            /\ Written(set) = new
<1> DEFINE set == Changed(new)
<1>1. /\ DOMAIN set \subseteq Columns
      /\ \A c \in Columns : /\ c \in DOMAIN set <=> new[c] # row[c]
                            /\ c \in DOMAIN set => set[c] = new[c]
  BY DEF Changed
<1>2. Written(set) = [c \in Columns |-> new[c]]
  BY <1>1 DEF Written
<1>3. new = [c \in Columns |-> new[c]]
  BY RowByColumns
<1> QED BY <1>1, <1>2, <1>3

\* What a session has pending may be written over any row.
LEMMA PendingOverAnyRow ==
  ASSUME TypeOK, NEW s \in Sessions, NEW r \in Row
  PROVE  [c \in Columns |-> IF c \in DOMAIN sess[s].set THEN sess[s].set[c] ELSE r[c]] \in Row
<1> DEFINE w == [c \in Columns |-> IF c \in DOMAIN sess[s].set THEN sess[s].set[c] ELSE r[c]]
<1>1. Written(sess[s].set) \in Row
  BY DEF TypeOK
<1>2. ColumnsTyped(Written(sess[s].set)) /\ ColumnsTyped(r)
  BY <1>1, RowByColumns
<1>3. ColumnsTyped(w)
  BY <1>2 DEF ColumnsTyped, Written, Columns
<1> QED BY <1>3, RowByColumns

-----------------------------------------------------------------------------
(* Loading *)

\* What the new row of an operation owes the row it was computed from.
LegalLoad(op, new) ==
  /\ row.ready => new.ready
  /\ row.tried => new.tried
  /\ granted' = 0 =>
       /\ granted = 0
       /\ new.tier = "performance" /\ row.tier # "performance" =>
            (new.status = "trialing" /\ row.status # "trialing") \/ new.ready
       /\ new.status = "active" /\ row.status # "active" => new.ready
       /\ new.status = "trialing" /\ row.status # "trialing" =>
            op = "sign_in" /\ ~row.tried /\ new.tried
       /\ new.ends # row.ends => new.ends = "future" /\ ~row.tried /\ new.tried
       /\ new.status = "expired" /\ row.status # "expired" => row.ends = "past"
       /\ op = "sign_in" => ~row.tried /\ new.status # "expired"

\* Every transition of the lifecycle is legal where its guard lets it happen.
LEMMA TransitionsAreLegal ==
  ASSUME BillingInv, granted' = granted
  PROVE  /\ CanStartTrial(row) => StartTrial(row) \in Row /\ LegalLoad("sign_in", StartTrial(row))
         /\ TrialExpired(row) =>
              EndTrial(row) \in Row /\ \A op \in {"read", "sweep"} : LegalLoad(op, EndTrial(row))
         /\ CompletePaymentMethodSetup(row) \in Row /\ LegalLoad("webhook", CompletePaymentMethodSetup(row))
         /\ CancelSubscription(row) \in Row /\ LegalLoad("webhook", CancelSubscription(row))
         /\ MarkPastDue(row) \in Row /\ LegalLoad("webhook", MarkPastDue(row))
<1>1. row \in Row
  BY DEF BillingInv, TypeOK
<1>2. CanStartTrial(row) => StartTrial(row) \in Row /\ LegalLoad("sign_in", StartTrial(row))
  BY <1>1 DEF CanStartTrial, StartTrial, Row, Tiers, Statuses, Ends, LegalLoad
<1>3. TrialExpired(row) => EndTrial(row) \in Row /\ \A op \in {"read", "sweep"} : LegalLoad(op, EndTrial(row))
  BY <1>1 DEF TrialExpired, TrialElapsed, EndTrial, ActivatePerformance, ExpireTrial,
              Row, Tiers, Statuses, Ends, LegalLoad
<1>4. CompletePaymentMethodSetup(row) \in Row /\ LegalLoad("webhook", CompletePaymentMethodSetup(row))
  BY <1>1 DEF CompletePaymentMethodSetup, ActivatePerformance, TrialElapsed,
              Row, Tiers, Statuses, Ends, LegalLoad
<1>5. CancelSubscription(row) \in Row /\ LegalLoad("webhook", CancelSubscription(row))
  BY <1>1 DEF CancelSubscription, Row, Tiers, Statuses, Ends, LegalLoad
<1>6. MarkPastDue(row) \in Row /\ LegalLoad("webhook", MarkPastDue(row))
  BY <1>1 DEF MarkPastDue, Row, Tiers, Statuses, Ends, LegalLoad
<1> QED BY <1>2, <1>3, <1>4, <1>5, <1>6

\* The half of the type invariant that sessions and commits can disturb.
SessionsTyped ==
  /\ row \in Row
  /\ DOMAIN sess = Sessions
  /\ \A s \in Sessions : /\ sess[s].op \in Ops
                         /\ DOMAIN sess[s].set \subseteq Columns
                         /\ Written(sess[s].set) \in Row

\* A legal load keeps every promise about the row and the pending writes.
LEMMA LoadSafe ==
  ASSUME BillingInv, NEW s \in Sessions, NEW op \in Ops, NEW new \in Row,
         Load(s, op, new), LegalLoad(op, new), row' = row
  PROVE  SessionsTyped' /\ KeptColumns' /\ PaidWrites' /\ TrialWrites'
<1> DEFINE set == Changed(new)
<1>1. /\ row \in Row /\ DOMAIN sess = Sessions
      /\ \A t \in Sessions : /\ sess[t].op \in Ops
                             /\ DOMAIN sess[t].set \subseteq Columns
                             /\ Written(sess[t].set) \in Row
  BY DEF BillingInv, TypeOK
<1>2. /\ DOMAIN set \subseteq Columns
      /\ \A c \in Columns : /\ c \in DOMAIN set <=> new[c] # row[c]
                            /\ c \in DOMAIN set => set[c] = new[c]
      /\ Written(set) = new
  BY <1>1, LoadedColumns
<1>3. /\ DOMAIN sess' = Sessions
      /\ sess'[s] = [op |-> op, set |-> set]
      /\ \A t \in Sessions \ {s} : sess'[t] = sess[t]
  BY <1>1 DEF Load
<1> HIDE DEF set
<1>4. /\ sess'[s].op = op /\ sess'[s].set = set
  BY <1>3
<1>5. SessionsTyped'
  <2>1. ASSUME NEW t \in Sessions
        PROVE  /\ sess'[t].op \in Ops
               /\ DOMAIN sess'[t].set \subseteq Columns
               /\ (Written(sess[t].set))' \in Row
    <3>1. CASE t = s
      BY <3>1, <1>2, <1>4 DEF Written
    <3>2. CASE t # s
      BY <3>2, <1>1, <1>3 DEF Written
    <3> QED BY <3>1, <3>2
  <2> QED BY <1>1, <1>3, <2>1 DEF SessionsTyped
<1>6. /\ \A c \in Columns : /\ Writes(s, c)' <=> new[c] # row[c]
                            /\ \A v : Pending(s, c, v)' <=> new[c] # row[c] /\ new[c] = v
      /\ \A t \in Sessions \ {s} : \A c : Writes(t, c)' <=> Writes(t, c)
      /\ \A t \in Sessions \ {s} : \A c, v : Pending(t, c, v)' <=> Pending(t, c, v)
  BY <1>2, <1>3, <1>4 DEF Writes, Pending
<1>7. ColumnsTyped(row) /\ ColumnsTyped(new)
  BY <1>1, RowByColumns
<1>8. KeptColumns'
  BY <1>6, <1>7 DEF KeptColumns, BillingInv, LegalLoad, Columns, ColumnsTyped
<1>9. PaidWrites'
  BY <1>6, <1>7 DEF PaidWrites, BillingInv, LegalLoad, Columns, ColumnsTyped
<1>10. TrialWrites'
  <2> SUFFICES ASSUME granted' = 0
               PROVE  /\ row.status \in {"trialing", "expired"} \/ row.ends # "none" => row.tried
                      /\ \A t \in Sessions :
                           /\ Pending(t, "status", "trialing")' => sess'[t].op = "sign_in" /\ Writes(t, "tried")'
                           /\ Writes(t, "ends")' => Pending(t, "ends", "future")' /\ Writes(t, "tried")'
                           /\ Pending(t, "status", "expired")' => row.tried
                      /\ \A t \in Sessions : sess'[t].op = "sign_in" =>
                           /\ row.ends # "past" /\ row.status # "expired"
                           /\ \A u \in Sessions : ~Pending(u, "status", "expired")'
    BY DEF TrialWrites
  <2>1. /\ TrialWrites /\ granted = 0 /\ LegalLoad(op, new)
    BY DEF BillingInv, LegalLoad
  <2>2. row.status \in {"trialing", "expired"} \/ row.ends # "none" => row.tried
    BY <2>1 DEF TrialWrites
  <2>3. ASSUME NEW t \in Sessions
        PROVE  /\ Pending(t, "status", "trialing")' => sess'[t].op = "sign_in" /\ Writes(t, "tried")'
               /\ Writes(t, "ends")' => Pending(t, "ends", "future")' /\ Writes(t, "tried")'
               /\ Pending(t, "status", "expired")' => row.tried
    <3>1. CASE t = s
      BY <3>1, <2>1, <2>2, <1>4, <1>6, <1>7 DEF LegalLoad, Columns, ColumnsTyped
    <3>2. CASE t # s
      BY <3>2, <2>1, <1>3, <1>6 DEF TrialWrites
    <3> QED BY <3>1, <3>2
  <2>4. ASSUME NEW t \in Sessions, sess'[t].op = "sign_in"
        PROVE  /\ row.ends # "past" /\ row.status # "expired"
               /\ \A u \in Sessions : ~Pending(u, "status", "expired")'
    <3>1. CASE t = s
      BY <3>1, <2>1, <2>2, <2>3, <2>4, <1>4, <1>6, <1>7 DEF LegalLoad, Columns, ColumnsTyped
    <3>2. CASE t # s
      BY <3>2, <2>1, <2>4, <1>3, <1>6, <1>7 DEF TrialWrites, LegalLoad, Columns, ColumnsTyped
    <3> QED BY <3>1, <3>2
  <2> QED BY <2>2, <2>3, <2>4
<1> QED BY <1>5, <1>8, <1>9, <1>10

-----------------------------------------------------------------------------
(* Committing, aborting, time *)

\* A session that ends without a commit takes its pending write with it.
LEMMA AbortSafe ==
  ASSUME BillingInv, NEW s \in Sessions, Abort(s)
  PROVE  SessionsTyped' /\ KeptColumns' /\ PaidWrites' /\ TrialWrites'
<1>1. /\ row' = row /\ granted' = granted
      /\ DOMAIN sess' = Sessions
      /\ sess'[s] = Idle
      /\ \A t \in Sessions \ {s} : sess'[t] = sess[t]
  BY DEF Abort, BillingInv, TypeOK
<1>2. Idle.op = "idle" /\ DOMAIN Idle.set = {} /\ \A c : c \notin DOMAIN Idle.set
  BY DEF Idle, Nothing
<1>3. /\ \A c : ~Writes(s, c)' /\ \A v : ~Pending(s, c, v)'
      /\ \A t \in Sessions \ {s} : \A c : Writes(t, c)' <=> Writes(t, c)
      /\ \A t \in Sessions \ {s} : \A c, v : Pending(t, c, v)' <=> Pending(t, c, v)
  BY <1>1, <1>2 DEF Writes, Pending
<1>4. SessionsTyped'
  <2>1. ASSUME NEW t \in Sessions
        PROVE  /\ sess'[t].op \in Ops
               /\ DOMAIN sess'[t].set \subseteq Columns
               /\ (Written(sess[t].set))' \in Row
    <3>1. CASE t = s
      <4>1. (Written(sess[t].set))' = [c \in Columns |-> row[c]]
        BY <3>1, <1>1, <1>2 DEF Written
      <4> QED BY <3>1, <4>1, <1>1, <1>2, RowByColumns DEF BillingInv, TypeOK, Ops
    <3>2. CASE t # s
      BY <3>2, <1>1 DEF Written, BillingInv, TypeOK
    <3> QED BY <3>1, <3>2
  <2> QED BY <1>1, <2>1 DEF SessionsTyped, BillingInv, TypeOK
<1>5. KeptColumns'
  BY <1>3 DEF KeptColumns, BillingInv
<1>6. PaidWrites'
  BY <1>1, <1>3 DEF PaidWrites, BillingInv
<1>7. TrialWrites'
  BY <1>1, <1>2, <1>3 DEF TrialWrites, BillingInv
<1> QED BY <1>4, <1>5, <1>6, <1>7

\* A commit puts the pending columns of one session over the row; what the
\* other sessions are about to write stays as harmless as it was.
LEMMA CommitSafe ==
  ASSUME BillingInv, NEW s \in Sessions, NEW p \in Processes, Commit(s, p)
  PROVE  SessionsTyped' /\ KeptColumns' /\ PaidWrites' /\ TrialWrites'
<1> DEFINE new == Written(sess[s].set)
<1>1. /\ row' = new /\ granted' = granted
      /\ DOMAIN sess' = Sessions
      /\ sess'[s] = Idle
      /\ \A t \in Sessions \ {s} : sess'[t] = sess[t]
  BY DEF Commit, BillingInv, TypeOK
<1>2. Idle.op = "idle" /\ DOMAIN Idle.set = {} /\ \A c : c \notin DOMAIN Idle.set
  BY DEF Idle, Nothing
<1>3. /\ new \in Row
      /\ \A c \in Columns : new[c] = IF Writes(s, c) THEN sess[s].set[c] ELSE row[c]
  BY DEF BillingInv, TypeOK, Written, Writes
<1> HIDE DEF new
<1>4. /\ \A c : ~Writes(s, c)' /\ \A v : ~Pending(s, c, v)'
      /\ \A t \in Sessions \ {s} : \A c : Writes(t, c)' <=> Writes(t, c)
      /\ \A t \in Sessions \ {s} : \A c, v : Pending(t, c, v)' <=> Pending(t, c, v)
  BY <1>1, <1>2 DEF Writes, Pending
<1>5. SessionsTyped'
  <2>1. ASSUME NEW t \in Sessions
        PROVE  /\ sess'[t].op \in Ops
               /\ DOMAIN sess'[t].set \subseteq Columns
               /\ (Written(sess[t].set))' \in Row
    <3>1. CASE t = s
      <4>1. (Written(sess[t].set))' = [c \in Columns |-> new[c]]
        BY <3>1, <1>1, <1>2 DEF Written
      <4> QED BY <3>1, <4>1, <1>1, <1>2, <1>3, RowByColumns DEF Ops
    <3>2. CASE t # s
      <4>1. [c \in Columns |-> IF c \in DOMAIN sess[t].set THEN sess[t].set[c] ELSE new[c]] \in Row
        BY <1>3, PendingOverAnyRow DEF BillingInv
      <4> QED BY <3>2, <4>1, <1>1 DEF Written, BillingInv, TypeOK
    <3> QED BY <3>1, <3>2
  <2> QED BY <1>1, <1>3, <2>1 DEF SessionsTyped
<1>6. KeptColumns'
  BY <1>4 DEF KeptColumns, BillingInv
<1>7. ColumnsTyped(row) /\ ColumnsTyped(new)
  BY <1>3, RowByColumns DEF BillingInv, TypeOK
<1>8. /\ row.ready \/ Writes(s, "ready") => new.ready
      /\ row.tried \/ Writes(s, "tried") => new.tried
  BY <1>3, <1>7 DEF KeptColumns, BillingInv, Pending, ColumnsTyped, Columns
<1> DEFINE From(c, v) == IF Writes(s, c) THEN Pending(s, c, v) ELSE row[c] = v
<1>9. /\ \A v : new.tier = v <=> From("tier", v)
      /\ \A v : new.status = v <=> From("status", v)
      /\ \A v : new.ends = v <=> From("ends", v)
  BY <1>3 DEF Pending, Writes, Columns
<1>10. PaidWrites'
  <2>1. CASE granted = 0
    <3>1. new.tier = "performance" /\ new.status = "active" => new.ready
      <4> SUFFICES ASSUME new.tier = "performance", new.status = "active" PROVE row.ready \/ Writes(s, "ready")
        BY <1>8
      <4>1. From("tier", "performance") /\ From("status", "active")
        BY <1>9
      <4>2. /\ row.tier = "performance" /\ row.status = "active" => row.ready
            /\ Pending(s, "tier", "performance") =>
                 Pending(s, "status", "trialing") \/ Writes(s, "ready") \/ row.ready
            /\ Pending(s, "status", "active") => Writes(s, "ready") \/ row.ready
        BY <2>1 DEF PaidWrites, BillingInv
      <4>3. ~(Pending(s, "status", "active") /\ Pending(s, "status", "trialing"))
        BY DEF Pending
      <4>4. Pending(s, "status", "trialing") => Writes(s, "status")
        BY DEF Pending, Writes
      <4> QED BY <4>1, <4>2, <4>3, <4>4
    <3> QED BY <2>1, <3>1, <1>1, <1>4, <1>8 DEF PaidWrites, BillingInv
  <2>2. CASE granted # 0
    BY <2>2, <1>1 DEF PaidWrites
  <2> QED BY <2>1, <2>2
<1>11. TrialWrites'
  <2>1. CASE granted = 0
    <3>1. new.status \in {"trialing", "expired"} \/ new.ends # "none" => new.tried
      BY <2>1, <1>8, <1>9 DEF TrialWrites, BillingInv
    <3>2. ASSUME NEW t \in Sessions \ {s}, sess[t].op = "sign_in"
          PROVE  new.ends # "past" /\ new.status # "expired"
      BY <2>1, <3>2, <1>9 DEF TrialWrites, BillingInv, Pending
    <3> QED BY <2>1, <3>1, <3>2, <1>1, <1>2, <1>4, <1>8 DEF TrialWrites, BillingInv
  <2>2. CASE granted # 0
    BY <2>2, <1>1 DEF TrialWrites
  <2> QED BY <2>1, <2>2
<1> QED BY <1>5, <1>6, <1>10, <1>11

\* A trial runs out only while nobody is about to start one.
LEMMA TrialRunsOutSafe ==
  ASSUME BillingInv, TrialRunsOut
  PROVE  SessionsTyped' /\ KeptColumns' /\ PaidWrites' /\ TrialWrites'
<1>1. /\ row' = [row EXCEPT !.ends = "past"] /\ sess' = sess /\ granted' = granted
      /\ row.ends = "future" /\ \A s \in Sessions : sess[s].op # "sign_in"
      /\ row \in Row
  BY DEF TrialRunsOut, BillingInv, TypeOK
<1>2. row' \in Row
  BY <1>1 DEF Row, Ends
<1>3. \A s \in Sessions : (Written(sess[s].set))' \in Row
  BY <1>1, <1>2, PendingOverAnyRow DEF BillingInv, Written
<1>4. SessionsTyped'
  BY <1>1, <1>2, <1>3 DEF SessionsTyped, BillingInv, TypeOK
<1>5. /\ row'.tier = row.tier /\ row'.status = row.status
      /\ row'.tried = row.tried /\ row'.ready = row.ready
  BY <1>1 DEF Row
<1>6. /\ \A s \in Sessions : \A c : Writes(s, c)' <=> Writes(s, c)
      /\ \A s \in Sessions : \A c, v : Pending(s, c, v)' <=> Pending(s, c, v)
  BY <1>1 DEF Writes, Pending
<1> QED BY <1>1, <1>4, <1>5, <1>6 DEF KeptColumns, PaidWrites, TrialWrites, BillingInv

\* A step that moves neither the row nor a session keeps what they promise.
LEMMA UnchangedSafe ==
  ASSUME BillingInv, UNCHANGED <<row, sess, granted>>
  PROVE  SessionsTyped' /\ KeptColumns' /\ PaidWrites' /\ TrialWrites'
  BY DEF BillingInv, TypeOK, SessionsTyped, Written, KeptColumns, PaidWrites, TrialWrites, Writes, Pending

-----------------------------------------------------------------------------
(* The proxy's half *)

ProxyTyped ==
  /\ vaulted \in BOOLEAN /\ over \in BOOLEAN
  /\ granted \in 0..MaxGrants
  /\ cache \in [Instances -> [answer : Answers, age : 0..(Ttl - 1)]]
  /\ lookup \in [Instances -> Answers]
  /\ served \in [Instances -> BOOLEAN]

\* Dropping, filling and ageing entries keeps the proxy's state well formed.
LEMMA ProxySafe == TypeOK /\ [Next]_vars => ProxyTyped'
<1> SUFFICES ASSUME ProxyTyped, [Next]_vars PROVE ProxyTyped'
  BY DEF TypeOK, ProxyTyped
<1> USE BillingAssumption
<1>1. Empty \in [answer : Answers, age : 0..(Ttl - 1)]
  BY DEF Empty, Answers
<1>2. ASSUME NEW p, Invalidate(p) PROVE cache' \in [Instances -> [answer : Answers, age : 0..(Ttl - 1)]]
  BY <1>1, <1>2 DEF Invalidate, ProxyTyped
<1>3. ASSUME NEW s \in Sessions, NEW p \in Processes, SignIn(s, p) \/ MaybeExpire(s, p) \/ SweepExpiredTrials(s, p)
      PROVE  ProxyTyped'
  BY <1>2, <1>3 DEF SignIn, MaybeExpire, SweepExpiredTrials, ProxyTyped
<1>4. ASSUME NEW s \in Sessions, NEW p \in Processes, NEW k \in EventKinds, HandleEvent(s, p, k)
      PROVE  ProxyTyped'
  BY <1>2, <1>4 DEF HandleEvent, ProxyTyped
<1>5. ASSUME NEW s \in Sessions, OperatorStep(s) PROVE ProxyTyped'
  <2>1. granted < MaxGrants /\ granted' = granted + 1 /\ UNCHANGED <<vaulted, over, cache, lookup, served>>
    BY <1>5 DEF OperatorStep, SetPlan, SetBillingConfig
  <2>2. granted' \in 0..MaxGrants
    BY <2>1 DEF ProxyTyped
  <2> QED BY <2>1, <2>2 DEF ProxyTyped
<1>6. ASSUME NEW s \in Sessions, CommitStep(s) \/ Abort(s) PROVE ProxyTyped'
  BY <1>2, <1>6 DEF CommitStep, Commit, Abort, ProxyTyped
<1>7. ASSUME NEW i \in Instances, LookUp(i) PROVE ProxyTyped'
  BY <1>7 DEF LookUp, ProxyTyped, Entitlement, Answers
<1>8. ASSUME NEW i \in Instances, StoreEntitlement(i) PROVE ProxyTyped'
  <2>1. cache' \in [Instances -> [answer : Answers, age : 0..(Ttl - 1)]]
    BY <1>8 DEF StoreEntitlement, ProxyTyped
  <2>2. lookup' \in [Instances -> Answers]
    BY <1>8 DEF StoreEntitlement, ProxyTyped, Answers
  <2>3. served' \in [Instances -> BOOLEAN]
    BY <1>8 DEF StoreEntitlement, ProxyTyped
  <2> QED BY <1>8, <2>1, <2>2, <2>3 DEF StoreEntitlement, ProxyTyped
<1>9. ASSUME NEW i \in Instances, LookUpFails(i) \/ CachedEntitlement(i) PROVE ProxyTyped'
  BY <1>9 DEF LookUpFails, CachedEntitlement, ProxyTyped, Answers
<1>10. ASSUME CheckoutFinishes \/ TrialRunsOut \/ MonthlyCount PROVE ProxyTyped'
  BY <1>10 DEF CheckoutFinishes, TrialRunsOut, MonthlyCount, ProxyTyped
<1>11. ASSUME Tick PROVE ProxyTyped'
  BY <1>1, <1>11 DEF Tick, ProxyTyped
<1>12. CASE UNCHANGED vars
  BY <1>12 DEF vars, ProxyTyped
<1> QED BY <1>3, <1>4, <1>5, <1>6, <1>7, <1>8, <1>9, <1>10, <1>11, <1>12 DEF Next, SweepStep

-----------------------------------------------------------------------------
(* The invariant *)

\* A new organization has no trial, no payment method and nothing pending.
LEMMA InitSafe == Init => BillingInv
<1> SUFFICES ASSUME Init PROVE BillingInv
  OBVIOUS
<1> USE BillingAssumption
<1>1. NewOrg \in Row
  BY DEF NewOrg, Row, Tiers, Statuses, Ends
<1>2. Idle.op = "idle" /\ \A c : c \notin DOMAIN Idle.set
  BY DEF Idle, Nothing
<1>3. \A s \in Sessions : sess[s] = Idle
  BY DEF Init
<1>4. \A s \in Sessions : /\ Written(sess[s].set) \in Row
                          /\ DOMAIN sess[s].set \subseteq Columns
                          /\ \A c : ~Writes(s, c) /\ \A v : ~Pending(s, c, v)
  <2> SUFFICES ASSUME NEW s \in Sessions
               PROVE  Written(sess[s].set) \in Row
    BY <1>2, <1>3 DEF Writes, Pending
  <2>1. Written(sess[s].set) = [c \in Columns |-> row[c]]
    BY <1>2, <1>3 DEF Written
  <2> QED BY <1>1, <2>1, RowByColumns DEF Init
<1>5. cache \in [Instances -> [answer : Answers, age : 0..(Ttl - 1)]]
  BY DEF Init, Empty, Answers
<1>6. TypeOK
  <2>1. \A s \in Sessions : sess[s].op \in Ops
    BY <1>2, <1>3 DEF Ops
  <2>2. row \in Row /\ DOMAIN sess = Sessions /\ granted \in 0..MaxGrants
    BY <1>1 DEF Init
  <2>3. lookup \in [Instances -> Answers] /\ served \in [Instances -> BOOLEAN]
    BY DEF Init, Answers
  <2>4. vaulted \in BOOLEAN /\ over \in BOOLEAN
    BY DEF Init
  <2> QED BY <1>4, <1>5, <2>1, <2>2, <2>3, <2>4 DEF TypeOK
<1>7. KeptColumns /\ PaidWrites /\ TrialWrites
  BY <1>2, <1>3, <1>4 DEF Init, NewOrg, KeptColumns, PaidWrites, TrialWrites
<1> QED BY <1>6, <1>7 DEF BillingInv

\* Every step of every session, instance and clock keeps the invariant.
LEMMA NextSafe == BillingInv /\ [Next]_vars => BillingInv'
<1> SUFFICES ASSUME BillingInv, [Next]_vars PROVE BillingInv'
  OBVIOUS
<1>1. ProxyTyped'
  BY ProxySafe DEF BillingInv
<1> DEFINE Safe == SessionsTyped' /\ KeptColumns' /\ PaidWrites' /\ TrialWrites'
<1>2. ASSUME NEW s \in Sessions, NEW p \in Processes, SignIn(s, p) PROVE Safe
  BY <1>2, TransitionsAreLegal, LoadSafe DEF SignIn, Ops
<1>3. ASSUME NEW s \in Sessions, NEW p \in Processes, MaybeExpire(s, p) \/ SweepExpiredTrials(s, p) PROVE Safe
  BY <1>3, TransitionsAreLegal, LoadSafe DEF MaybeExpire, SweepExpiredTrials, Ops
<1>4. ASSUME NEW s \in Sessions, NEW p \in Processes, NEW k \in EventKinds, HandleEvent(s, p, k) PROVE Safe
  BY <1>4, TransitionsAreLegal, LoadSafe DEF HandleEvent, EventKinds, Ops
<1>5. ASSUME NEW s \in Sessions, OperatorStep(s) PROVE Safe
  <2>1. row \in Row /\ granted \in 0..MaxGrants
    BY DEF BillingInv, TypeOK
  <2>2. ASSUME NEW tier \in Tiers, SetPlan(s, tier) PROVE Safe
    <3>1. [row EXCEPT !.tier = tier] \in Row
      BY <2>1 DEF Row
    <3>2. LegalLoad("plan", [row EXCEPT !.tier = tier]) /\ row' = row
      BY <2>1, <2>2 DEF SetPlan, LegalLoad, Row
    <3> QED BY <2>2, <3>1, <3>2, LoadSafe DEF SetPlan, Ops
  <2>3. ASSUME NEW status \in Granted, NEW extend \in BOOLEAN, SetBillingConfig(s, status, extend) PROVE Safe
    <3> DEFINE new == [row EXCEPT !.status = status, !.ends = IF extend THEN "future" ELSE @]
    <3>1. new \in Row
      BY <2>1, BillingAssumption DEF Row, Ends
    <3>2. LegalLoad("config", new) /\ row' = row
      BY <2>1, <2>3 DEF SetBillingConfig, LegalLoad, Row
    <3> QED BY <2>3, <3>1, <3>2, LoadSafe DEF SetBillingConfig, Ops
  <2> QED BY <1>5, <2>2, <2>3 DEF OperatorStep
<1>6. ASSUME NEW s \in Sessions, CommitStep(s) \/ Abort(s) PROVE Safe
  BY <1>6, CommitSafe, AbortSafe DEF CommitStep
<1>7. ASSUME NEW i \in Instances, LookUp(i) \/ StoreEntitlement(i) \/ LookUpFails(i) \/ CachedEntitlement(i)
      PROVE  Safe
  BY <1>7, UnchangedSafe DEF LookUp, StoreEntitlement, LookUpFails, CachedEntitlement
<1>8. ASSUME CheckoutFinishes \/ MonthlyCount \/ Tick \/ UNCHANGED vars PROVE Safe
  BY <1>8, UnchangedSafe DEF CheckoutFinishes, MonthlyCount, Tick, vars
<1>9. ASSUME TrialRunsOut PROVE Safe
  BY <1>9, TrialRunsOutSafe
<1>10. Safe
  BY <1>2, <1>3, <1>4, <1>5, <1>6, <1>7, <1>8, <1>9 DEF Next, SweepStep
<1> QED BY <1>1, <1>10 DEF BillingInv, TypeOK, SessionsTyped, ProxyTyped

-----------------------------------------------------------------------------
(* Theorems *)

\* The invariant of the billing state, whatever sessions overwrite each other.
THEOREM BillingSafe == Spec => []BillingInv
  BY InitSafe, NextSafe, PTL DEF Spec

\* The billing columns stay in their domains however sessions mix their
\* writes, and so do the pending writes and the cached entitlements
\* (billing_lifecycle, entitlements).
THEOREM TypeCorrect == Spec => []TypeOK
<1>1. BillingInv => TypeOK
  BY DEF BillingInv
<1> QED BY <1>1, BillingSafe, PTL

\* Nobody optimizes outside a trial without a payment method or an operator's
\* hand: no interleaving of sign-in, webhook, expiry and sweep combines the
\* columns of two writers into an unpaid Pro.
THEOREM ProIsAlwaysPaid == Spec => []ProIsPaid
<1>1. BillingInv => ProIsPaid
  BY DEF BillingInv, TypeOK, Row, PaidWrites, ProIsPaid, Entitlement, ObserveOnly, Tiers, Statuses
<1> QED BY <1>1, BillingSafe, PTL

\* No step takes an expired organization back into a trial unless an operator
\* has written its billing row.
THEOREM NoSecondTrial == Spec => TrialGrantedOnce
<1>1. BillingInv /\ [Next]_vars => [row.status = "expired" /\ row'.status = "trialing" => granted' > 0]_vars
  <2> SUFFICES ASSUME BillingInv, Next, row.status = "expired", row'.status = "trialing"
               PROVE  granted' > 0
    BY DEF vars
  <2>1. row \in Row /\ granted \in Nat
    BY BillingAssumption DEF BillingInv, TypeOK
  <2>2. ASSUME NEW s \in Sessions, NEW p \in Processes, Commit(s, p) PROVE granted' > 0
    <3>1. Pending(s, "status", "trialing") /\ granted' = granted
      BY <2>2 DEF Commit, Written, Pending, Columns
    <3> QED BY <2>1, <3>1 DEF BillingInv, TrialWrites
  <2>3. ASSUME TrialRunsOut PROVE FALSE
    BY <2>1, <2>3 DEF TrialRunsOut, Row
  <2>4. row' # row
    OBVIOUS
  <2> QED BY <2>2, <2>3, <2>4
          DEF Next, SweepStep, OperatorStep, CommitStep, SignIn, MaybeExpire, SweepExpiredTrials,
              HandleEvent, SetPlan, SetBillingConfig, Abort, LookUp, StoreEntitlement, LookUpFails,
              CachedEntitlement, CheckoutFinishes, MonthlyCount, Tick
<1> QED BY <1>1, BillingSafe, PTL DEF Spec, TrialGrantedOnce
=============================================================================
