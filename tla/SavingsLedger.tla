--------------------------- MODULE SavingsLedger ---------------------------
(***************************************************************************)
(* From ledger rows to money: what a metered call writes as cost and as    *)
(* saving, how the savings of a period are measured (recorded savings, the *)
(* holdback experiments, less what measuring and optimizing cost), the     *)
(* dashboard's figures, and the operator's gain-share invoices.  A request *)
(* has a size, to which its price is proportional.  Amounts are whole      *)
(* numbers of the unit to which the code rounds.                           *)
(***************************************************************************)
EXTENDS Integers, FiniteSets, FiniteSetsExt

CONSTANTS
  Requests,    \* the calls that may be made: [kind, size]
  ListPrice,   \* price of half a request of size one, of each model
  Catalog,     \* the models the price catalog covers
  MaxRows,     \* bound on ledger rows
  MaxMonth,    \* the last month
  Percents,    \* gain-share percents an organization may have
  Floors,      \* monthly fee floors
  Estimate,    \* what an applied recommendation promised
  MaxActs      \* bound on what people do: change terms, apply, invoice

Models == {"incumbent", "candidate"}

\* How a call was served: as asked, from the cache, on the cheaper model of a
\* routing experiment or held back from it, trimmed or held back from trimming,
\* by the degraded model after an outage, in a batch, or for the proxy's own
\* use (an embedding).
CallKinds == {"plain", "hit", "routed", "held", "trimmed", "untrimmed", "fellback", "batch", "overhead"}

ASSUME BooksAssumption ==
  /\ Requests \subseteq [kind : CallKinds, size : Nat \ {0}] /\ IsFiniteSet(Requests)
  /\ ListPrice \in [Models -> Nat]
  /\ ListPrice["candidate"] <= ListPrice["incumbent"]
  /\ Catalog \subseteq Models
  /\ {MaxRows, Estimate, MaxActs} \subseteq Nat /\ MaxMonth \in Nat \ {0}
  /\ Percents \subseteq Nat /\ Floors \subseteq Nat

VARIABLES
  ledger,      \* ledger[m][r]: rows of calls r received in month m
  month,       \* the current month
  terms,       \* the organization's percent and floor
  acts,        \* what people did so far
  invoice,     \* invoice[p]: the invoice of period p
  gen,         \* the invoice being generated
  attributed   \* months with an attribution of the recommendation

bvars == <<ledger, month, terms, acts, invoice, gen, attributed>>

-----------------------------------------------------------------------------
(* One call, of size one. *)

Served(c) == IF c \in {"routed", "fellback", "overhead"} THEN "candidate" ELSE "incumbent"
Size(c) == IF c = "trimmed" THEN 1 ELSE 2

Unknown == -1
PriceOf(m, size) == IF m \in Catalog THEN ListPrice[m] * size ELSE Unknown

UsedCost(c) == PriceOf(Served(c), Size(c))
NaiveCost(c) == PriceOf("incumbent", Size(c))
BatchCost(c) == IF UsedCost(c) = Unknown THEN Unknown ELSE UsedCost(c) \div 2

\* The cost column.  A proxied call whose cost is unknown is entered as free;
\* a batch slice and an overhead row keep it unknown.
CostUsd(c) ==
  CASE c = "hit" -> 0
    [] c = "batch" -> BatchCost(c)
    [] c = "overhead" -> UsedCost(c)
    [] OTHER -> IF UsedCost(c) = Unknown THEN 0 ELSE UsedCost(c)

Less(a, b) == IF Unknown \in {a, b} THEN Unknown ELSE a - b

\* metadata.saved_usd: on a hit, a routed call and a batch only.
SavedUsd(c) ==
  CASE c = "hit" -> UsedCost(c)
    [] c = "routed" -> Less(NaiveCost(c), UsedCost(c))
    [] c = "batch" -> Less(NaiveCost(c), BatchCost(c))
    [] OTHER -> Unknown

\* Every call that meets an experiment's policy is tagged with its arm.
Experiments == {[control |-> "held", treatment |-> "routed"],
                [control |-> "untrimmed", treatment |-> "trimmed"]}
Holdback(c) == \E x \in Experiments : c \in {x.control, x.treatment}

-----------------------------------------------------------------------------
(* One period, a set of months. *)

OfKind == [c \in CallKinds |-> {r \in Requests : r.kind = c}]
Rows(p, c) == SumFunction([q \in p \X OfKind[c] |-> ledger[q[1]][q[2]]])
Volume(p, c) == SumFunction([q \in p \X OfKind[c] |-> q[2].size * ledger[q[1]][q[2]]])
Known(x) == IF x = Unknown THEN 0 ELSE x
SumSaved(p, calls) == SumFunction([c \in calls |-> Volume(p, c) * Known(SavedUsd(c))])
SumCost(p, calls) == SumFunction([c \in calls |-> Volume(p, c) * Known(CostUsd(c))])

\* Recorded savings by lever.  The treatment of an experiment is left out of
\* the billing basis, which measures it by comparing the arms.
DirectByLever(p, includeHoldback) ==
  [cache |-> SumSaved(p, {"hit"}),
   batching |-> SumSaved(p, {"batch"}),
   routing |-> SumSaved(p, {c \in {"routed"} : includeHoldback \/ ~Holdback(c)})]

\* Mutant: treatment calls are counted by their rows and by the experiment.
DirectTwice(p) == SumFunction(DirectByLever(p, TRUE))
DirectMeasured(p) == SumFunction(DirectByLever(p, FALSE))

\* An experiment compares the mean costs of its arms, once it has a row in
\* each; has_signal is reported beside the number and decides nothing.
Measured(p) == {x \in Experiments : Rows(p, x.control) > 0 /\ Rows(p, x.treatment) > 0}

ArmCost(p, c) == Volume(p, c) * CostUsd(c)
Quotient(a, b) == (2 * a + b) \div (2 * b)   \* to the nearest unit

\* The mean of the control, times the calls treated, less what these cost.
MeasuredSavings(p, x) ==
  Quotient(ArmCost(p, x.control) * Rows(p, x.treatment), Rows(p, x.control)) - ArmCost(p, x.treatment)
PerRequest(p, x) ==
  Quotient(ArmCost(p, x.control) * Rows(p, x.treatment) - ArmCost(p, x.treatment) * Rows(p, x.control),
           Rows(p, x.control) * Rows(p, x.treatment))

HoldbackMeasured(p) == SumFunction([x \in Measured(p) |-> MeasuredSavings(p, x)])

MeasurementCost(p) == SumFunction([x \in Measured(p) |-> Max({PerRequest(p, x), 0}) * Rows(p, x.control)])

OverheadCost(p) == SumCost(p, {"overhead"})

VerifiedSavings(p) ==
  DirectMeasured(p) + HoldbackMeasured(p) - MeasurementCost(p) - OverheadCost(p)

-----------------------------------------------------------------------------
(* The dashboard's month. *)

RequestCount(p) == SumFunction([c \in CallKinds |-> Rows(p, c)])
ActualSpend(p) == SumCost(p, CallKinds)
MeasuredGross(p) == SumFunction(DirectByLever(p, TRUE))
EstimatedGross(p) == Estimate * Cardinality(p \cap attributed)

\* Measured savings where the ledger has them, else the estimate, never both.
WindowSavings(p) ==
  LET requests == RequestCount(p)
      measured == MeasuredGross(p)
      estimated == EstimatedGross(p)
      mode == CASE requests = 0 -> "empty"
                [] requests > 0 /\ measured > 0 -> "measured"
                [] requests > 0 /\ measured <= 0 /\ estimated > 0 -> "estimated"
                [] OTHER -> "spend_only"
      gross == CASE mode = "measured" -> measured
                 [] mode = "estimated" -> estimated
                 [] OTHER -> 0
  IN [mode |-> mode, gross |-> gross, counterfactual |-> ActualSpend(p) + gross]

\* The chart adds up whatever saving a row carries.
ChartSaved(p) == SumSaved(p, CallKinds)

-----------------------------------------------------------------------------
(* The fee. *)

MaxPercent == 25
Cents(amount, percent) == (2 * amount * percent + 100) \div 200   \* rounded half up

EffectivePercent(percent) == Max({0, Min({percent, MaxPercent})})

ComputeFee(verified, percent, floor) ==
  LET gross == Max({verified, 0})
      share == Cents(gross, EffectivePercent(percent))
      lifted == IF floor > 0 THEN Max({share, floor}) ELSE share
  IN [status |-> "draft", verified |-> gross, fee |-> Min({lifted, Cents(gross, MaxPercent)})]

-----------------------------------------------------------------------------
(* The books over time. *)

Months == 1..MaxMonth
Periods == {first..last : first \in Months, last \in Months} \ {{}}
NoInvoice == [status |-> "none", verified |-> 0, fee |-> 0]
Idle == [period |-> {}, bill |-> NoInvoice]

BooksInit ==
  /\ ledger = [m \in Months |-> [r \in Requests |-> 0]]
  /\ month = 1
  /\ terms = [percent |-> MaxPercent, floor |-> 0]
  /\ acts = 0
  /\ invoice = [p \in Periods |-> NoInvoice]
  /\ gen = Idle
  /\ attributed = {}

\* A call is metered in the month it is received.
Meter(r) ==
  /\ ledger' = [ledger EXCEPT ![month][r] = ledger[month][r] + 1]
  /\ UNCHANGED <<month, terms, acts, invoice, gen, attributed>>

NextMonth ==
  /\ month < MaxMonth
  /\ month' = month + 1
  /\ UNCHANGED <<ledger, terms, acts, invoice, gen, attributed>>

SetBillingConfig(percent, floor) ==
  /\ acts < MaxActs
  /\ terms' = [percent |-> percent, floor |-> floor]
  /\ acts' = acts + 1
  /\ UNCHANGED <<ledger, month, invoice, gen, attributed>>

\* Applying the recommendation again in a month refreshes its one attribution.
RecordAppliedSavings ==
  /\ Estimate > 0
  /\ acts < MaxActs
  /\ acts' = acts + 1
  /\ attributed' = attributed \cup {month}
  /\ UNCHANGED <<ledger, month, terms, invoice, gen>>

\* The operator asks for the month that has ended, or names a period; the
\* savings are summed and priced at the terms of that moment.
BeginInvoice(p) ==
  /\ gen = Idle
  /\ acts < MaxActs
  /\ acts' = acts + 1
  /\ gen' = [period |-> p, bill |-> ComputeFee(VerifiedSavings(p), terms.percent, terms.floor)]
  /\ UNCHANGED <<ledger, month, terms, invoice, attributed>>

\* A draft is created or refreshed, an invoice past it is returned as it is.
SaveInvoice ==
  /\ gen /= Idle
  /\ invoice' = IF invoice[gen.period].status \in {"none", "draft"}
                THEN [invoice EXCEPT ![gen.period] = gen.bill] ELSE invoice
  /\ gen' = Idle
  /\ UNCHANGED <<ledger, month, terms, acts, attributed>>

\* By hand: a person sends the invoice.
SendInvoice(p) ==
  /\ invoice[p].status = "draft"
  /\ invoice' = [invoice EXCEPT ![p].status = "sent"]
  /\ UNCHANGED <<ledger, month, terms, acts, gen, attributed>>

BooksNext ==
  \/ RequestCount(Months) < MaxRows /\ \E r \in Requests : Meter(r)
  \/ NextMonth
  \/ \E percent \in Percents \cup {terms.percent}, floor \in Floors \cup {terms.floor} : SetBillingConfig(percent, floor)
  \/ RecordAppliedSavings
  \/ \E p \in Periods : BeginInvoice(p) \/ SendInvoice(p)
  \/ SaveInvoice

BooksSpec == BooksInit /\ [][BooksNext]_bvars

-----------------------------------------------------------------------------
(* Properties. *)

\* What the customer was really spared: the incumbent's price of an untrimmed
\* request less what the call cost, where both prices are known.  A degraded
\* answer is an outage, not a saving.
Spared(c) ==
  CASE c = "hit" -> Known(UsedCost(c))
    [] c = "batch" -> Known(Less(NaiveCost(c), BatchCost(c)))
    [] c \in {"routed", "trimmed"} -> Known(Less(PriceOf("incumbent", 2), UsedCost(c)))
    [] OTHER -> 0

Issued == {p \in Periods : invoice[p].status /= "none"}
RealSavings(p) == SumFunction([c \in CallKinds |-> Volume(p, c) * Spared(c)])

\* The requests that an experiment compares have one size.
LikeArms(p) ==
  \A x \in Experiments : \E z \in {r.size : r \in Requests} :
    \A m \in p, r \in OfKind[x.control] \cup OfKind[x.treatment] : ledger[m][r] > 0 => r.size = z

\* Where experiments compare like with like, an invoice bills no unit of its
\* period's saving twice and none that was not made, and nets out the overhead;
\* and always its fee stays within a quarter of what it bills (to the rounded
\* half unit), whatever the floor, the terms and the calls metered meanwhile.
InvoiceIsEarned ==
  \A p \in Issued :
    /\ LikeArms(p) => invoice[p].verified <= RealSavings(p)
    /\ 200 * invoice[p].fee <= 2 * MaxPercent * invoice[p].verified + 100

\* The dashboard's chart, its split by lever and its headline are one number,
\* and spend plus saving never exceeds the list price of the calls made.
DashboardAddsUp ==
  LET w == WindowSavings({month})
      listPrice == SumFunction([c \in CallKinds |-> Volume({month}, c) * PriceOf("incumbent", 2)])
  IN w.mode = "measured" =>
       /\ w.gross = ChartSaved({month})
       /\ w.counterfactual <= listPrice

BooksBalance == InvoiceIsEarned /\ DashboardAddsUp

\* An unknown price is not a free call: no invoice bills what an unpriced
\* call is supposed to have saved, even where experiments compare like with
\* like.
UnknownCostIsNotZero == \A p \in Issued : LikeArms(p) => invoice[p].verified <= RealSavings(p)
=============================================================================
