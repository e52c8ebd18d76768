------------------------------- MODULE LateFees -------------------------------
(***************************************************************************)
(* Late fees (LateFeesService): a sweep reads the policy and the open      *)
(* invoices past their due date, and raises the amount of each to what the *)
(* highest tier it has reached asks for, if neither the amount nor the     *)
(* tier has changed since. Payments go on meanwhile, and staff edit the    *)
(* policy. A sweep treats invoices one by one, so there is one.            *)
(***************************************************************************)
EXTENDS InFlight, Integers, Sequences, FiniteSets

CONSTANTS
    Policies,    \* sequences of tiers that may be configured
    Principal,   \* what the invoice was issued for, in cents
    Amounts,     \* amounts of payments
    LastDay,     \* bound on the days past the due date
    MaxEvents,   \* bound on payments and reversals
    GraceDays,
    NoTier

Tier == [ageDays : Nat, kind : {"percent", "flat"}, value : Nat, cap : Nat]

ASSUME LateFeesAssumption ==
    /\ Principal \in Nat \ {0} /\ Amounts \subseteq Nat \ {0}
    /\ LastDay \in Nat /\ MaxEvents \in Nat /\ GraceDays \in Nat
    \* validateTiers
    /\ \A policy \in Policies :
          /\ \A i \in DOMAIN policy : policy[i] \in Tier
          /\ \A i, j \in DOMAIN policy : i < j => policy[i].ageDays < policy[j].ageDays

VARIABLES
    invoice,     \* the Invoice row; tier: what its lateFeeSignature stands for
    tiers,       \* the tiers of the active LateFeeConfig
    age,         \* days since the due date
    events,      \* how many payments and reversals there were
    outrun       \* a fee was written on an invoice that had been paid meanwhile

feeVars == <<invoice, tiers, age, events, outrun, requests, begun>>

-----------------------------------------------------------------------------
ELIGIBLE_INVOICE_STATUSES == {"sent", "partial", "overdue"}

Larger(m, n) == IF m > n THEN m ELSE n
Smaller(m, n) == IF m < n THEN m ELSE n

\* Invoices of staff and fines have no originalAmount, here 0; generated ones do.
FeesInit ==
    /\ \E originalAmount \in {0, Principal} :
          invoice = [amount |-> Principal, originalAmount |-> originalAmount, amountPaid |-> 0,
                     status |-> "sent", tier |-> NoTier]
    /\ tiers \in Policies
    /\ age = 0
    /\ NoRequests
    /\ events = 0 /\ outrun = FALSE

-----------------------------------------------------------------------------
\* percent of the base, or flat; a cap of 0 is none.
Surcharge(tier, base) ==
    IF tier = NoTier THEN 0 ELSE
    LET fee == IF tier.kind = "percent" THEN (base * tier.value + 50) \div 100 ELSE tier.value
    IN  IF tier.cap > 0 THEN Smaller(fee, tier.cap) ELSE fee

Reached == {i \in DOMAIN tiers : age >= tiers[i].ageDays}

\* pickTier: the highest tier reached, if one is.
Picked == {tiers[i] : i \in {i \in Reached : \A j \in Reached : j <= i}}

\* Seeded fault: the fee is taken of what is owed by now.
OwedSoFar == invoice.amount

Base == IF invoice.originalAmount # 0 THEN invoice.originalAmount ELSE invoice.amount

NewAmount(tier) == Base + Surcharge(tier, Base)

\* findCandidateInvoices: a due date is past the grace on the day that it gets to.
Candidate == invoice.status \in ELIGIBLE_INVOICE_STATUSES /\ age >= GraceDays

\* What a sweep finds to do: no fee twice for a tier, and none that lowers.
ReadToSweep(q) ==
    /\ Candidate
    /\ \E tier \in Picked :
          /\ NewAmount(tier) > invoice.amount
          /\ tier # invoice.tier
          /\ Begin(q, [step |-> "apply", amount |-> invoice.amount, tier |-> invoice.tier,
                       newAmount |-> NewAmount(tier), newTier |-> tier])
    /\ UNCHANGED <<invoice, tiers, age, events, outrun>>

\* "only apply if the row hasn't been mutated under us": amount and signature.
AsRead(q) == invoice.amount = requests[q].amount /\ invoice.tier = requests[q].tier

Apply(q) ==
    /\ At(q, "apply")
    /\ IF AsRead(q)
         THEN /\ invoice' = [invoice EXCEPT !.amount = requests[q].newAmount,
                                            !.tier = requests[q].newTier]
              /\ outrun' = (outrun \/ invoice.status = "paid")
         ELSE UNCHANGED <<invoice, outrun>>
    /\ Finish(q)
    /\ UNCHANGED <<tiers, age, events>>

Abort(q) == ~ At(q, "idle") /\ Finish(q) /\ UNCHANGED <<invoice, tiers, age, events, outrun>>

UpsertConfig(policy) ==
    /\ policy # tiers
    /\ tiers' = policy
    /\ UNCHANGED <<invoice, age, events, outrun, requests, begun>>

-----------------------------------------------------------------------------
(* PaymentsService, which locks the invoice. *)

\* Seeded fault: paid in full is what was issued.
SettledAtIssue(paid) == paid >= Principal

Settled(paid) == paid >= invoice.amount

Record(paid, open) ==
    /\ events < MaxEvents
    /\ events' = events + 1
    /\ invoice' = [invoice EXCEPT !.amountPaid = paid,
                                  !.status = IF Settled(paid) THEN "paid" ELSE open]
    /\ UNCHANGED <<tiers, age, outrun, requests, begun>>

PayInvoice(amount) ==
    LET applied == Smaller(amount, Larger(invoice.amount - invoice.amountPaid, 0)) IN
    /\ applied > 0
    /\ Record(invoice.amountPaid + applied, "partial")

ReversePayment(amount) ==
    LET paid == Larger(invoice.amountPaid - amount, 0) IN
    /\ invoice.amountPaid > 0
    /\ Record(paid, IF paid > 0 THEN "partial" ELSE "sent")

NextDay == age < LastDay /\ age' = age + 1 /\ UNCHANGED <<invoice, tiers, events, outrun, requests, begun>>

FeesNext ==
    \/ \E q \in Requests : ReadToSweep(q) \/ Apply(q) \/ Abort(q)
    \/ \E policy \in Policies : UpsertConfig(policy)
    \/ \E amount \in Amounts : PayInvoice(amount) \/ ReversePayment(amount)
    \/ NextDay

FeesSpec == FeesInit /\ [][FeesNext]_feeVars

-----------------------------------------------------------------------------
\* The amount is what was issued and the fee of one tier, whatever the sweeps, the
\* edits of the policy and their order: "computes against originalAmount so
\* stacking tiers don't compound on top of prior fees" (computeFee).
FeesDoNotStack == invoice.amount = Principal + Surcharge(invoice.tier, Principal)

\* That holds of the invoices that have an originalAmount.
FeeOfOneTier == invoice.originalAmount # 0 => FeesDoNotStack

\* A paid invoice is paid to its amount, fees included, unless a sweep that read
\* it open wrote after the payment (sweep, logPayment).
PaidWithFees == invoice.status = "paid" /\ ~ outrun => invoice.amountPaid = invoice.amount

=============================================================================
