------------------------------ MODULE Payments ------------------------------
(***************************************************************************)
(* The money path of HOA-API: checkout intents, the inbound Paystack       *)
(* webhook, the verify call of the callback page, and the payment ledger   *)
(* (Payment and PaymentAllocation rows, the amountPaid cache of Invoice).  *)
(*                                                                         *)
(* A request is a handler: a process that advances from one database or    *)
(* network call it awaits to the next. One action is one statement, or one *)
(* $transaction whose reads follow its row locks. Paystack is external; it *)
(* may deliver an event late, twice, or in any order.                      *)
(***************************************************************************)
EXTENDS Integers, FiniteSets, Functions

CONSTANTS
    Invoices,        \* invoice rows that may come to exist, all of one unit
    Periods,         \* the invoices among them that bill a period of one UnitBilling
    Price,           \* what each invoice bills
    RateRise,        \* how much a period's price may rise after a prepay quote
    DueDate,         \* the due date of each invoice
    Intents,         \* payment intents, each with its providerReference
    ManualRefs,      \* references of payments staff log by hand
    ManualAmounts,   \* amounts staff log by hand
    Handlers,        \* requests that can be in flight together
    RefundHandlers,  \* the ones among them that may reverse a payment
    MaxInterrupts,   \* bound on the handlers that crash or throw half way
    NoInvoice, NoRef

ASSUME PaymentsAssumption ==
    /\ IsFiniteSet(Invoices) /\ IsFiniteSet(Intents) /\ IsFiniteSet(ManualRefs)
    /\ Periods \subseteq Invoices
    /\ Price \in [Invoices -> Nat \ {0}]
    /\ RateRise \in Nat
    /\ DueDate \in [Invoices -> Nat]
    /\ \A i, j \in Invoices : DueDate[i] = DueDate[j] => i = j
    /\ Intents \cap ManualRefs = {}
    /\ ManualAmounts \subseteq Nat \ {0}
    /\ RefundHandlers \subseteq Handlers
    /\ MaxInterrupts \in Nat
    /\ NoInvoice \notin Invoices
    /\ NoRef \notin Intents \cup ManualRefs

VARIABLES
    invoices,     \* Invoice rows
    payments,     \* Payment rows with their allocations, one per reference
    intents,      \* PaymentIntent rows
    coverage,     \* number of PrepaymentCredit rows written for an intent
    gateway,      \* Paystack's own record of each transaction
    events,       \* webhook events Paystack has emitted
    acked,        \* the events it has seen a 2xx for
    handlers,     \* requests in flight
    interrupts,   \* how many handlers have crashed or thrown half way
    interrupted   \* intents whose handler did so after marking them 'success'

ledgerVars == <<invoices, payments, coverage>>
gatewayVars == <<gateway, events>>
faultVars == <<interrupts, interrupted>>
vars == <<invoices, payments, intents, coverage, gateway, events, acked,
          handlers, interrupts, interrupted>>

-----------------------------------------------------------------------------
Refs == Intents \cup ManualRefs

InvoiceStatuses == {"absent", "draft", "sent", "partial", "paid"}
IntentStatuses == {"none", "pending", "success", "failed"}
IntentKinds == {"single", "multi", "prepay"}
PaymentStatuses == {"none", "completed", "reversed"}
GatewayStatuses == {"open", "failed", "charged", "mischarged", "refunded"}
ChargeOutcomes == {"success", "mismatch", "failed"}
EventKinds == ChargeOutcomes \cup {"refund"}
Steps == {"idle", "markSuccess", "markFailed", "materialize", "credit",
          "verify", "reverse"}

Invoice == [status : InvoiceStatuses, amount : Nat, amountPaid : Nat]
Allocation == [Invoices -> Nat]
Payment == [status : PaymentStatuses, amount : Nat, amountUnallocated : Nat,
            invoiceId : Invoices \cup {NoInvoice}, allocations : Allocation]
Intent == [status : IntentStatuses, kind : IntentKinds,
           target : SUBSET Invoices, amount : Nat]
Handler == [step : Steps, ref : Refs \cup {NoRef}, event : EventKinds \cup {"none"},
            allocations : Allocation]

NothingAllocated == [i \in Invoices |-> 0]
NoInvoiceRow == [status |-> "absent", amount |-> 0, amountPaid |-> 0]
NoPaymentRow == [status |-> "none", amount |-> 0, amountUnallocated |-> 0,
                 invoiceId |-> NoInvoice, allocations |-> NothingAllocated]
NoIntentRow == [status |-> "none", kind |-> "single", target |-> {}, amount |-> 0]
Idle == [step |-> "idle", ref |-> NoRef, event |-> "none",
         allocations |-> NothingAllocated]

Exists(i) == invoices[i].status # "absent"
Smaller(a, b) == IF a <= b THEN a ELSE b

\* max(amount - amountPaid, 0)
Outstanding(i) ==
    IF invoices[i].amount >= invoices[i].amountPaid
      THEN invoices[i].amount - invoices[i].amountPaid ELSE 0

\* What is left of an amount after spent has been taken from it.
LeftOf(amount, spent) == IF spent <= amount THEN amount - spent ELSE 0

\* The invoices that are settled before i: the order is by due date.
DueBefore(i, S) == {j \in S : DueDate[j] < DueDate[i]}
OutstandingIn(S) == SumFunctionOnSet([i \in Invoices |-> Outstanding(i)], S)

\* Seeded fault: allocates without looking at what the invoice owes.
AppliedInFull(amount, S) ==
    [i \in Invoices |-> IF i \in S /\ Exists(i) THEN amount ELSE 0]

\* The lump sum goes to the oldest invoice first, to each at most what it owes.
Applied(amount, S) ==
    [i \in Invoices |->
        IF i \in S /\ Exists(i)
          THEN Smaller(LeftOf(amount, OutstandingIn({j \in DueBefore(i, S) : Exists(j)})),
                       Outstanding(i))
          ELSE 0]

\* Seeded fault: what exceeds the bills is forgotten.
SurplusDropped(amount, applied) == 0

Surplus(amount, applied) == LeftOf(amount, SumFunction(applied))

\* The status an invoice gets when its amountPaid is written.
SettledStatus(amount, amountPaid) ==
    IF amountPaid >= amount THEN "paid" ELSE "partial"

\* Seeded fault: a reversal always reopens the invoice as unpaid.
RestoredAsSent(amount, amountPaid) == "sent"

RestoredStatus(amount, amountPaid) ==
    IF amountPaid >= amount THEN "paid"
    ELSE IF amountPaid > 0 THEN "partial" ELSE "sent"

\* Seeded fault: a reversal takes nothing off the invoice.
GivenBackNothing(amountPaid, given) == amountPaid

\* The amountPaid of an invoice once a payment's share is given back.
GivenBack(amountPaid, given) == LeftOf(amountPaid, given)

-----------------------------------------------------------------------------
TypeOK ==
    /\ invoices \in [Invoices -> Invoice]
    /\ payments \in [Refs -> Payment]
    /\ intents \in [Intents -> Intent]
    /\ coverage \in [Intents -> Nat]
    /\ gateway \in [Intents -> GatewayStatuses]
    /\ events \subseteq Intents \X EventKinds
    /\ acked \subseteq events
    /\ handlers \in [Handlers -> Handler]
    /\ interrupts \in 0 .. MaxInterrupts
    /\ interrupted \subseteq Intents

Init ==
    /\ invoices = [i \in Invoices |-> NoInvoiceRow]
    /\ payments = [r \in Refs |-> NoPaymentRow]
    /\ intents = [x \in Intents |-> NoIntentRow]
    /\ coverage = [x \in Intents |-> 0]
    /\ gateway = [x \in Intents |-> "open"]
    /\ events = {}
    /\ acked = {}
    /\ handlers = [h \in Handlers |-> Idle]
    /\ interrupts = 0
    /\ interrupted = {}

-----------------------------------------------------------------------------
(* Bills. *)

\* InvoicesService.create: staff raise an invoice as a draft.
CreateInvoice(i) ==
    /\ i \notin Periods
    /\ ~ Exists(i)
    /\ invoices' = [invoices EXCEPT ![i] =
           [status |-> "draft", amount |-> Price[i], amountPaid |-> 0]]
    /\ UNCHANGED <<payments, intents, coverage, gatewayVars, acked, handlers, faultVars>>

\* UnitBillingService.generateForType: the daily run bills a period unless it
\* is billed already, at the price the charge has by then.
GenerateCharge(i) ==
    /\ i \in Periods
    /\ ~ Exists(i)
    /\ \E amount \in Price[i] .. Price[i] + RateRise :
         invoices' = [invoices EXCEPT ![i] =
            [status |-> "sent", amount |-> amount, amountPaid |-> 0]]
    /\ UNCHANGED <<payments, intents, coverage, gatewayVars, acked, handlers, faultVars>>

-----------------------------------------------------------------------------
(* Checkouts. *)

OpenIntent(x, kind, target, amount) ==
    /\ intents[x].status = "none"
    /\ amount > 0
    /\ intents' = [intents EXCEPT ![x] =
          [status |-> "pending", kind |-> kind, target |-> target, amount |-> amount]]
    /\ UNCHANGED <<ledgerVars, gatewayVars, acked, handlers, faultVars>>

\* What createIntent takes for the paid part: the completed payments whose
\* invoiceId is i, in full.
PaidThrough(i) ==
    SumFunctionOnSet([r \in Refs |-> payments[r].amount],
                     {r \in Refs : payments[r].status = "completed" /\ payments[r].invoiceId = i})

CreateIntent(x, i) ==
    /\ Exists(i)
    /\ invoices[i].status # "paid"
    /\ OpenIntent(x, "single", {i}, LeftOf(invoices[i].amount, PaidThrough(i)))

CreateMultiInvoiceIntent(x, S) ==
    /\ \A i \in S : Exists(i)
    /\ OpenIntent(x, "multi", S, OutstandingIn(S))

\* Only the periods without an invoice are quoted; none is created yet.
Prepay(x, S) ==
    /\ \A i \in S : ~ Exists(i)
    /\ OpenIntent(x, "prepay", S, SumFunctionOnSet(Price, S))

-----------------------------------------------------------------------------
(* Paystack. *)

Emit(x, status, kind) ==
    /\ gateway' = [gateway EXCEPT ![x] = status]
    /\ events' = events \cup {<<x, kind>>}
    /\ UNCHANGED <<ledgerVars, intents, acked, handlers, faultVars>>

\* A declined attempt; the resident may try again on the same reference.
ChargeFails(x) ==
    /\ intents[x].status # "none"
    /\ gateway[x] = "open"
    /\ Emit(x, "failed", "failed")

ChargeSucceeds(x) ==
    /\ intents[x].status # "none"
    /\ gateway[x] \in {"open", "failed"}
    /\ Emit(x, "charged", "success")

\* A charge whose amount or currency is not the intent's.
ChargeMismatches(x) ==
    /\ intents[x].status # "none"
    /\ gateway[x] \in {"open", "failed"}
    /\ Emit(x, "mischarged", "mismatch")

Refund(x) ==
    /\ gateway[x] = "charged"
    /\ Emit(x, "refunded", "refund")

-----------------------------------------------------------------------------
(* Handlers. *)

At(h, step) == handlers[h].step = step

Advance(h, step) == handlers' = [handlers EXCEPT ![h].step = step]

\* The request ends; one that came as an event answers 2xx.
Return(h) ==
    /\ handlers' = [handlers EXCEPT ![h] = Idle]
    /\ acked' = acked \cup (events \cap {<<handlers[h].ref, handlers[h].event>>})

Start(h, step, r, event, allocations) ==
    handlers' = [handlers EXCEPT ![h] =
        [step |-> step, ref |-> r, event |-> event, allocations |-> allocations]]

\* markSuccess writes 'failed' itself when amount or currency differ.
MarkStep(outcome) == IF outcome = "success" THEN "markSuccess" ELSE "markFailed"

\* handleWebhookEvent reads the intent and decides on what it read.
ReceiveCharge(h, x, outcome) ==
    /\ At(h, "idle")
    /\ <<x, outcome>> \in events
    /\ IF intents[x].status = "success"
         THEN /\ acked' = acked \cup {<<x, outcome>>}
              /\ UNCHANGED handlers
         ELSE /\ Start(h, MarkStep(outcome), x, outcome, NothingAllocated)
              /\ UNCHANGED acked
    /\ UNCHANGED <<ledgerVars, intents, gatewayVars, faultVars>>

\* Seeded fault: a checkout of several invoices is marked and not settled.
AfterMarkingOneInvoice(kind) ==
    CASE kind = "prepay" -> "materialize" [] kind = "single" -> "credit" [] OTHER -> "idle"

\* A prepay checkout creates its invoices before it pays them.
AfterMarking(kind) == IF kind = "prepay" THEN "materialize" ELSE "credit"

MarkSuccess(h) ==
    LET x == handlers[h].ref IN
    /\ At(h, "markSuccess")
    /\ intents' = [intents EXCEPT ![x].status = "success"]
    /\ Advance(h, AfterMarking(intents[x].kind))
    /\ UNCHANGED <<ledgerVars, gatewayVars, acked, faultVars>>

\* markFailed, and the two mismatch branches of markSuccess: the update does
\* not look at the status the row has by now.
MarkFailed(h) ==
    /\ At(h, "markFailed")
    /\ intents' = [intents EXCEPT ![handlers[h].ref].status = "failed"]
    /\ Return(h)
    /\ UNCHANGED <<ledgerVars, gatewayVars, faultVars>>

\* Seeded fault: the periods billed in the meantime are not left out.
FreshUnchecked(S) == S

Fresh(S) == {i \in S : ~ Exists(i)}

\* materializePrepayFromPlan: the planned periods that have no invoice get
\* one, and the span is recorded when any was created.
Materialize(h) ==
    LET x == handlers[h].ref
        fresh == Fresh(intents[x].target)
    IN
    /\ At(h, "materialize")
    /\ invoices' = [i \in Invoices |->
          IF i \in fresh THEN [status |-> "sent", amount |-> Price[i], amountPaid |-> 0]
                         ELSE invoices[i]]
    /\ coverage' = [coverage EXCEPT ![x] = IF fresh = {} THEN @ ELSE @ + 1]
    /\ Advance(h, "credit")
    /\ UNCHANGED <<payments, intents, gatewayVars, acked, faultVars>>

\* Seeded fault: a reversed receipt does not count as one.
ReceiptCompleted(r) == payments[r].status = "completed"

ReceiptExists(r) == payments[r].status # "none"

\* The receipt of reference r, once: a second call finds it and changes nothing.
\* logPayment is the case of one invoice, logAllocatedPayment the general one.
LogPayment(r, amount, S) ==
    IF ReceiptExists(r)
      THEN UNCHANGED <<invoices, payments>>
      ELSE LET applied == Applied(amount, S)
               first == {i \in S : Exists(i) /\ ~ \E j \in DueBefore(i, S) : Exists(j)}
           IN
           /\ payments' = [payments EXCEPT ![r] =
                 [status |-> "completed", amount |-> amount,
                  amountUnallocated |-> Surplus(amount, applied),
                  invoiceId |-> IF first = {} THEN NoInvoice ELSE CHOOSE i \in first : TRUE,
                  allocations |-> applied]]
           /\ invoices' = [i \in Invoices |->
                 IF applied[i] > 0
                   THEN [invoices[i] EXCEPT
                           !.amountPaid = @ + applied[i],
                           !.status = SettledStatus(invoices[i].amount,
                                                    invoices[i].amountPaid + applied[i])]
                   ELSE invoices[i]]

\* logPayment throws when its invoice is gone; no step of this module removes one.
Creditable(x) == intents[x].kind = "single" => \A i \in intents[x].target : Exists(i)

Credit(h) ==
    LET x == handlers[h].ref IN
    /\ At(h, "credit")
    /\ Creditable(x)
    /\ LogPayment(x, intents[x].amount, intents[x].target)
    /\ Return(h)
    /\ UNCHANGED <<intents, coverage, gatewayVars, faultVars>>

\* Staff log a payment on an invoice; the whole request is one transaction.
LogManualPayment(r, i, amount) ==
    /\ Exists(i)
    /\ LogPayment(r, amount, {i})
    /\ UNCHANGED <<intents, coverage, gatewayVars, acked, handlers, faultVars>>

\* verifyIntent reads the intent, then asks Paystack.
Verify(h, x) ==
    /\ At(h, "idle")
    /\ intents[x].status \in {"pending", "failed"}
    /\ Start(h, "verify", x, "none", NothingAllocated)
    /\ UNCHANGED <<ledgerVars, intents, gatewayVars, acked, faultVars>>

\* A charged transaction goes through handleWebhookEvent, which reads the
\* intent again; any other final answer goes straight to markFailed. Paystack
\* calls a transaction nobody has finished 'abandoned' or still pending.
VerifyAnswer(h) ==
    LET x == handlers[h].ref IN
    /\ At(h, "verify")
    /\ \/ /\ gateway[x] \in {"charged", "mischarged"}
          /\ intents[x].status # "success"
          /\ Advance(h, MarkStep(IF gateway[x] = "charged" THEN "success" ELSE "mismatch"))
          /\ UNCHANGED acked
       \/ /\ gateway[x] \in {"charged", "mischarged"}
          /\ intents[x].status = "success"
          /\ Return(h)
       \/ /\ gateway[x] \in {"open", "failed", "refunded"}
          /\ Advance(h, "markFailed")
          /\ UNCHANGED acked
       \/ /\ gateway[x] = "open"
          /\ Return(h)
    /\ UNCHANGED <<ledgerVars, intents, gatewayVars, faultVars>>

-----------------------------------------------------------------------------
(* Reversals. *)

\* reversePayment reads the payment and its allocations before any lock.
ReadPayment(h, r, event) ==
    /\ h \in RefundHandlers
    /\ At(h, "idle")
    /\ payments[r].status = "completed"
    /\ Start(h, "reverse", r, event, payments[r].allocations)
    /\ UNCHANGED <<ledgerVars, intents, gatewayVars, acked, faultVars>>

\* POST /payments/:id/reverse.
RequestReversal(h, r) == ReadPayment(h, r, "none")

\* reverseByReference; a refund without a completed payment answers 2xx.
ReceiveRefund(h, x) ==
    /\ <<x, "refund">> \in events
    /\ \/ ReadPayment(h, x, "refund")
       \/ /\ At(h, "idle")
          /\ payments[x].status # "completed"
          /\ acked' = acked \cup {<<x, "refund">>}
          /\ UNCHANGED <<ledgerVars, intents, gatewayVars, handlers, faultVars>>

\* The rest of reversePayment, which holds the invoice rows locked: it gives
\* back the allocations it read, whatever has become of the payment since.
ReversePayment(h) ==
    LET r == handlers[h].ref
        given == handlers[h].allocations
        left(i) == GivenBack(invoices[i].amountPaid, given[i])
    IN
    /\ At(h, "reverse")
    /\ invoices' = [i \in Invoices |->
          IF given[i] > 0 /\ Exists(i)
            THEN [invoices[i] EXCEPT !.amountPaid = left(i),
                                     !.status = RestoredStatus(invoices[i].amount, left(i))]
            ELSE invoices[i]]
    /\ payments' = [payments EXCEPT ![r] =
          [@ EXCEPT !.status = "reversed", !.amountUnallocated = 0,
                    !.allocations = NothingAllocated]]
    /\ Return(h)
    /\ UNCHANGED <<intents, coverage, gatewayVars, faultVars>>

\* The process dies or a call throws (a lost connection, a transaction that
\* times out or deadlocks, a unique violation): what was committed stays.
Interrupt(h) ==
    /\ ~ At(h, "idle")
    /\ interrupts < MaxInterrupts
    /\ interrupts' = interrupts + 1
    /\ interrupted' = IF handlers[h].step \in {"materialize", "credit"}
                        THEN interrupted \cup {handlers[h].ref} ELSE interrupted
    /\ handlers' = [handlers EXCEPT ![h] = Idle]
    /\ UNCHANGED <<ledgerVars, intents, gatewayVars, acked>>

-----------------------------------------------------------------------------
BillStep == \E i \in Invoices : CreateInvoice(i) \/ GenerateCharge(i)

CheckoutStep == \E x \in Intents :
    \/ \E i \in Invoices : CreateIntent(x, i)
    \/ \E S \in SUBSET Invoices : CreateMultiInvoiceIntent(x, S)
    \/ \E S \in SUBSET Periods : Prepay(x, S)

PaystackStep == \E x \in Intents :
    ChargeFails(x) \/ ChargeSucceeds(x) \/ ChargeMismatches(x) \/ Refund(x)

Receive(h) == \E x \in Intents :
    \/ \E outcome \in ChargeOutcomes : ReceiveCharge(h, x, outcome)
    \/ ReceiveRefund(h, x)

\* What a handler does once its request has begun.
Proceed(h) ==
    \/ MarkSuccess(h) \/ MarkFailed(h) \/ Materialize(h) \/ Credit(h)
    \/ VerifyAnswer(h) \/ ReversePayment(h)

StaffStep ==
    \E r \in ManualRefs, i \in Invoices, amount \in ManualAmounts :
        LogManualPayment(r, i, amount)

Next ==
    \/ BillStep \/ CheckoutStep \/ PaystackStep \/ StaffStep
    \/ \E h \in Handlers :
         \/ Receive(h) \/ Proceed(h) \/ Interrupt(h)
         \/ \E x \in Intents : Verify(h, x)
         \/ \E r \in Refs : RequestReversal(h, r)

Spec == Init /\ [][Next]_vars

-----------------------------------------------------------------------------
(* Fairness, for the liveness properties: a request that has begun goes on, *)
(* and Paystack retries an event until it sees a 2xx for it.                *)

Deliver(x, kind) ==
    /\ <<x, kind>> \notin acked
    /\ \E h \in Handlers :
         \/ kind \in ChargeOutcomes /\ ReceiveCharge(h, x, kind)
         \/ kind = "refund" /\ ReceiveRefund(h, x)

Fairness ==
    /\ \A h \in Handlers : WF_vars(Proceed(h))
    /\ \A x \in Intents, kind \in EventKinds : SF_vars(Deliver(x, kind))

FairSpec == Spec /\ Fairness

-----------------------------------------------------------------------------
(* Properties. *)

\* However payments and reversals of an invoice interleave, its amountPaid
\* never passes its amount: a surplus is parked on the payment instead
\* (payments.service.ts, logPayment and logAllocatedPayment).
NeverOverpaid == \A i \in Invoices : invoices[i].amountPaid <= invoices[i].amount

\* The status of an invoice and its amountPaid tell the same story, although
\* three transactions write both of them, each from its own reading.
StatusAgrees ==
    \A i \in Invoices :
        Exists(i) =>
          LET row == invoices[i] IN
          /\ row.status \in {"draft", "sent"} <=> row.amountPaid = 0
          /\ row.status = "partial" <=> row.amountPaid > 0 /\ row.amountPaid < row.amount
          /\ row.status = "paid" <=> row.amountPaid = row.amount

\* Only money Paystack took, in the amount and currency asked for, is credited,
\* in whatever order webhook and verify call report it.
CreditNeedsCharge ==
    \A x \in Intents :
        payments[x].status # "none" =>
            /\ gateway[x] \in {"charged", "refunded"}
            /\ payments[x].amount = intents[x].amount

\* The ledger loses no money: what a completed payment brought is allocated
\* to invoices or parked as surplus; a reversed one leaves nothing behind.
MoneyConserved ==
    \A r \in Refs :
        LET p == payments[r]
            allocated == SumFunction(p.allocations)
        IN  IF p.status = "completed"
              THEN p.amount = allocated + p.amountUnallocated
              ELSE allocated = 0 /\ p.amountUnallocated = 0

Ledger(i) == SumFunction([r \in Refs |-> payments[r].allocations[i]])

\* The cache never claims more than the allocations hold ("server-authoritative
\* cache of SUM(PaymentAllocation.amount)", schema.prisma), although reversals give
\* back what they read before they locked anything. It may claim less: see
\* SecondReverseIsNoOp.
NeverOverstated == \A i \in Invoices : invoices[i].amountPaid <= Ledger(i)

\* "idempotent (a second reverse is a no-op)" (payments.service.ts, reversePayment):
\* reversing a payment that is reversed by now changes neither it nor an invoice.
SecondReverseIsNoOp ==
    [][\A h \in Handlers :
         ReversePayment(h) /\ payments[handlers[h].ref].status = "reversed"
           => UNCHANGED <<invoices, payments>>]_vars

\* An intent in 'success' has its payment, or a handler that is still on its
\* way to log it, unless that handler was interrupted (markSuccess).
SuccessIsCredited ==
    \A x \in Intents :
        intents[x].status = "success" =>
            \/ payments[x].status # "none"
            \/ \E h \in Handlers :
                  handlers[h].ref = x /\ handlers[h].step \in {"materialize", "credit"}
            \/ x \in interrupted

\* A prepaid span is recorded at most once, although the webhook and the verify
\* call may both find the intent unpaid and both materialize its plan.
CoveredOnce == \A x \in Intents : coverage[x] <= 1

\* A receipt is written once and reversed once; no redelivered event revives
\* a reversed payment or credits a reference again.
ReceiptIsFinal ==
    [][\A r \in Refs :
         /\ payments[r].status = "completed" =>
               /\ payments'[r].status \in {"completed", "reversed"}
               /\ payments'[r].amount = payments[r].amount
               /\ payments'[r].status = "completed" => payments'[r] = payments[r]
         /\ payments[r].status = "reversed" => payments'[r] = payments[r]]_vars

\* What Paystack charged reaches the ledger: its event is redelivered until it
\* has been handled, and handlers that began run on.
ChargeIsCredited ==
    \A x \in Intents : gateway[x] = "charged" ~> payments[x].status # "none"

-----------------------------------------------------------------------------
(* The inductive invariant behind the safety properties: what a handler may *)
(* rely on at each step although other handlers run between its steps.      *)

Charged(x) == gateway[x] \in {"charged", "refunded"}

HandlerOK(h) ==
    LET step == handlers[h].step
        r == handlers[h].ref
    IN
    /\ step \in {"markSuccess", "markFailed", "materialize", "credit", "verify"} =>
          r \in Intents /\ intents[r].status # "none"
    /\ step \in {"markSuccess", "materialize", "credit"} => Charged(r)
    /\ step = "reverse" => r \in Refs /\ payments[r].status # "none"

HandlersOK == \A h \in Handlers : HandlerOK(h)

PaystackOK ==
    \A x \in Intents :
        /\ <<x, "success">> \in events => Charged(x)
        /\ (\E kind \in EventKinds : <<x, kind>> \in events) => intents[x].status # "none"
        /\ gateway[x] # "open" => intents[x].status # "none"

RowsOK ==
    \A i \in Invoices :
        IF Exists(i) THEN invoices[i].amount > 0 ELSE invoices[i] = NoInvoiceRow

ReversedIsEmpty ==
    \A r \in Refs :
        payments[r].status = "reversed" =>
            payments[r].amountUnallocated = 0 /\ payments[r].allocations = NothingAllocated

CoreInv == TypeOK /\ HandlersOK /\ PaystackOK

IInv ==
    /\ CoreInv /\ RowsOK /\ ReversedIsEmpty
    /\ NeverOverpaid /\ StatusAgrees /\ CreditNeedsCharge /\ SuccessIsCredited

(* What is inductive beside it, behind the properties about sums. *)

AbsentIsEmpty ==
    \A r \in Refs : payments[r].status = "none" => payments[r] = NoPaymentRow

\* A recorded span stays billed: a second materialization finds nothing to do.
SpansAreBilled ==
    \A x \in Intents :
        coverage[x] > 0 =>
            /\ intents[x].status # "none"
            /\ \A i \in intents[x].target : Exists(i)

LedgerInv == AbsentIsEmpty /\ MoneyConserved /\ SpansAreBilled /\ CoveredOnce

\* What a reversal has read of its payment is still so, or the payment was
\* reversed meanwhile.
ReadingsHold ==
    \A h \in Handlers :
        At(h, "reverse") =>
            LET p == payments[handlers[h].ref] IN
            \/ p.status = "completed" /\ p.allocations = handlers[h].allocations
            \/ p.status = "reversed"

CacheInv == ReadingsHold /\ NeverOverstated

-----------------------------------------------------------------------------
(* Refinement of Settlement. *)

chargedIntents == {x \in Intents : gateway[x] \in {"charged", "refunded"}}
ledgerOf(status) == IF status = "none" THEN "nothing"
                    ELSE IF status = "completed" THEN "credited" ELSE "reversed"

S == INSTANCE Settlement WITH
        charged <- chargedIntents,
        ledger <- [x \in Intents |-> ledgerOf(payments[x].status)]

\* Whatever webhook, verify call and reversal do together, each checkout goes
\* through the ledger as Settlement says: charged, credited once, reversed once.
SettlesOnce == S!Spec

\* The same with its liveness: charged money is credited.
Settles == S!FairSpec

=============================================================================
