--------------------------- MODULE LedgerBackfill ---------------------------
(***************************************************************************)
(* PaymentsService.backfillLedger beside the ledger of Payments. A server  *)
(* instance runs it when it boots, and again when an administrator asks    *)
(* for it: it gives the payments from before there were allocations their  *)
(* PaymentAllocation rows, each in a transaction, and then recomputes      *)
(* amountPaid of the invoices it has touched, with a read and a write.     *)
(***************************************************************************)
EXTENDS Payments

CONSTANTS
    Legacy,        \* payments logged before there were allocations
    LegacyAmount,  \* what each of them brought
    Servers,       \* server instances
    MaxRuns        \* bound on the runs of the backfill

ASSUME BackfillAssumption ==
    /\ Legacy \subseteq ManualRefs
    /\ LegacyAmount \in [Legacy -> Nat \ {0}]
    /\ MaxRuns \in Nat

VARIABLES
    up,          \* servers that serve requests
    backfill,    \* the run of each server
    runs         \* how many runs were begun

migrationVars == <<up, backfill, runs>>

Run == [step : {"idle", "allocate", "recompute", "write"},
        todo : SUBSET Refs,                 \* payments it has selected
        touched : SUBSET Invoices,          \* invoices it has yet to recompute
        invoice : Invoices \cup {NoInvoice}, sum : Nat]

NoRun == [step |-> "idle", todo |-> {}, touched |-> {}, invoice |-> NoInvoice, sum |-> 0]

\* What the legacy payments of an invoice brought together.
LegacyPaid(i) ==
    SumFunctionOnSet(LegacyAmount, {r \in Legacy : payments[r].invoiceId = i})

\* The row of an invoice that legacy payments have paid.
LegacyBill(i, amountPaid) ==
    IF LegacyPaid(i) = 0 THEN NoInvoiceRow
    ELSE [status |-> SettledStatus(Price[i], LegacyPaid(i)), amount |-> Price[i],
          amountPaid |-> amountPaid]

LegacyReceipt(r, i, allocations) ==
    [status |-> "completed", amount |-> LegacyAmount[r], amountUnallocated |-> 0,
     invoiceId |-> i, allocations |-> allocations]

\* A legacy payment has set the status of its invoice, but no amountPaid.
MigrationInit ==
    /\ \E owner \in [Legacy -> Invoices] :
         payments = [r \in Refs |->
            IF r \in Legacy THEN LegacyReceipt(r, owner[r], NothingAllocated)
            ELSE NoPaymentRow]
    /\ invoices = [i \in Invoices |-> LegacyBill(i, 0)]
    /\ intents = [x \in Intents |-> NoIntentRow]
    /\ coverage = [x \in Intents |-> 0]
    /\ gateway = [x \in Intents |-> "open"]
    /\ events = {} /\ acked = {}
    /\ handlers = [h \in Handlers |-> Idle]
    /\ interrupts = 0 /\ interrupted = {}
    /\ up = {} /\ backfill = [s \in Servers |-> NoRun] /\ runs = 0

-----------------------------------------------------------------------------
\* Seeded fault: the payments of bills that are settled are taken for migrated.
UnallocatedOfOpenBills ==
    {r \in Refs : /\ payments[r].status = "completed"
                  /\ payments[r].invoiceId # NoInvoice
                  /\ payments[r].allocations = NothingAllocated
                  /\ invoices[payments[r].invoiceId].status # "paid"}

\* The payments the backfill takes for legacy rows.
Unallocated ==
    {r \in Refs : /\ payments[r].status = "completed"
                  /\ payments[r].invoiceId # NoInvoice
                  /\ payments[r].allocations = NothingAllocated}

\* It selects some of them, as long as there are any.
Batches == IF Unallocated = {} THEN {{}} ELSE (SUBSET Unallocated) \ {{}}
StepAfter(batch) == IF batch = {} THEN "recompute" ELSE "allocate"

Migrating(s, step) == backfill[s].step = step

Begin(s) ==
    /\ Migrating(s, "idle")
    /\ runs < MaxRuns
    /\ runs' = runs + 1
    /\ \E batch \in Batches :
         backfill' = [backfill EXCEPT ![s].step = StepAfter(batch), ![s].todo = batch]
    /\ UNCHANGED <<vars, up>>

\* Seeded fault: nothing keeps a payment from a second allocation to its invoice.
AllocationUnchecked(r, i) == FALSE

\* The unique key of an allocation is its payment and its invoice.
AllocationExists(r, i) == payments[r].allocations[i] > 0

\* One payment, one transaction: the allocation is for the payment's whole
\* amount. Where it has one already, or the transaction fails otherwise, the
\* payment is skipped with a warning.
Allocate(s, r) ==
    LET i == payments[r].invoiceId IN
    /\ Migrating(s, "allocate")
    /\ r \in backfill[s].todo
    /\ \/ /\ backfill' = [backfill EXCEPT ![s].todo = @ \ {r}]
          /\ UNCHANGED payments
       \/ /\ ~ AllocationExists(r, i)
          /\ payments' = [payments EXCEPT ![r].allocations[i] = @ + payments[r].amount]
          /\ backfill' = [backfill EXCEPT ![s].todo = @ \ {r}, ![s].touched = @ \cup {i}]
    /\ UNCHANGED <<invoices, intents, coverage, gatewayVars, acked, handlers, faultVars,
                   up, runs>>

\* A batch is done: it selects again, until nothing is left.
NextBatch(s) ==
    /\ Migrating(s, "allocate")
    /\ backfill[s].todo = {}
    /\ \E batch \in Batches :
         backfill' = [backfill EXCEPT ![s].step = StepAfter(batch), ![s].todo = batch]
    /\ UNCHANGED <<vars, up, runs>>

SumOfAllocations(i) == Ledger(i)

Aggregate(s, i) ==
    /\ Migrating(s, "recompute")
    /\ i \in backfill[s].touched
    /\ backfill' = [backfill EXCEPT ![s].step = "write", ![s].invoice = i,
                                    ![s].sum = SumOfAllocations(i),
                                    ![s].touched = @ \ {i}]
    /\ UNCHANGED <<vars, up, runs>>

WriteAmountPaid(s) ==
    /\ Migrating(s, "write")
    /\ invoices' = [invoices EXCEPT ![backfill[s].invoice].amountPaid = backfill[s].sum]
    /\ backfill' = [backfill EXCEPT ![s].step = "recompute", ![s].invoice = NoInvoice,
                                    ![s].sum = 0]
    /\ UNCHANGED <<payments, intents, coverage, gatewayVars, acked, handlers, faultVars,
                   up, runs>>

\* The run is over: a server that was booting serves from now on.
Finish(s) ==
    /\ Migrating(s, "recompute")
    /\ backfill[s].touched = {}
    /\ backfill' = [backfill EXCEPT ![s] = NoRun]
    /\ up' = up \cup {s}
    /\ UNCHANGED <<vars, runs>>

\* An error ends the run: onModuleInit logs it and the server serves all the same.
Fail(s) ==
    /\ ~ Migrating(s, "idle")
    /\ interrupts < MaxInterrupts
    /\ interrupts' = interrupts + 1
    /\ backfill' = [backfill EXCEPT ![s] = NoRun]
    /\ up' = up \cup {s}
    /\ UNCHANGED <<ledgerVars, intents, gatewayVars, acked, handlers, interrupted, runs>>

\* A server stops; the requests it had in flight are cut off.
Stop(s) ==
    /\ s \in up
    /\ Migrating(s, "idle")
    /\ up' = up \ {s}
    /\ \E lost \in SUBSET Handlers :
         /\ up' = {} => lost = Handlers
         /\ handlers' = [h \in Handlers |-> IF h \in lost THEN Idle ELSE handlers[h]]
         /\ interrupted' = interrupted \cup
                {x \in Intents : \E h \in lost :
                    handlers[h].ref = x /\ handlers[h].step \in {"materialize", "credit"}}
    /\ UNCHANGED <<ledgerVars, intents, gatewayVars, acked, interrupts, backfill, runs>>

MigrationStep(s) ==
    \/ Begin(s) \/ NextBatch(s) \/ WriteAmountPaid(s) \/ Finish(s) \/ Fail(s) \/ Stop(s)
    \/ \E r \in Refs : Allocate(s, r)
    \/ \E i \in Invoices : Aggregate(s, i)

MigrationNext ==
    \/ \E s \in Servers : MigrationStep(s)
    \/ up # {} /\ Next /\ UNCHANGED migrationVars

MigrationSpec == MigrationInit /\ [][MigrationNext]_<<vars, migrationVars>>

-----------------------------------------------------------------------------
(* Properties. *)

\* No payment is allocated beyond what it brought, although several servers may
\* select it together, reverse it meanwhile, or take one of today for a legacy row
\* (payments.service.ts, backfillLedger).
NeverAllocatedTwice ==
    \A r \in Refs : SumFunction(payments[r].allocations) <= payments[r].amount

\* A run that goes on to recompute amountPaid has left no legacy payment without
\* its allocation, whichever server wrote it ("in batches until none remain",
\* payments.service.ts, backfillLedger).
LeavesNoneBehind ==
    \A s \in Servers :
        backfill[s].step \in {"recompute", "write"} =>
            \A r \in Legacy :
                payments[r].status = "completed" => payments[r].allocations # NothingAllocated

\* "Safe to re-run: it only touches legacy rows that haven't been migrated yet"
\* (payments.service.ts, onModuleInit).
TouchesLegacyOnly ==
    [][\A s \in Servers, r \in Refs \ Legacy : Allocate(s, r) => UNCHANGED payments
      ]_<<vars, migrationVars>>

-----------------------------------------------------------------------------
(* What is inductive behind them. *)

\* A selected payment has nothing on any other invoice than its own.
SelectedOK ==
    \A s \in Servers : \A r \in backfill[s].todo :
        LET p == payments[r] IN
        /\ p.status # "none" /\ p.invoiceId \in Invoices
        /\ \A i \in Invoices \ {p.invoiceId} : p.allocations[i] = 0

LegacyStays ==
    \A r \in Legacy : payments[r].status # "none" /\ payments[r].invoiceId \in Invoices

MigrationInv ==
    /\ CoreInv /\ backfill \in [Servers -> Run]
    /\ SelectedOK /\ LegacyStays /\ NeverAllocatedTwice /\ LeavesNoneBehind

=============================================================================
