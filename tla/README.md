# Verification of the HOA platform

TLA+ models of HOA-API (`src/HOA-API`), the NestJS service behind the managers'
application (HOA-ENTERPRISE) and the residents' application (HOA-RESIDENTS) of a
homeowners' association platform, their TLC configurations, and theorems about
them that TLAPS checks.

1. [The system](#1-the-system)
2. [What is modelled](#2-what-is-modelled)
3. [How to read the models](#3-how-to-read-the-models)
4. [Payments](#4-payments), [ledger backfill](#5-ledger-backfill),
   [billing desk](#6-billing-desk), [outbound webhooks](#7-outbound-webhooks),
   [transactional mail](#8-transactional-mail), [payables](#9-payables),
   [billing](#10-billing-charges-and-late-fees), [casework](#11-casework)
5. [Runs, bounds, fairness](#12-runs-bounds-fairness)
6. [What is proved](#13-what-is-proved)
7. [Disagreements between code and documents](#14-disagreements-between-code-and-documents)
8. [What is not modelled, and the plan](#15-what-is-not-modelled-and-the-plan)

## 1. The system

HOA-API is one stateless Node process, of which several may run, over PostgreSQL
(Prisma) and Redis (BullMQ). All shared state is in tables. A request is an async
function: between two `await`s of one request any other request, job or instance
runs. A `$transaction` runs at read committed unless it locks rows itself
(`SELECT ... FOR UPDATE`); outside one every statement commits alone. Nothing
retries a request but its caller, and a process may stop between any two awaits.

| part | state it keeps | operations | talks to |
|---|---|---|---|
| checkout intents (`payments/payment-intents.service.ts`) | `PaymentIntent`, `PrepaymentCredit` | createIntent, createMultiInvoiceIntent, prepay, handleWebhookEvent, verifyIntent | Paystack; payments; unit billing |
| payments and ledger (`payments/payments.service.ts`) | `Payment`, `PaymentAllocation`, `Invoice.amountPaid/status` | logPayment, logAllocatedPayment, reversePayment, reverseByReference, backfillLedger | intents, plans (`onInstallmentInvoicePaid`) |
| invoices (`invoices/invoices.service.ts`) | `Invoice` | create, send, void, bulkDeleteUnpaid | numbering, mail |
| payment plans (`billing/payment-plans.service.ts`) | `PaymentPlan`, `PaymentPlanInstallment`, `Invoice.status` | create, activate, cancel, materializeDueInstallments, onInstallmentInvoicePaid | a daily job, payments |
| late fees, recurring invoices, unit billing (`billing/`) | `Invoice`, `LateFeeConfig`, `RecurringInvoiceSchedule`, `UnitBilling` | daily and hourly sweeps, switching on and off, prepayment | invoices, numbering |
| vendor invoices (`vendors/`) | `VendorInvoice`, `Approval`, `ApprovalRule` | create, update, approve, reject, pay, cancel | mail |
| outbound webhooks (`platform/webhooks.service.ts`) | `WebhookEndpoint`, `WebhookDelivery` | emit, attemptDelivery, deliverPending, administration | receivers; every service that emits |
| mail (`mail/mail.service.ts`) | `EmailDelivery` | enqueue, deliver, deliverPending, resendDelivery, handleResendWebhook | Resend; every service that mails |
| idempotency keys (`common/idempotency.ts`) | `IdempotencyKey` | an interceptor around marked routes | every such route |
| votes, tenders, passes, violations, requests, bank periods, erasures, broadcasts, invitations | a row with a status, and rows that belong to it | see their services and section 11 | mail, notifications, invoices |
| sessions, MFA, magic links (`security/`, `auth/`) | tokens and their uses | refresh, revoke, consume | mail |
| audit log (`audit/`, `common/prisma.service.ts`) | a hash chain of rows | written by an extension of the Prisma client | all |

`PROJECT.json` lists every component with the files it stands for, and every
hazard we know of with the line where it bites and the properties that watch it.

What is hard in this code is always of one kind: **a row is read, something is
awaited, and a decision that was made on the first reading is then written.** The
services answer it with one of four devices, and each module is built to tell
whether the device is enough where it is used:

- a row lock (`FOR UPDATE`) before the read: the ledger;
- a conditional update that claims the row (`updateMany where status = ...`):
  webhook and mail workers, activation and cancellation of plans;
- a unique key, with the violation treated as "somebody else did it": receipts,
  installment invoices, mails;
- nothing, when a row is updated by its id.

What makes each part correct:

- *payments*: what Paystack charged is credited once and nothing else is; no
  invoice is paid beyond its amount; `amountPaid` and `status` agree, and neither
  claims more than was allocated; a reversal is final.
- *backfill*: each legacy payment gets its allocation, once, and none is left
  behind, although two servers boot together and one may be serving.
- *plans*: the installments add up to the total; a plan completes when, and only
  when, all its installments were paid; an invoice is on hold only as long as a
  plan in force holds it.
- *webhooks, mail*: one sender at a time, final verdicts, a verdict for every row; what
  was accepted is not sent again, and what has attempts left is not given up.
- *payables*: nothing is paid before its approvals meet its rule, they come from
  different people, and an invoice that has them moves on.
- *charges, late fees*: a unit is billed once for a month of a charge and no period is
  skipped, whichever way a charge is billed; fees do not stack.
- *casework*: the status of a row and the rows that belong to it tell one story; what
  may be done once is done once.

## 2. What is modelled

| module | what it is |
|---|---|
| `Payments` | checkout, Paystack's webhook, verify, ledger, reversals (one module: they share every table) |
| `Settlement` | abstract specification: money charged is credited once, and what is reversed stays so; `Payments` implements it |
| `LedgerBackfill` | extends `Payments` by the boot-time migration, its servers and their restarts |
| `BillingDesk` | invoices on the office's side and payment plans, with what payments do to an invoice |
| `WebhookDelivery` | endpoints, delivery rows, workers |
| `MailOutbox` | mail rows, workers, staff, reports of the provider |
| `Payables` | vendor invoices, approval rules, approvals |
| `InFlight` | the requests in flight of the modules below |
| `Charges`, `LateFees` | recurring invoices and unit billing; late fees |
| `Tenders`, `Passes`, `Violations`, `ResidentRequests`, `Reconciliation`, `Erasures`, `Broadcasts`, `Ballots`, `Invites` | one service each |
| `Idempotency` | a client that retries, and the interceptor that it relies on |
| `Casework` | the ten modules above side by side: one of them moves in a behaviour |
| `PaymentsProofs`, `DeskProofs`, `WebhookProofs`, `MailProofs`, `PayablesProofs`, `BillingProofs`, `CaseworkProofs` | theorems: of `Payments` and `LedgerBackfill`; of `BillingDesk`; ...; of `Charges` and `LateFees`; of `Casework` |
| `Sums` | lemmas about sums over finite sets, for `PaymentsProofs` and `DeskProofs` |
| `MC...` | instances for TLC; `MCProgress`, `MCBackOffice`, `MCReceivables` (and in it `MCBilling`) hold modules side by side |

`LedgerBackfill` composes with `Payments` by `EXTENDS`: its next-state relation
has every step of `Payments` whenever a server is up. `BillingDesk` overlaps with
`Payments` in the invoice row only; it keeps of `logPayment` and `reversePayment`
what they do to that row, and `Payments` leaves out the two statuses, `voided`
and `on_plan`, that only the desk writes. (No guard of the payment code reads
either of them, so the payment code is the same with and without them.)
`Charges` and `LateFees` overlap with both in the invoice row, again with what the
others do to it as actions of their own (`VoidCharge`, `Materialize`; `PayInvoice`,
`ReversePayment`).

## 3. How to read the models

A request or job in flight is a record: `handlers` in `Payments`, `tasks` in
`BillingDesk`, `workers` in `WebhookDelivery` and `MailOutbox`, `calls` in `Payables`,
`requests` in the rest. Its `step` says which `await` it is
at, its other fields hold what it has read and will use later. One action is one
awaited statement, or one `$transaction` whose reads follow its locks, with all
the control around it. Stale reads, lost updates and crashes between two
statements are then interleavings like any other.

- *External parties* (Paystack, Resend, receivers of webhooks) are actions that
  choose an outcome; their events are sets from which nothing is removed, so they
  can be delivered late, twice, in any order, or never.
- *Time* is abstract: a backoff or a due date may be over at any moment.
- *A crash or an error* is `Interrupt` (or `InterruptWorker`): the handler is gone,
  what it committed stays. A lost connection, a deadlock victim and a unique violation
  inside a transaction look the same from outside. It is bounded by `MaxInterrupts`
  (`MaxWorkerInterrupts`, `MaxMailInterrupts`; by `MaxEdits` at the desk), and
  *history variables* (`interrupted`, `orphans`) remember whom it
  hit, so that a property can say "unless its worker was interrupted" rather than
  nothing. History variables are never read by a guard.
- *Where a row is written by its id*, overlaps really lose things, and no property
  without an exception would hold. The exception is then recorded at the write that
  makes it, as narrowly as we can (`crossed`, `stale`, `overlapped`, `doubtful`,
  `late`, ...: written over something that had not been read), and the property says
  that nothing else goes wrong. Each such variable is explained where it is declared;
  none is read by a guard. What it records is a defect of the code or a risk that it
  takes, and not caught by the property; the hazard's note in `PROJECT.json` says which.
- *`InFlight`* has `Begin`, `Continue` and `Finish`, which change one request. An
  action called `ReadToX` is the part of operation X before its last await: it checks
  and remembers what it read. `X` writes. `Abort` (`AbortCharge`) is an error, a crash, or a caller who
  never sends the request. `begun` counts the requests and is bounded by `MaxBegun`.
- *`Casework`, `MCBilling`, `MCReceivables`, `MCBackOffice` and `MCProgress`* hold
  services that share no state. In a behaviour only one of them, the `part`, moves: the
  state spaces add up instead of multiplying, and nothing is lost, since no service reads
  another's rows.
- *Data* that no property tells apart (names, currencies, templates, secrets,
  signatures, notes) is left out. Amounts are integers of the smallest unit.
- *Seeded faults* are operators marked so in a comment. No action uses them; each
  replaces one operator of the code to show that a property notices.

## 4. Payments

Tables: `invoices`, `payments` with their allocations, `intents`, `coverage` (the
number of `PrepaymentCredit` rows of an intent). Paystack: `gateway` (its own
record), `events`, `acked`.

| action | code |
|---|---|
| `CreateInvoice`, `GenerateCharge` | `InvoicesService.create`, `UnitBillingService.generateForType` |
| `CreateIntent`, `CreateMultiInvoiceIntent`, `Prepay` | the three ways to open a checkout |
| `ChargeFails`, `ChargeSucceeds`, `ChargeMismatches`, `Refund` | Paystack |
| `ReceiveCharge` | `handleWebhookEvent` up to its decision on the status it read |
| `MarkSuccess`, `MarkFailed` | the update of the intent, a statement of its own |
| `Materialize` | `materializePrepayFromPlan`, one transaction |
| `Credit` | `logPayment` or `logAllocatedPayment`, one transaction |
| `LogManualPayment` | staff log cash or a transfer |
| `Verify`, `VerifyAnswer` | `verifyIntent` before and after it awaits Paystack |
| `RequestReversal`, `ReceiveRefund`, `ReversePayment` | `reversePayment`: the unlocked read, then the rest |
| `Interrupt` | a crash, a lost connection or an aborted transaction |

Properties: `NeverOverpaid`, `StatusAgrees`, `MoneyConserved`, `NeverOverstated`,
`SuccessIsCredited`, `CoveredOnce` (invariants), `SettlesOnce` and `Settles`
(refinement of `Settlement`, the second with its liveness). `CreditNeedsCharge` and
`ReceiptIsFinal` are proved.

`amountPaid` is not the sum of the allocations in every state the code can reach:
`reversePayment` reads the payment before it locks anything, so that two of them
subtract the same allocations (`SecondReverseIsNoOp`, refuted by `finding_reversal`). What
holds, with any number of reversals, is that the cache never claims more than the
allocations hold (`NeverOverstated`): an invoice may look less paid than it is, never more.

Notes. `CreateIntent` is one action although the code first asks Paystack for a
URL and then inserts the row: nobody can pay before the URL is returned, which is
after the insert. The due dates are distinct, since the order of equal ones is
the database's choice and no property depends on it. The mock provider of the
development mode behaves as a Paystack that succeeds at once. What follows a
commit (mail, notifications, webhooks, `onInstallmentInvoicePaid`) is in the
other modules or left out. `RateRise` is what the daily billing may charge beyond what
the checkout was quoted; in `payments_safety` it is 1, so that a prepayment may fall short
of a period that was billed dearer meanwhile. `CreateIntent` computes what is owed from payments by
`invoiceId`, as the code does, and not from `amountPaid`; so a checkout may ask
for more, or less, than is owed, and the surplus is parked (`MoneyConserved`).

## 5. Ledger backfill

`LedgerBackfill` starts from the tables of an older version: payments without
allocations, invoices whose status is right and whose `amountPaid` is 0. A server
runs `backfillLedger` before it serves (`onModuleInit` awaits it and swallows its
error); `Begin`, `Allocate`, `NextBatch`, `Aggregate`, `WriteAmountPaid`,
`Finish`, `Fail` are its statements, `Stop` a shutdown. The administrator's route
is `Begin` on a server that is up.

A legacy payment may bring any amount (`LegacyAmount`), and its invoice has the status
that this gives it (`LegacyBill`). A shutdown cuts off requests in flight, so it records
in `interrupted` whose credit it took, as `Interrupt` does.

Any number of servers may run it at once, beside requests: two that boot together, or
the administrator's route of one that serves. `NeverAllocatedTwice` says that no payment
is allocated beyond what it brought, although two runs select it together, a request
reverses it meanwhile, or the run takes a payment of today for a legacy one; it rests on
the unique key of the allocations (`AllocationExists`). `LeavesNoneBehind` says that a run
which goes on to recompute `amountPaid` has left no legacy payment without its allocation,
whichever server wrote that. Both are invariants, and proved without a condition on the
servers or the failures.

A run selects payments that are completed, have an invoice and no allocation. That is so
of a payment of today as well, when its invoice was paid before and all of it was parked
as surplus: `TouchesLegacyOnly`, which the comment on `onModuleInit` promises, is refuted
by `finding_rerun`.

No property speaks of the value that a run writes to `amountPaid`. It is a sum read in
one statement and written in another without a lock, so that under traffic, or beside a
second server, it may be stale; section 14 lists this. The size of a batch, 200, is left
out: a batch is any set of selected payments.

## 6. Billing desk

| action | code |
|---|---|
| `CreateInvoice`; `ReadToSend`, `Send`; `ReadToVoid`, `Void`; `ReadToDelete`, `Delete` | `InvoicesService`: the row is read and checked, then written by its id |
| `Pay`, `Reverse` | what `logPayment` and `reversePayment` do to the invoice |
| `ReadToCreate`, `CreatePlan` | `create`: its checks, then its transaction |
| `Activate`, `Cancel` | transactions that claim the plan's row first |
| `ReadToBill`, `Bill` | `materializeDueInstallments`, `materializeInstallmentInvoice` |
| `Settle`, `CountRemaining`, `Commit` | `onInstallmentInvoicePaid`, statement by statement at read committed; `Locked` is the row lock of its first statement |

`OnPlanHasPlan`: two requests may both pass `create`'s check and put one invoice
on two plans, and those may be activated, cancelled and completed in any order
while the invoice is paid, voided or deleted; still no invoice stays on hold
without a plan in force. `CompletedIsPaid` and `InstallmentsTie` are
about the installments; all three are proved, as is `PaidByMoney`: no installment is marked paid before
its invoice was paid in full.

Notes. The reads that `create` makes before its transaction are one step: only
requests that run entirely between two of those reads are lost by that, and the
check that matters, against other plans, is still separated from the write. A plan
over an invoice that another plan has billed is left out. Due dates are abstract.

## 7. Outbound webhooks

One endpoint is enough, as endpoints share nothing. A worker is the request that
emits (one inline try) or a run of the minute job; `FanOut`/`TestFire`, `Enqueue`,
`DeliverPending`, `Pick`, `Claim`, `ReadRow`, `Post`, `RecordSuccess`,
`RecordFailure` are the awaits of `fanOut`, `testFire`, `deliverPending` and
`attemptDelivery`. `CreateEndpoint`, `UpdateEndpoint`, `DeleteEndpoint` are the
administrator; deleting takes the rows along.

Whether the table has the columns that the raw `UPDATE` of a failed delivery names is the
variable `columnsMatch`, one of `Schemas` at the start. With the schema of the repository
it is `FALSE`: the transaction of every failure rolls back, and the delivery stays
`in_progress`. `EveryDeliverySettles`, that each delivery gets its verdict, is therefore
refuted on that schema (`finding_webhook_retry`), and no run claims it of another. The
safety properties are checked on both, since the protocol of retries is in reach only
once the statement works; the proofs cover both, too.

Properties: `OneSender`, `ActiveBelowLimit`, `VerdictIsFinal`. `DeadForCause` and
`OnlyStaffActivates` are proved, as is the bound on the number of POSTs, which is part
of `WebhooksTypeOK`.

## 8. Transactional mail

`Enqueue` (the look-up), `Insert`, `Reset`, `ResendDelivery`, `Claim`, `ReadRow`,
`Send`, `RecordSent`, `RecordFailure` are `enqueue`, `resendDelivery` and
`deliver`; the queued job and the sweep are the same worker. `ReceiveReport` and
`RecordReport` are Resend's webhook, with a report for any message ever accepted
whose id the row still has. `InterruptWorker` has a second form: the update that records
an accepted message throws, and the `catch` block counts a failure.

A row is one (organisation, template, entity, recipient). Where the organisation
or the entity is null, PostgreSQL's unique key does not bind (`schema.prisma:2436`)
and two rows may be written for one event; such mails are two `Mails` here.

`SentOnce`, `AcceptedIsDone` and `AttemptsBounded` are stated for mails that staff
have not sent again: `resendDelivery` and a forced `enqueue` really do start a
second delivery beside a running one. `SentOnce` says that Resend accepts a mail once,
`AcceptedIsDone` that its row is then neither tried again nor given up. `MailSettles` is
the liveness of the sweep; it excepts mails whose worker was stopped (`orphans`), which
stay `sending`.

The comment in `deliver` promises that a mail stays pending as long as it has attempts
left. The claim counts the attempt and the comparison adds one more, so that a mail with
`maxAttempts` = n is given up after n - 1: `FailedHasNoneLeft` is refuted by
`finding_mail_attempts`. `AttemptsBounded`, which is proved, states that bound.

## 9. Payables

| action | code |
|---|---|
| `EditRule` | `ApprovalRulesService.create`, `update`, `remove` |
| `Capture` | `create`: the rule is selected by the amount, one pending `Approval` row for each of its roles |
| `ReadToApprove`, `CountApprovals`, `CommitApproval` | `approve`: the reads; the update of its row and the count; the update of the invoice and the commit |
| `ReadToReject`, `CommitRejection`; `...Pay`, `...Payment`; `...Cancel`, `...Cancellation`; `...Update`, `...Update` | the other operations; `batchPay` is `pay` one after the other |
| `AbortCall` | the transaction fails and keeps nothing |

Every operation is one transaction at read committed. It reads the invoice without a
lock; the `Approval` row it writes stays locked, and unseen by others, until the
commit (`RowLocked`). `CountApprovals` therefore counts its own row and the committed
ones of others: two approvals that count at once may each see themselves short of the
rule, and the invoice stays pending although the rule is met.

`MetIsApproved` (what meets its rule moves on), `FourEyes` (approvals of different
users, none of them the one who captured) and `PaidIsMet` (what is paid meets the rule
it was captured under, and nobody has rejected it) hold but for those overlaps, and
for rules that are edited while an invoice waits under them. The exceptions are just
what the code does not prevent: `skewed`, two approvals that counted at once; `doubled`, a
user with two requests on one invoice in flight, who may fill two rows; `crossed`, a
payment, cancellation or rejection written over another. That a sequential rule is
approved in its order is not stated: two requests may take their turns together.

## 10. Billing: charges and late fees

`Charges`. A charge of the billing catalog is billed by a recurring schedule linked to
it, or unit by unit; a guard (`FreeFor`) keeps the two from being on together, a list
of what was billed (`Billed`) and two unique keys (`Issue`) are the second line. A bill is
kept under the key of a period, `<<term, first month>>` here (`Key`), and each way has a
term of its own: the schedule its `frequency`, the charge its `baseTerm`, of which a unit
keeps the copy that it was attached with (`AttachedAs`). Both may be edited.

| action | code |
|---|---|
| `ReadToEnable`, `Enable`; `ReadToReschedule`, `Reschedule` (a frequency or a day); `Pause` | `RecurringInvoicesService.create` and `update` |
| `EditTerm` | `BillingCatalogService.update` |
| `ReadToRun`, `Run` | `run`, by hand for any period of the schedule's term, or by the daily job |
| `ReadToActivate`, `BulkActivate`; `Attach`, `Update` | `UnitBillingService.bulkActivate`, `attach`, `update` |
| `ReadToGenerate`, `Recheck`, `Generate` | `generateForType` |
| `Quote`, `Materialize` | `computePrepayPeriods`, `materializePrepayFromPlan` |
| `VoidCharge`, `NextMonth` | `InvoicesService.void`; time, at which the daily job has run what was due |

`OneBillPerKey` says that no unit has a bill of both ways *under the same key*, unless the
two ways raced, or a resident prepaid a period that the schedule had billed. Where the two
terms differ the keys do, and neither way sees the other's bill of the month:
`NeverDoubleBilled`, which a comment in `run` promises, is refuted by
`finding_double_bill`, with one request after the other. `NoPeriodSkipped`, an action
property, holds unless `nextRunAt` was moved past a period, by a run for another period or
by an edit of the frequency or the day. `NextMonth` waits for a run that is due: a daily
job that stands still for a month is left out.

`LateFees`. `ReadToSweep` and `Apply` are the two halves of the sweep on one invoice;
`UpsertConfig` edits the policy; `PayInvoice` and `ReversePayment` are what
`PaymentsService` does to the row; `NextDay` is time. `FeeOfOneTier` says that fees do not
stack *on an invoice that has an `originalAmount`*, whatever the sweeps, the edits and
their order; `PaidWithFees` that what is paid is paid with its
fees, unless a sweep that had read the invoice open wrote after the payment. Rounding is
to the cent. On an invoice without `originalAmount`, as staff create them, fees do stack:
`FeesDoNotStack` is refuted by `finding_late_fee`.
Voiding, and the ledger behind the payments, are left out.

## 11. Casework

Each row is a `part` of `Casework`. Every action is a request, in the form of
section 3, unless the table says otherwise.

| module | operations | property |
|---|---|---|
| `Tenders` (`tenders.service.ts`) | open, close, bid, shortlist, put to the board, award, cancel | `AwardDecidesBids`: an awarded tender has its one awarded bid and every other is rejected. `OneExcoVote`: it is put to one vote of the board |
| `Passes` (`passes.service.ts`) | entry with and without override, exit, denial, revocation | `EntriesWithinUses`: no more entries than uses, and the count is that of the log |
| `Violations` (`violations.service.ts`) | notice, fine, acknowledgement, resolution, appeal and its decision | `AppealTies`: under appeal exactly while one appeal is undecided |
| `ResidentRequests` (`requests.service.ts`) | transition, assignment, reply | `FollowsTable`: every change of status is in `ALLOWED_TRANSITIONS`, by whichever operation |
| `Reconciliation` (`bank-transactions.service.ts`) | import, match, exclude, unmatch, lock | `LockedPeriodTies`: in a locked period each line is matched, with one journal entry that stands, or excluded, with none |
| `Erasures` (`privacy.service.ts`) | submission, withdrawal, decision, execution; the end of the waiting window is time | `ErasedAsAsked`: nobody is erased twice, too early, or after having withdrawn |
| `Broadcasts` (`broadcasts.service.ts`) | schedule, cancel, send, recipient by recipient, and again after a failure; opting out | `MailedAsAsked`: a recipient is mailed once, nobody once it is cancelled |
| `Ballots` (`votes.service.ts`) | edit of the draft, seconding, opening, closing, cancelling, ballots, proxies | `OneBallotEach`; `OutcomeCounts`: the outcome of a closed vote is the one its ballots give, each entry of each ballot counted |
| `Idempotency` (`HOA-SDK-JS/src/client.ts`, `common/idempotency.ts`) | `Call`, `Send`, `Receive`, `TimeOut` are the loop of `HoaClient.request`; `LookUp`, `Handle`, `Store`, `Respond` the interceptor; `Expire` the 24 hours | `RetriesAreSafe`: the handler does its work once, and once more for every run that threw after its work; every caller gets the answer of the run that did not |
| `Invites` (`team/invites.service.ts`) | create, resend, revoke, redeem, expiry by look-up and by sweep | `InviteTies`: one invitation pending; the account comes from one, which stays redeemed and was not revoked, expired or replaced |

The exceptions are in the text of each property. Three deserve a word.

- `RetriesAreSafe` excepts handlers that overlapped and responses that were not kept.
  That is not small: the client gives up an attempt after a timeout and sends the next
  one while the server still works on the first, and the interceptor does not know of a
  handler that has not answered. Nor is a run that throws when its work is done: routes of
  `requests.service.ts` commit and then await a notification, others call Paystack before
  they insert. Such a 500 is not stored, and the retry does the work again. `thrown`
  counts those runs (a part of `Handle`, not an exception), and the property bounds the
  work by them.
- `OutcomeCounts` says what `close` does to the ballots that had come: `OptionTotal` adds
  up every entry of `selectedOptionIds`, of which a ballot may have several, or one twice.
  `CeilPercent` rounds as doubles do: `Math.ceil((55 / 100) * 100)` is 56. Which
  percentages do that is the constant `RoundsUp`; an exact tie may be lost by it, and
  nothing else. An edit of the draft may be written at any time and change quorum,
  threshold and options; edits written while the vote closes, or later, are recorded in
  `ruleEdited`, and ballots that come then in `stragglers` and `latePicks`.
- `OneBallotEach` excepts votes whose draft was edited after they were opened. The two
  unique keys differ between anonymous and named ballots, so the edit changes the key.

Left out: who is eligible to vote is a number chosen when the vote is opened; times of
the day at the gate are a choice; attachments, mails and notifications; rendering and
tokens of a broadcast; which roles an invitation gives.

## 12. Runs, bounds, fairness

| run | instance | why it is enough |
|---|---|---|
| `payments_safety` | 2 invoices (one ad hoc, one a period that the daily run or a prepay creates, dearer by 1 than quoted), 1 checkout, 1 cash payment, 2 requests in flight that may both reverse, 1 interruption | two handlers show every pairwise race (webhook and verify, charge and refund, two reversals); two invoices are needed for a lump sum that is split; amounts 1 and 3 against a price of 2 give under-, exact (with the checkout) and overpayment |
| `progress` | the ledger: the same without cash and interruption, under fairness; the mails: 1 mail, 3 workers, 3 attempts, 1 send-again, 1 interruption | the assumptions under which every charge is credited; rows of mails share nothing, and a third worker is the report that comes while two deliver |
| `back_office` | the upgrade: 2 invoices of 2, legacy payments of 1 and of 2, 1 new payment of 2, 2 servers, 3 runs, 1 request, 1 failure; payables: 1 invoice of 2 amounts, 3 users of 2 roles, 2 calls in flight, rules of each mode edited once; webhooks: 2 deliveries, 2 workers, 3 attempts, limit of 2 failures, 1 interruption, both schemas | two servers that boot together, or one that runs beside traffic, and a rerun; a new payment on an invoice that the legacy payment of 2 has paid is all surplus, and the next run takes it for a legacy row; two approvals that count at once; two workers on one row, and two rows to let one reset what the other counts |
| `casework` | 2 items of a kind (bids, appeals, lines, voters, recipients, invitations); 3 requests at a time; 7 requests in all for staff's parts, 5 for invitations, 4 for votes and for a client with one retry per call, 3 for a broadcast | three crossing requests, on one item or on different ones; enough requests to lead a row to its end and one more; a ballot may name an option twice, the two lists of options turn them round, and half of two stands for a product that doubles make too large |
| `receivables` | the desk: 1 source, 2 plans of 2 installments, 2 tasks, 1 void, deletion, reversal or crash, odd price; charges: 1 unit, 4 months, terms of 1 and of 2 months, 3 requests, 2 at a time; fees: an invoice of 200 over 4 days, 3 policies, 3 payments or reversals | two plans over one source is the race of `create`; two installments give a last and a last but one, an odd total a rounding drift; a period before, at and after the one that is billed twice or skipped; policies with a cap, with tiers that differ, and one that an edit lowers |
| `finding_...` | see the head of each cfg | smallest instance that shows it |

Symmetry is used in safety runs only. Where deadlock checking is off the system
may really stop: every invoice deleted, the endpoint deleted, a mail that failed
and may not be sent again, the bound on backfill runs reached, a tender awarded, the
bound on requests reached.

Fairness. `ProgressSpec` (run `progress`) has that of `FairSpec` for the ledger and that of
`FairMailSpec` for the mails; `finding_retry` uses `FairSpec` and `finding_webhook_retry`
`FairWebhooksSpec`. *Weak fairness of a handler's next step*: Node runs a pending
continuation, and the database answers or throws. *Strong fairness of the delivery
of an unacknowledged event*: Paystack repeats it until it sees a 2xx; strong,
since handlers may be busy in between. *Weak fairness of the minute job, strong
fairness of taking up a pending mail*: the repeatable jobs are external, and run
as long as Redis does; the sweep selects all pending rows, in bounded batches by
age, so none is passed over for ever. Nothing is assumed of staff, residents,
receivers or of Paystack's decision to charge.

## 13. What is proved

Every safety property that a passing run checks is also a theorem of the specification of
its module: for every number of invoices, intents, requests, servers, deliveries, mails,
workers, items and every bound, from the named assumptions on the constants and from
nothing else. What a property excepts, its theorem excepts. Only the liveness properties
are left to TLC.

None of the properties is inductive: what a request does in its last step is right
because of what it established several steps ago, and others run in between. The
inductive invariant of each module therefore says three things: what a request carries
at each step and what it may rely on, how far the exceptions of section 3 reach, and
how rows that belong together agree. Those that stand in the module itself (`IInv`,
`LedgerInv`, `CacheInv`, `MigrationInv`, `WebhooksIInv`, `MailIInv`, `PayablesIInv`) can be
given to TLC, as they were before they were proved.

Assumptions. They say that parameters have their types, that model values are
distinct, and that tables have finitely many rows (`IsFiniteSet` of invoices, intents,
hand-written references, sources of a plan, users, items of a case). The order of due
dates is total. No assumption speaks of sums or of what a step does.

*Payments and the backfill* (`PaymentsProofs`)

- `Invariance`, `TypeCorrect`, `NoOverpayment`, `StatusIsRight`, `CreditIsBacked`,
  `SuccessIsBacked`, `ReceiptsAreFinal`, from `IInv`: a handler that credits carries an
  intent that exists and was charged, one that reverses carries a payment that exists
  (`HandlersOK`); what events prove (`PaystackOK`); absent and reversed rows are empty
  (`RowsOK`, `ReversedIsEmpty`).
- `PaymentsSettle`: `Payments` implements `Settlement`. Each step is mapped to `Charge`,
  `Credit`, `Reverse` or a stutter.
- `NoMoneyIsLost` and `SpansRecordedOnce`, from `LedgerInv`: a missing receipt is empty,
  and a recorded span stays billed, so that a second materialization finds nothing to
  do. `AppliedSum` is the lemma about the lump sum: what is applied to a set of bills,
  the oldest first, is never more than there is. It is an induction over due dates.
- `CacheIsBacked`: `amountPaid` is never more than the sum of the allocations, *however
  many requests reverse payments together*. `ReadingsHold` says that what a reversal has
  read is still so, or that its payment has been reversed meanwhile; in the first case it
  gives back what the allocations lose, in the second it gives back something and the
  allocations lose nothing, so that the cache falls below them but not above.
- `AllocatedOnce` and `NoneIsLeftBehind`, of `LedgerBackfill`, *for any number of servers,
  runs, batches and failures, beside any requests*. `MigrationInv` says that a payment
  which a run has selected has nothing on any other invoice than its own (`SelectedOK`),
  so that the unique key is enough to keep its allocations within its amount; that a legacy
  payment stays and keeps its invoice (`LegacyStays`), so that it is selected until it has
  its allocation; and the core of the invariants of `Payments`.

*Plans* (`DeskProofs`)

- `Invariance`, `TypeCorrect`, `HoldsEndWithTheirPlan`, `PlansCompleteByPayment`,
  `InstallmentsPaidByMoney`. `IInv` adds what a task relies on while others run
  (`TasksOK`): a plan that is being created is absent and no other task creates it; a
  task that settles an installment carries one whose invoice was paid in full; what a
  transaction has counted as paid stays paid or loses its invoice until the commit. It
  also says that nothing of a plan is billed before the plan is activated.
- `PlansTie`: the installments add up to the total, for any total and any number of
  installments (`AmountsTie`: the last one absorbs the drift of the rounding).

*Workers* (`WebhookProofs`, `MailProofs`)

- `SingleSender`, `VerdictsAreFinal`, `DeathHasCause`, `StaffActivates`,
  `ActiveStaysBelowLimit`, and `TypeCorrect`, which bounds the number of POSTs. `WebhooksIInv`
  ties the status of a row to the one worker that holds it (`WorkersOK`), and the attempt
  that is stored, the one the worker has read, and the number of POSTs to each other.
- `MailIsSentOnce`, `AttemptsAreBounded`, `AcceptedStaysDone`. `MailIInv` says of a mail that
  staff have not sent again that one worker at most holds it and only while it is
  `sending`, that an attempt is kept in reserve while it waits, and where an accepted
  message may be (`HeldOnce`, `InReserve`, `AcceptedOnce`). A mail whose worker was stopped
  after the acceptance is excepted by the first and the third.

*Payables and billing* (`PayablesProofs`, `BillingProofs`)

- `NoMetInvoiceWaits`, `ManyEyes`, `NothingPaidUnmet`. `PayablesIInv` says what a request
  carries (`RequestOK`), that two requests of one user on one invoice were recorded
  (`OnePerUser`), as were two that count at once (`OneCounts`), and that otherwise what a
  request has counted is still so when it commits (`CountedOK`). That a rule once met
  stays met is a fact about cardinalities (`MetGrows`). `ManyEyes` speaks of the approvals
  of users who had not two requests in flight on one invoice, and of no other.
- `FeesOfOneTier`, `PaidMeansPaid`: what a sweep is about to write is more than what it
  read and, where there is an `originalAmount`, the base and the fee of one tier. Where
  there is none, `FeesOfOneTier` claims nothing.
- `BilledOnce`, `NoneSkipped`: none of the units that a run is going to bill had been
  billed by the other way under its key when it looked, and none is left out that has
  nothing (`KnowsEnough`); a month that is not over and that `nextRunAt` has passed is in a
  period of the schedule's frequency that is billed or was recorded as jumped, or in that
  of the next run (`OnTime`, kept as long as the schedule is: `StillOnTime`; that a month
  between two of one period is in it, too, is `KeyBetween`). `BilledOnce` is about bills
  under one key; bills under different ones may overlap (`finding_double_bill`).

*Casework* (`CaseworkProofs`): twelve theorems, one for each property of the run. Each
service has its invariant (`TenderIInv`, `PassIInv`, ...). In a behaviour one service is
at work and the others rest: while it is at work its invariant holds, while it rests it
is as it began and the property holds of that (`TenderCase`, ...). What the invariants
add to the property is short, because the exceptions are recorded where they are made:

| theorems | what its requests may rely on |
|---|---|
| `AwardIsDecided`, `VoteIsOne` | before the award no bid has been decided, and a request that writes the tender has read it as not yet awarded; at most one request is between creating the vote of the board, linking and opening it |
| `UsesAreCounted` | the count that an entry has read is below the limit |
| `AppealsTie` | no request is about to move a violation to or from `appealing` but the one that has read it so; the appeal it decides is the one undecided |
| `TableIsFollowed` | what will be written follows, by the table, what was read |
| `LockedIsSettled` | a request to lock has seen no unmatched line; the journal has one entry of a matched line and none of another |
| `ErasureIsAsked` | who is about to be erased has waited; completed and cancelled are final |
| `MailIsAsked` | one run has a recipient in hand; a broadcast that is being sent cannot be cancelled |
| `BallotIsOne`, `OutcomeIsCounted` | all ballots of a vote are kept under one key (`Column`); a count that was read is still the count, up to the stragglers, and the rule that was read still the rule |
| `CallRunsOnce` | a handler is running only as long as all that have done their work threw after it; what has run and not thrown is stored, or is about to be |
| `AccountByOneInvite` | a redeemed invitation gave the account, and an ended one stays ended |

Rounding a percentage up is a lemma (`CeilFacts`, `PercentFacts`): what reaches the rounded
number reaches the percentage, and what does not is below it, or equal to it where doubles
round up. No more can be said of the code.

*Sums* (`Sums`). `SumFunctionOnSet` of the library is a fold by a recursive function over
subsets. That it exists, is a number, and may take its terms in any order are inductions
over the subsets of a finite set. The library's induction theorems take a predicate, which
the provers cannot instantiate; `SubsetInduction`, `SetInduction` and `NumberInduction`
take the *set* of what satisfies it instead, and follow from the existence of minimal
elements (`WFMin`). From them come `SumRemove`, `SumUpdate`, `SumSupport`, `SumNat`,
`SumTerm`, `SumEqualTerms`, on which the theorems about money rest.

Only model-checked: liveness (`Settles`, `MailSettles`), which is out of the prover's
reach. Refuted, and therefore no theorems: the properties of the `finding_...` runs.

## 14. Disagreements between code and documents

Shown by a run (see "findings" in `PROJECT.json` for the lines):

| run | what happens |
|---|---|
| `finding_retry` | the intent is `success` before the payment is logged, and retries stop at `success`: an interruption between the two loses the credit, although the comment says a retry converges |
| `finding_reversal` | a payment is read before anything is locked: a second reversal that overlaps the first subtracts the same allocations again, although the comment calls it a no-op |
| `finding_rerun` | a payment of today that is all surplus is taken for a legacy row by the next backfill, and allocated, although the comment says that a rerun only touches legacy rows |
| `finding_webhook_retry` | the raw `UPDATE` names columns that do not exist; a failed delivery is never retried |
| `finding_mail_attempts` | the attempt is counted by the claim and once more by the comparison: a mail is given up with one attempt left |
| `finding_double_bill` | the two ways to bill look for different period keys where their terms differ: a month is billed by both, although the comment says that they can never double-bill |
| `finding_late_fee` | on an invoice without `originalAmount` a tier is taken of the amount that holds the fee of the tier before |

Seen while reading or while modelling, and not the subject of a run:

*Payments, backfill, plans*

- Prepay: invoices and payment are two transactions (`payment-intents.service.ts:163`,
  466), where `SPEC-unit-default-billing.md:215` asks for one.
- A refund that overtakes the credit of its charge is acknowledged and lost
  (`payments.service.ts:426-430`); the charge is then credited.
- A backfill that stops half way forgets which invoices it has to recompute (`:86`);
  one that runs under traffic, or on two servers, may write a stale sum (`:87`).
- `SPEC-unit-default-billing.md:217` calls `voided` terminal; a payment or a reversal
  gives a voided invoice a new status.
- `create` of a plan adds up the full `amount` of partly paid invoices
  (`payment-plans.service.ts:132`), where its comment speaks of the consolidated
  balance; a total of a few cents over many installments gives a last one of zero
  or less (136).
- A plan that is cancelled while its last installment settles ends up completed
  (`:360`); nothing ever sets an installment to `overdue`, which a comment mentions (`:306`).
- A verify call turns a `success` into `failed` although it "only nudges intent status
  forward"; when the last two installments of a plan are paid together, the plan stays
  active.
- A Paystack webhook without `data.reference` is answered before its event is looked
  at (`payment-intents.service.ts:345`), so a refund that names its charge otherwise is
  not seen.

*Mail and webhooks*

- A mail whose worker dies stays `sending`, and a delivery `in_progress`: no sweep selects
  them.
- A late `delivered` of Resend overwrites `bounced` (`mail.service.ts:258`).

*Billing*

- Tiers of late fees count their `ageDays` from the due date, where the comment at
  `late-fees.service.ts:25` counts them from the end of the grace days. The sweep
  compares amount and tier with what it read, but not the status (153-164).
- An invoice of a schedule that was voided is never issued again: its unique key stays
  taken. A run that finds everything billed leaves `nextRunAt` where it is.

*Payables*

- A rule of mode `any` whose `approverCount` exceeds its roles is never met.

*Casework*

- A recurring pass has `maxUses` 1 and gets `max_uses_reached` after its first entry.
- A violation reaches `board_review` only by an outcome that `resolve` does not declare;
  `issueFine` looks for a fine before its transaction, so two requests issue two.
- A second vote of the board that `startExcoVote` could not link stays a draft that the
  endpoints of votes can open.
- The closing balance of a reconciliation is computed once; a period that was started
  with a wrong one can be neither locked nor replaced.
- `sendDueBroadcasts`, `enforceGracePeriods` and `purgeExpiredIdempotencyKeys` have no
  caller. A run of a broadcast writes `opted_out` over `sent`, and the next one mails
  again if the recipient has come back.
- `moderateErasure` writes by id; nothing writes `reviewing`. The unique key of
  (user, organisation, status) (`schema.prisma:1831`) lets a user of an organisation
  withdraw, be rejected or be erased once.
- "re-check status under lock" (`votes.service.ts`) takes no lock: a vote that is being
  closed can be cancelled, and a proxy that is being used revoked.
- `invites.service.ts:468` marks an invitation expired in a transaction that then
  throws, which undoes it. Two creations at once leave two pending invitations.
  `bulkCreate` creates one by one, where its comment says "in a single transaction".
- Numbers of resale certificates are compared as strings: after 9999 in a year the next
  number repeats. An edit of a certificate checks for a draft before its transaction.

*Idempotency keys*

- `HOA-SDK-JS/README.md` says that a retry returns the original response, and
  `README.md:131-133` that retries from double-clicks are safe. An attempt that timed out
  may still run, and then the retry runs as well; the web clients make a new key for each
  call, so a double-click has two. `client.ts:328` recommends a key for
  `invoices.create`, whose route is not `@Idempotent`. A key is of a user, not of a route.

*Platform subscriptions*

- A repeated `charge.success` reactivates a subscription that was cancelled or suspended,
  a `payment_failed` moves a cancelled one to `past_due`, and a cancellation never tells
  Paystack.

## 15. What is not modelled, and the plan

`PROJECT.json` gives a reason for every component that is `not_modelled`, and says for
each that is `partly` what is left out. In short: user interfaces, queries, reports,
rendering, storage, prompts and metrics have no protocol of their own; people, units,
estates and documents are edited one request at a time. Planned:

1. `Credentials`: refresh rotation, magic links, recovery codes: single use under two
   requests, revocation against a refresh that is under way.
2. `Subscriptions`: the platform's own billing, with the events of `Payments`' gateway.
3. `Resale`: an order that is paid, issued and snapshot, and its number.
4. `AuditChain`: two writers that chain to the same predecessor.
5. Surveys, the links of requests to vendors, and edits of drafts of tenders and
   broadcasts.

Proofs planned: refinements of abstract specifications for the workers (a mail, a
delivery: claimed, attempted, decided), as `Payments` has one in `Settlement`; and the
invariants of the modules above as they are written.
