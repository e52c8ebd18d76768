---------------------------- MODULE BillingDesk ----------------------------
(***************************************************************************)
(* What the office does with invoices besides taking money: sending,       *)
(* voiding and deleting them (InvoicesService), and payment plans          *)
(* (PaymentPlansService), which put invoices on hold and bill their sum in *)
(* installments.                                                           *)
(*                                                                         *)
(* Payments come from PaymentsService; of logPayment and reversePayment    *)
(* this module keeps what they do to the invoice (Payments has the rest).  *)
(* A request or job is a task that advances from one awaited statement to  *)
(* the next; an action that names none is a single transaction. Due dates  *)
(* are abstract: any installment may be due.                               *)
(***************************************************************************)
EXTENDS Integers, FiniteSets, FiniteSetsExt

CONSTANTS
    Sources,         \* invoices that staff raise
    Price,           \* their amounts, in cents
    Plans,           \* payment plans that may come to exist
    Count,           \* installments of a plan
    Tasks,           \* requests and jobs in flight
    MaxEdits,        \* bound on voids, deletions, reversals, crashes
    Nobody           \* no invoice, no plan

\* What some of them come to, in full.
Owed(S) == SumFunctionOnSet(Price, S)

ASSUME DeskAssumption ==
    /\ IsFiniteSet(Sources)
    /\ Price \in [Sources -> Nat \ {0}]
    /\ Count \in Nat \ {0, 1}
    /\ MaxEdits \in Nat
    /\ Sources \cap (Plans \X (1 .. Count)) = {}
    /\ Nobody \notin Plans \cup Sources \cup (Plans \X (1 .. Count))

VARIABLES
    invoices,       \* Invoice rows: of the office, and one per installment
    plans,          \* PaymentPlan rows
    installments,   \* PaymentPlanInstallment rows
    tasks,          \* requests and jobs
    settled,        \* installments whose invoice was paid in full at some time
    erased,         \* invoices that were deleted
    edits           \* how many of these have happened

vars == <<invoices, plans, installments, tasks, settled, erased, edits>>
history == <<settled, erased, edits>>

-----------------------------------------------------------------------------
Installments == Plans \X (1 .. Count)
Bills == Sources \cup Installments
PlanOf(k) == k[1]

InvoiceStatuses == {"absent", "draft", "sent", "partial", "paid", "on_plan", "voided"}

Invoice == [status : InvoiceStatuses, amount : Int, amountPaid : Nat]
Plan == [status : {"absent", "pending", "active", "completed", "cancelled"},
         sources : SUBSET Sources, total : Nat]
Installment == [status : {"absent", "pending", "invoiced", "paid"}, amount : Int]
Task == [step : {"idle", "send", "void", "delete", "create", "bill",
                 "settle", "count", "commit"},
         invoice : Bills \cup {Nobody}, plan : Plans \cup {Nobody},
         sources : SUBSET Sources, total : Nat, last : BOOLEAN]

NoInvoice == [status |-> "absent", amount |-> 0, amountPaid |-> 0]
IdleTask == [step |-> "idle", invoice |-> Nobody, plan |-> Nobody, sources |-> {},
         total |-> 0, last |-> FALSE]

Exists(i) == invoices[i].status # "absent"

TypeOK ==
    /\ invoices \in [Bills -> Invoice]
    /\ plans \in [Plans -> Plan]
    /\ installments \in [Installments -> Installment]
    /\ tasks \in [Tasks -> Task]
    /\ settled \subseteq Installments
    /\ erased \subseteq Bills
    /\ edits \in 0 .. MaxEdits

Init ==
    /\ invoices = [i \in Bills |-> NoInvoice]
    /\ plans = [p \in Plans |-> [status |-> "absent", sources |-> {}, total |-> 0]]
    /\ installments = [k \in Installments |-> [status |-> "absent", amount |-> 0]]
    /\ tasks = [h \in Tasks |-> IdleTask]
    /\ settled = {}
    /\ erased = {}
    /\ edits = 0

-----------------------------------------------------------------------------
TaskAt(h, step) == tasks[h].step = step
Start(h, task) == tasks' = [tasks EXCEPT ![h] = task]
End(h) == tasks' = [tasks EXCEPT ![h] = IdleTask]
SetStatus(i, status) == invoices' = [invoices EXCEPT ![i].status = status]

\* One of the events that MaxEdits bounds.
Edit == edits < MaxEdits /\ edits' = edits + 1

Restate(S, old, new) ==
    [i \in Bills |-> IF i \in S /\ invoices[i].status \in old
                       THEN [invoices[i] EXCEPT !.status = new] ELSE invoices[i]]

-----------------------------------------------------------------------------
(* InvoicesService: the row is read and checked, then updated by its id. *)

CreateInvoice(s) ==
    /\ ~ Exists(s) /\ s \notin erased
    /\ invoices' = [invoices EXCEPT ![s] =
          [NoInvoice EXCEPT !.status = "draft", !.amount = Price[s]]]
    /\ UNCHANGED <<plans, installments, tasks, history>>

ReadToSend(h, i) ==
    /\ TaskAt(h, "idle") /\ invoices[i].status = "draft"
    /\ Start(h, [IdleTask EXCEPT !.step = "send", !.invoice = i])
    /\ UNCHANGED <<invoices, plans, installments, history>>

ReadToVoid(h, i) ==
    /\ Edit
    /\ TaskAt(h, "idle") /\ Exists(i) /\ invoices[i].status \notin {"paid", "voided"}
    /\ Start(h, [IdleTask EXCEPT !.step = "void", !.invoice = i])
    /\ UNCHANGED <<invoices, plans, installments, settled, erased>>

\* The update does not look at the status again; it throws when the row is gone.
WriteStatus(h, step, status) ==
    /\ TaskAt(h, step)
    /\ IF Exists(tasks[h].invoice) THEN SetStatus(tasks[h].invoice, status)
                                   ELSE UNCHANGED invoices
    /\ End(h)
    /\ UNCHANGED <<plans, installments, history>>

Send(h) == WriteStatus(h, "send", "sent")
Void(h) == WriteStatus(h, "void", "voided")

\* bulkDeleteUnpaid picks what has received no money, then deletes by id; an
\* installment whose invoice goes is left as it is.
ReadToDelete(h, i) ==
    /\ Edit
    /\ TaskAt(h, "idle")
    /\ Exists(i) /\ invoices[i].amountPaid = 0 /\ invoices[i].status # "paid"
    /\ Start(h, [IdleTask EXCEPT !.step = "delete", !.invoice = i])
    /\ UNCHANGED <<invoices, plans, installments, settled, erased>>

Delete(h) ==
    LET i == tasks[h].invoice IN
    /\ TaskAt(h, "delete")
    /\ invoices' = [invoices EXCEPT ![i] = NoInvoice]
    /\ erased' = erased \cup {i}
    /\ End(h)
    /\ UNCHANGED <<plans, installments, settled, edits>>

-----------------------------------------------------------------------------
(* PaymentsService, as far as the invoice goes. *)

\* The status of an invoice that has received so much.
StatusAfter(i, paid) ==
    CASE paid >= invoices[i].amount -> "paid" [] paid = 0 -> "sent" [] OTHER -> "partial"

AdvancesPlan(status) == status = "paid"

\* logPayment. It does not look at the status; what the invoice does not owe is
\* credit. An invoice that is paid now goes on to onInstallmentInvoicePaid after
\* the commit, also when it was paid before.
Pay(h, i, sum) ==
    LET applied == Min({sum, invoices[i].amount - invoices[i].amountPaid})
        paid == invoices[i].amountPaid + applied
        status == IF applied = 0 THEN invoices[i].status ELSE StatusAfter(i, paid)
    IN
    /\ TaskAt(h, "idle") /\ Exists(i)
    /\ invoices' = [invoices EXCEPT ![i].amountPaid = paid, ![i].status = status]
    /\ IF AdvancesPlan(status) /\ i \in Installments
         THEN Start(h, [IdleTask EXCEPT !.step = "settle", !.invoice = i])
         ELSE UNCHANGED tasks
    /\ settled' = IF paid >= invoices[i].amount THEN settled \cup ({i} \cap Installments) ELSE settled
    /\ UNCHANGED <<plans, installments, erased, edits>>

\* reversePayment of a payment that gave the invoice this sum.
Reverse(i, sum) ==
    LET paid == invoices[i].amountPaid - sum IN
    /\ Edit
    /\ Exists(i)
    /\ invoices' = [invoices EXCEPT ![i].amountPaid = paid,
                                    ![i].status = StatusAfter(i, paid)]
    /\ UNCHANGED <<plans, installments, tasks, settled, erased>>

-----------------------------------------------------------------------------
(* PaymentPlansService. *)

\* A share of the total, rounded half up to a cent.
Share(total) == (2 * total + Count) \div (2 * Count)

\* Seeded fault: the rounding drift is lost.
EvenAmount(total, k) == Share(total)

\* The last installment absorbs the drift.
AmountOf(total, k) == IF k = Count THEN total - Share(total) * (Count - 1) ELSE Share(total)

\* create checks its sources and the open plans before its transaction. It
\* consolidates the amounts of the sources, not what they still owe.
ReadToCreate(h, p, S) ==
    /\ TaskAt(h, "idle") /\ plans[p].status = "absent" /\ S # {}
    /\ \A g \in Tasks : tasks[g].plan # p
    /\ \A s \in S : Exists(s) /\ invoices[s].status \notin {"paid", "voided", "on_plan"}
    /\ \A q \in Plans : plans[q].status \in {"pending", "active"} => plans[q].sources \cap S = {}
    /\ Start(h, [IdleTask EXCEPT !.step = "create", !.plan = p, !.sources = S, !.total = Owed(S)])
    /\ UNCHANGED <<invoices, plans, installments, history>>

\* The plan and its installments, for the amounts that were read.
CreatePlan(h) ==
    LET p == tasks[h].plan IN
    /\ TaskAt(h, "create")
    /\ plans' = [plans EXCEPT ![p] = [status |-> "pending", sources |-> tasks[h].sources,
                                      total |-> tasks[h].total]]
    /\ installments' = [k \in Installments |->
          IF PlanOf(k) = p
            THEN [status |-> "pending", amount |-> AmountOf(tasks[h].total, k[2])]
            ELSE installments[k]]
    /\ End(h)
    /\ UNCHANGED <<invoices, history>>

\* The row that materializeInstallmentInvoice inserts.
BillFor(k) ==
    [status |-> "sent", amount |-> installments[k].amount, amountPaid |-> 0]

\* activate: a transaction that claims the pending plan first, puts its sources
\* on hold and bills the first installment.
Activate(p) ==
    /\ plans[p].status = "pending"
    /\ plans' = [plans EXCEPT ![p].status = "active"]
    /\ invoices' = [Restate(plans[p].sources, {"draft", "sent", "partial", "on_plan"}, "on_plan")
                      EXCEPT ![<<p, 1>>] = BillFor(<<p, 1>>)]
    /\ installments' = [installments EXCEPT ![<<p, 1>>].status = "invoiced"]
    /\ UNCHANGED <<tasks, history>>

\* Seeded fault: the sources stay on hold.
ReleasedNone(p) == invoices

\* The sources that are still on hold become due again.
Released(p) == Restate(plans[p].sources, {"on_plan"}, "sent")

\* cancel: a transaction that claims the open plan first, releases its sources
\* and voids the installments' open invoices.
Cancel(p) ==
    /\ plans[p].status \in {"pending", "active"}
    /\ plans' = [plans EXCEPT ![p].status = "cancelled"]
    /\ invoices' = [i \in Bills |->
          IF i \in Installments /\ i[1] = p /\ invoices[i].status \in {"draft", "sent", "partial"}
            THEN [invoices[i] EXCEPT !.status = "voided"]
            ELSE Released(p)[i]]
    /\ UNCHANGED <<installments, tasks, history>>

Due(k) == installments[k].status = "pending" /\ plans[PlanOf(k)].status = "active"

\* materializeDueInstallments reads the pending installments of active plans.
ReadToBill(h, k) ==
    /\ TaskAt(h, "idle") /\ Due(k)
    /\ Start(h, [IdleTask EXCEPT !.step = "bill", !.invoice = k])
    /\ UNCHANGED <<invoices, plans, installments, history>>

\* The transaction of onInstallmentInvoicePaid holds the row of its installment.
Locked(k) == \E h \in Tasks : tasks[h].step \in {"count", "commit"} /\ tasks[h].invoice = k

\* One transaction per installment. It looks at nothing again; a second invoice
\* of one installment fails on its unique key.
Bill(h) ==
    LET k == tasks[h].invoice IN
    /\ TaskAt(h, "bill") /\ ~ Locked(k)
    /\ IF Exists(k)
         THEN UNCHANGED <<invoices, installments>>
         ELSE /\ invoices' = [invoices EXCEPT ![k] = BillFor(k)]
              /\ installments' = [installments EXCEPT ![k].status = "invoiced"]
    /\ End(h)
    /\ UNCHANGED <<plans, history>>

\* onInstallmentInvoicePaid reads the invoice and begins a transaction, whose
\* first statement marks the installment; nobody sees that before the commit.
Settle(h) ==
    /\ TaskAt(h, "settle") /\ ~ Locked(tasks[h].invoice)
    /\ IF Exists(tasks[h].invoice)
         THEN tasks' = [tasks EXCEPT ![h].step = "count"]
         ELSE End(h)
    /\ UNCHANGED <<invoices, plans, installments, history>>

\* Seeded fault: only the installments without an invoice count as open.
Unbilled(k) == installments[k].status = "pending"

Unpaid(k) == installments[k].status # "paid"

\* The second statement counts what is left, as far as it is committed.
CountRemaining(h) ==
    LET k == tasks[h].invoice
        left == {j \in Installments \ {k} : PlanOf(j) = PlanOf(k) /\ Unpaid(j)}
    IN
    /\ TaskAt(h, "count")
    /\ tasks' = [tasks EXCEPT ![h].step = "commit", ![h].last = (left = {})]
    /\ UNCHANGED <<invoices, plans, installments, history>>

\* The commit. When nothing was left the plan is completed, whatever its status
\* is by now, and the sources on hold become paid.
Commit(h) ==
    LET k == tasks[h].invoice
        p == PlanOf(k)
    IN
    /\ TaskAt(h, "commit")
    /\ installments' = [installments EXCEPT ![k].status = "paid"]
    /\ IF tasks[h].last
         THEN /\ plans' = [plans EXCEPT ![p].status = "completed"]
              /\ invoices' = Restate(plans[p].sources, {"on_plan"}, "paid")
         ELSE UNCHANGED <<plans, invoices>>
    /\ End(h)
    /\ UNCHANGED history

\* The process stops, or a statement throws: what was committed stays.
Interrupt(h) ==
    /\ ~ TaskAt(h, "idle")
    /\ Edit
    /\ End(h)
    /\ UNCHANGED <<invoices, plans, installments, settled, erased>>

-----------------------------------------------------------------------------
OfficeStep == \E s \in Sources : CreateInvoice(s)

PlanStep == \E p \in Plans : Activate(p) \/ Cancel(p)

BeginTask(h) ==
    \/ \E i \in Bills :
         \/ ReadToSend(h, i) \/ ReadToVoid(h, i) \/ ReadToDelete(h, i)
         \/ \E sum \in 1 .. invoices[i].amount : Pay(h, i, sum)
    \/ \E p \in Plans, S \in SUBSET Sources : ReadToCreate(h, p, S)
    \/ \E k \in Installments : ReadToBill(h, k)

Proceed(h) ==
    \/ Send(h) \/ Void(h) \/ Delete(h) \/ CreatePlan(h)
    \/ Bill(h) \/ Settle(h) \/ CountRemaining(h) \/ Commit(h)

Next ==
    \/ OfficeStep \/ PlanStep
    \/ \E i \in Bills : \E sum \in 1 .. invoices[i].amountPaid : Reverse(i, sum)
    \/ \E h \in Tasks : BeginTask(h) \/ Proceed(h) \/ Interrupt(h)

Spec == Init /\ [][Next]_vars

-----------------------------------------------------------------------------
(* Properties. *)

\* No invoice is left on hold by a plan that has ended: an invoice on_plan is a
\* source of a plan in force, in whatever order plans that share it (two requests
\* may both pass create's check) are activated, cancelled and completed.
OnPlanHasPlan ==
    \A s \in Bills :
        invoices[s].status = "on_plan" =>
            \E p \in Plans : plans[p].status = "active" /\ s \in plans[p].sources

\* A plan is completed only by all its installments (onInstallmentInvoicePaid);
\* the one exception is an installment whose invoice was deleted and billed again.
CompletedIsPaid ==
    \A k \in Installments :
        plans[PlanOf(k)].status = "completed" =>
            installments[k].status = "paid" \/ k \in erased

\* An installment is marked paid only when its invoice has been paid in full.
PaidByMoney == \A k \in Installments : installments[k].status = "paid" => k \in settled

\* The installments of a plan add up to its total, to the cent ("the plan total
\* ties back to the consolidated balance exactly").
InstallmentsTie ==
    \A p \in Plans :
        plans[p].total = SumFunction([k \in 1 .. Count |-> installments[<<p, k>>].amount])

Begun(k) == plans[PlanOf(k)].status \notin {"absent", "pending"}

\* Nothing of a plan is billed before it is activated.
UnbilledBefore ==
    \A k \in Installments : Exists(k) \/ k \in settled \/ k \in erased => Begun(k)

\* What has been paid in full is a bill, unless it was deleted.
SettledIsBilled == \A k \in settled : Exists(k) \/ k \in erased

\* No bill takes more than its amount, but an amount that is not positive takes none.
PaidWithinAmount ==
    \A i \in Bills : invoices[i].amount > 0 => invoices[i].amountPaid <= invoices[i].amount

\* What a task may rely on although others run between its steps.
TaskOK(h) ==
    LET i == tasks[h].invoice
        p == tasks[h].plan
    IN
    /\ TaskAt(h, "create") =>
          /\ p \in Plans /\ plans[p].status = "absent"
          /\ \A g \in Tasks \ {h} : tasks[g].plan # p
    /\ tasks[h].step \in {"send", "void", "delete"} => i \in Bills /\ (i \in Installments => Begun(i))
    /\ TaskAt(h, "bill") => i \in Installments /\ Begun(i)
    /\ tasks[h].step \in {"settle", "count", "commit"} => i \in settled
    /\ TaskAt(h, "commit") /\ tasks[h].last =>
          \A k \in Installments \ {i} :
             PlanOf(k) = PlanOf(i) => ~ Unpaid(k) \/ k \in erased

TasksOK == \A h \in Tasks : TaskOK(h)

\* The inductive invariant behind the three properties about plans.
IInv ==
    /\ TypeOK /\ UnbilledBefore /\ SettledIsBilled /\ PaidWithinAmount /\ TasksOK
    /\ OnPlanHasPlan /\ CompletedIsPaid /\ PaidByMoney

=============================================================================
