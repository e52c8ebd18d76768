----------------------------- MODULE DeskProofs -----------------------------
(* Theorems about BillingDesk, for every value of its constants. *)
EXTENDS BillingDesk, Sums, TLAPS

-----------------------------------------------------------------------------
(* Arithmetic. *)

\* The least of two numbers.
LEMMA MinOfTwo ==
    ASSUME NEW a \in Int, NEW b \in Int
    PROVE  Min({a, b}) = IF a <= b THEN a ELSE b
BY DEF Min

\* Every installment has an amount, whatever the total.
LEMMA AmountType ==
    ASSUME NEW total \in Nat, NEW n \in 1 .. Count
    PROVE  AmountOf(total, n) \in Int
<1>1. 2 * Count \in Nat \ {0} /\ 2 * total + Count \in Nat
  BY DeskAssumption
<1> DEFINE c == 2 * Count
           t == 2 * total + Count
<1>2. t \div c \in Int
  <2> HIDE DEF c, t
  <2> QED BY <1>1 DEF c, t
<1>3. Share(total) \in Int /\ Count - 1 \in Int
  BY <1>2, DeskAssumption DEF Share
<1> DEFINE s == Share(total)
           m == Count - 1
<1>4. s * m \in Int
  <2> HIDE DEF s, m
  <2> QED BY <1>3 DEF s, m
<1> QED BY <1>3, <1>4 DEF AmountOf

-----------------------------------------------------------------------------
(* What a step does to the tasks. *)

\* A request or job that has not begun; Nobody is no plan and no invoice.
LEMMA IdleIsTask ==
    /\ IdleTask \in Task /\ IdleTask.step = "idle" /\ IdleTask.plan = Nobody /\ IdleTask.invoice = Nobody
    /\ Nobody \notin Plans /\ Nobody \notin Bills
BY DeskAssumption DEF IdleTask, Task, Bills, Installments

\* All but one task stay as they are.
Alone(h) == tasks' \in [Tasks -> Task] /\ \A g \in Tasks \ {h} : tasks'[g] = tasks[g]

\* Ending one task.
LEMMA EndEffect ==
    ASSUME TypeOK, NEW h \in Tasks, End(h)
    PROVE  Alone(h) /\ tasks'[h] = IdleTask
BY IdleIsTask DEF End, TypeOK, Alone

\* Starting one task.
LEMMA StartEffect ==
    ASSUME TypeOK, NEW h \in Tasks, NEW task \in Task, Start(h, task)
    PROVE  Alone(h) /\ tasks'[h] = task
BY DEF Start, TypeOK, Alone

\* The task that works on an invoice.
LEMMA InvoiceTask ==
    ASSUME NEW i \in Bills, NEW step \in {"send", "void", "delete", "bill", "settle"}
    PROVE  LET task == [IdleTask EXCEPT !.step = step, !.invoice = i]
           IN  task \in Task /\ task.step = step /\ task.invoice = i /\ task.plan = Nobody
BY DEF IdleTask, Task

\* A task that does nothing relies on nothing.
LEMMA IdleIsOK ==
    ASSUME NEW h \in Tasks, tasks[h] = IdleTask
    PROVE  TaskOK(h)
BY DEF TaskOK, TaskAt, IdleTask

\* What holds of a task goes on to hold while others work.
LEMMA OtherTask ==
    ASSUME NEW g \in Tasks, TaskOK(g), TypeOK, tasks'[g] = tasks[g],
           \A k \in Installments : Begun(k) => Begun(k)',
           settled \subseteq settled', erased \subseteq erased',
           \A k \in Installments : ~ Unpaid(k) => ~ Unpaid(k)' \/ k \in erased',
           TaskAt(g, "create") =>
              /\ plans'[tasks[g].plan].status = "absent"
              /\ \A f \in Tasks \ {g} : tasks'[f].plan # tasks[g].plan
    PROVE  TaskOK(g)'
<1>1. settled \subseteq Installments
  BY DEF TypeOK
<1> QED BY <1>1 DEF TaskOK, TaskAt

\* The tasks that a step leaves alone stay right.
LEMMA OtherTasks ==
    ASSUME IInv, NEW h \in Tasks, \A g \in Tasks \ {h} : tasks'[g] = tasks[g],
           \A k \in Installments : Begun(k) => Begun(k)',
           settled \subseteq settled', erased \subseteq erased',
           \A k \in Installments : ~ Unpaid(k) => ~ Unpaid(k)' \/ k \in erased',
           \A g \in Tasks \ {h} : TaskAt(g, "create") =>
              /\ plans'[tasks[g].plan].status = plans[tasks[g].plan].status
              /\ tasks'[h].plan # tasks[g].plan,
           TaskOK(h)'
    PROVE  TasksOK'
<1>1. ASSUME NEW g \in Tasks \ {h} PROVE TaskOK(g)'
  <2>1. TaskOK(g) /\ TypeOK
    BY DEF IInv, TasksOK
  <2>2. TaskAt(g, "create") =>
           /\ plans'[tasks[g].plan].status = "absent"
           /\ \A f \in Tasks \ {g} : tasks'[f].plan # tasks[g].plan
    BY <2>1 DEF TaskOK
  <2> QED BY <2>1, <2>2, OtherTask
<1> QED BY <1>1 DEF TasksOK

\* A step that only moves a task keeps what is said of the tables.
LEMMA TaskStep ==
    ASSUME IInv, NEW h \in Tasks, Alone(h), edits' \in 0 .. MaxEdits,
           UNCHANGED <<invoices, plans, installments, settled, erased>>,
           \A g \in Tasks \ {h} : TaskAt(g, "create") => tasks'[h].plan # tasks[g].plan,
           TaskOK(h)'
    PROVE  IInv'
<1>1. TypeOK'
  BY DEF IInv, TypeOK, Alone
<1>2. TasksOK'
  BY OtherTasks DEF Alone, Begun, Unpaid
<1>3. UnbilledBefore' /\ SettledIsBilled' /\ PaidWithinAmount'
  BY DEF IInv, UnbilledBefore, SettledIsBilled, PaidWithinAmount, Exists, Begun
<1>4. OnPlanHasPlan' /\ CompletedIsPaid' /\ PaidByMoney'
  BY DEF IInv, OnPlanHasPlan, CompletedIsPaid, PaidByMoney
<1> QED BY <1>1, <1>2, <1>3, <1>4 DEF IInv

\* Nobody is no plan that is being created.
LEMMA NobodyIsCreated ==
    ASSUME IInv, NEW g \in Tasks, TaskAt(g, "create")
    PROVE  tasks[g].plan # Nobody /\ tasks[g].plan \in Plans /\ plans[tasks[g].plan].status = "absent"
BY IdleIsTask DEF IInv, TasksOK, TaskOK

-----------------------------------------------------------------------------
\* The empty tables satisfy the invariant.
LEMMA InitIInv == Init => IInv
<1> SUFFICES ASSUME Init PROVE IInv
  OBVIOUS
<1>1. TypeOK
  BY IdleIsTask, DeskAssumption
     DEF Init, TypeOK, NoInvoice, Invoice, InvoiceStatuses, Plan, Installment
<1>2. UnbilledBefore /\ SettledIsBilled /\ PaidWithinAmount
  BY DEF Init, UnbilledBefore, SettledIsBilled, PaidWithinAmount, Exists, NoInvoice, Bills
<1>3. TasksOK
  BY IdleIsOK DEF Init, TasksOK
<1>4. OnPlanHasPlan /\ CompletedIsPaid /\ PaidByMoney
  BY DEF Init, OnPlanHasPlan, CompletedIsPaid, PaidByMoney, NoInvoice, PlanOf, Installments
<1> QED BY <1>1, <1>2, <1>3, <1>4 DEF IInv

-----------------------------------------------------------------------------
(* The steps that leave plans and installments alone. *)

\* A step on invoices that puts none on hold.
LEMMA InvoiceStep ==
    ASSUME IInv, UNCHANGED <<plans, installments>>, TasksOK', PaidWithinAmount',
           invoices' \in [Bills -> Invoice], tasks' \in [Tasks -> Task],
           edits' \in 0 .. MaxEdits,
           settled \subseteq settled', settled' \subseteq Installments,
           erased \subseteq erased', erased' \subseteq Bills,
           \A k \in Installments : Exists(k)' \/ k \in settled' \/ k \in erased' => Begun(k),
           \A k \in settled' : Exists(k)' \/ k \in erased',
           \A i \in Bills : invoices'[i].status = "on_plan" => invoices[i].status = "on_plan"
    PROVE  IInv'
<1>1. TypeOK'
  BY DEF IInv, TypeOK
<1>2. UnbilledBefore' /\ SettledIsBilled'
  BY DEF UnbilledBefore, SettledIsBilled, Begun
<1>3. OnPlanHasPlan' /\ CompletedIsPaid' /\ PaidByMoney'
  BY DEF IInv, OnPlanHasPlan, CompletedIsPaid, PaidByMoney
<1> QED BY <1>1, <1>2, <1>3 DEF IInv

\* A draft is an invoice.
LEMMA NewRow ==
    ASSUME NEW cents \in Int
    PROVE  LET row == [NoInvoice EXCEPT !.status = "draft", !.amount = cents]
           IN  row \in Invoice /\ row.status = "draft" /\ row.amount = cents /\ row.amountPaid = 0
BY DEF NoInvoice, Invoice, InvoiceStatuses

\* A draft is nothing on hold and no bill.
LEMMA CreateInvoiceKeeps ==
    ASSUME IInv, NEW s \in Sources, CreateInvoice(s)
    PROVE  IInv'
<1> DEFINE amount == Price[s]
           row == [NoInvoice EXCEPT !.status = "draft", !.amount = amount]
<1>0. amount \in Int /\ amount > 0
  BY DeskAssumption
<1>1. row \in Invoice /\ row.status = "draft" /\ row.amount = amount /\ row.amountPaid = 0
  BY <1>0, NewRow
<1>2. invoices' = [invoices EXCEPT ![s] = row] /\ UNCHANGED <<plans, installments, tasks, settled, erased, edits>>
  BY DEF CreateInvoice, history
<1> HIDE DEF row, amount
<1>3. TypeOK /\ s \in Bills /\ s \notin Installments
  BY DeskAssumption DEF IInv, Bills, Installments
<1>4. invoices' \in [Bills -> Invoice] /\ PaidWithinAmount'
  <2>1. invoices'[s] = row /\ \A i \in Bills \ {s} : invoices'[i] = invoices[i]
    BY <1>2, <1>3 DEF TypeOK
  <2>2. PaidWithinAmount'
    BY <1>0, <1>1, <2>1 DEF IInv, PaidWithinAmount
  <2> QED BY <1>1, <1>2, <1>3, <2>2 DEF TypeOK
<1>5. \A k \in Installments : Exists(k)' = Exists(k)
  BY <1>2, <1>3 DEF Exists, TypeOK, Bills
<1>6. TasksOK'
  BY <1>2 DEF IInv, TasksOK, TaskOK, TaskAt, Begun, Unpaid
<1>7. \A i \in Bills : invoices'[i].status = "on_plan" => invoices[i].status = "on_plan"
  BY <1>1, <1>2, <1>3 DEF TypeOK
<1> QED
  BY <1>2, <1>3, <1>4, <1>5, <1>6, <1>7, InvoiceStep
     DEF IInv, TypeOK, UnbilledBefore, SettledIsBilled

\* A task that begins with a row it has found.
LEMMA ReadKeeps ==
    ASSUME IInv, NEW h \in Tasks, NEW i \in Bills,
           ReadToSend(h, i) \/ ReadToVoid(h, i) \/ ReadToDelete(h, i)
    PROVE  IInv'
<1>1. PICK step \in {"send", "void", "delete"} : Start(h, [IdleTask EXCEPT !.step = step, !.invoice = i])
  BY DEF ReadToSend, ReadToVoid, ReadToDelete
<1> DEFINE task == [IdleTask EXCEPT !.step = step, !.invoice = i]
<1>2. task \in Task /\ task.step = step /\ task.invoice = i /\ task.plan = Nobody
  BY DEF IdleTask, Task
<1>3. Start(h, task)
  BY <1>1
<1> HIDE DEF task
<1>4. Alone(h) /\ tasks'[h] = task
  BY <1>2, <1>3, StartEffect DEF IInv
<1>5. /\ Exists(i) /\ UNCHANGED <<invoices, plans, installments, settled, erased>>
      /\ edits' \in 0 .. MaxEdits
  BY DeskAssumption
     DEF ReadToSend, ReadToVoid, ReadToDelete, Exists, history, Edit, IInv, TypeOK
<1>6. TaskOK(h)'
  BY <1>2, <1>4, <1>5 DEF TaskOK, TaskAt, IInv, UnbilledBefore, Begun
<1> QED BY <1>2, <1>4, <1>5, <1>6, TaskStep, NobodyIsCreated

\* A task that is over.
LEMMA EndKeepsTasks ==
    ASSUME IInv, NEW h \in Tasks, End(h), UNCHANGED <<plans, installments>>,
           settled \subseteq settled', erased \subseteq erased'
    PROVE  TasksOK' /\ tasks' \in [Tasks -> Task]
<1>1. Alone(h) /\ tasks'[h] = IdleTask
  BY EndEffect DEF IInv
<1>2. TaskOK(h)'
  BY <1>1 DEF TaskOK, TaskAt, IdleTask
<1> QED
  BY <1>1, <1>2, OtherTasks, NobodyIsCreated, IdleIsTask DEF Alone, Begun, Unpaid

\* Sending and voiding put no invoice on hold.
LEMMA WriteStatusKeeps ==
    ASSUME IInv, NEW h \in Tasks, Send(h) \/ Void(h)
    PROVE  IInv'
<1>1. PICK step \in {"send", "void"}, status \in {"sent", "voided"} : WriteStatus(h, step, status)
  BY DEF Send, Void
<1>2. PICK i \in Bills : i = tasks[h].invoice
  BY <1>1 DEF WriteStatus, TaskAt, IInv, TasksOK, TaskOK
<1>3. End(h) /\ UNCHANGED <<plans, installments, settled, erased, edits>>
  BY <1>1 DEF WriteStatus, history
<1>4. TypeOK /\ TasksOK' /\ tasks' \in [Tasks -> Task]
  BY <1>3, EndKeepsTasks DEF IInv
<1>5. \/ invoices' = invoices
      \/ Exists(i) /\ invoices' = [invoices EXCEPT ![i].status = status]
  BY <1>1, <1>2 DEF WriteStatus, SetStatus
<1>6. invoices' \in [Bills -> Invoice] /\ PaidWithinAmount'
  BY <1>4, <1>5 DEF TypeOK, Invoice, InvoiceStatuses, IInv, PaidWithinAmount
<1>7. \A k \in Bills : Exists(k)' = Exists(k)
  BY <1>4, <1>5 DEF Exists, TypeOK, Invoice
<1>8. \A k \in Bills : invoices'[k].status = "on_plan" => invoices[k].status = "on_plan"
  BY <1>4, <1>5 DEF TypeOK, Invoice
<1> QED
  BY <1>3, <1>4, <1>6, <1>7, <1>8, InvoiceStep
     DEF IInv, TypeOK, UnbilledBefore, SettledIsBilled, Bills

\* A deleted bill is remembered as erased.
LEMMA DeleteKeeps ==
    ASSUME IInv, NEW h \in Tasks, Delete(h)
    PROVE  IInv'
<1>1. PICK i \in Bills : i = tasks[h].invoice /\ (i \in Installments => Begun(i))
  BY DEF Delete, TaskAt, IInv, TasksOK, TaskOK
<1>2. /\ invoices' = [invoices EXCEPT ![i] = NoInvoice] /\ erased' = erased \cup {i} /\ End(h)
      /\ UNCHANGED <<plans, installments, settled, edits>>
  BY <1>1 DEF Delete
<1>3. TypeOK /\ TasksOK' /\ tasks' \in [Tasks -> Task]
  BY <1>2, EndKeepsTasks DEF IInv
<1>4. NoInvoice \in Invoice /\ NoInvoice.status = "absent" /\ NoInvoice.amount = 0
  BY DEF NoInvoice, Invoice, InvoiceStatuses
<1>5. invoices' \in [Bills -> Invoice] /\ PaidWithinAmount'
  BY <1>2, <1>3, <1>4 DEF TypeOK, IInv, PaidWithinAmount
<1>6. \A k \in Bills : k # i => Exists(k)' = Exists(k)
  BY <1>2, <1>3 DEF Exists, TypeOK
<1>7. \A k \in Bills : invoices'[k].status = "on_plan" => invoices[k].status = "on_plan"
  BY <1>2, <1>3, <1>4 DEF TypeOK
<1>8. \A k \in Installments : Exists(k)' \/ k \in settled' \/ k \in erased' => Begun(k)
  BY <1>1, <1>2, <1>6 DEF IInv, UnbilledBefore, Bills
<1>9. \A k \in settled' : Exists(k)' \/ k \in erased'
  BY <1>2, <1>3, <1>6 DEF IInv, SettledIsBilled, Bills, TypeOK
<1> QED
  BY <1>1, <1>2, <1>3, <1>5, <1>7, <1>8, <1>9, InvoiceStep DEF TypeOK

\* A reversal takes money back; settled remembers.
LEMMA ReverseKeeps ==
    ASSUME IInv, NEW i \in Bills, NEW sum \in 1 .. invoices[i].amountPaid, Reverse(i, sum)
    PROVE  IInv'
<1> DEFINE paid == invoices[i].amountPaid - sum
           status == StatusAfter(i, paid)
<1>0. TypeOK /\ invoices[i] \in Invoice
  BY DEF IInv, TypeOK
<1>1. paid \in Nat /\ paid <= invoices[i].amountPaid
  BY <1>0 DEF Invoice
<1>2. status \in {"paid", "sent", "partial"}
  BY DEF StatusAfter
<1>3. /\ Exists(i) /\ edits' \in 0 .. MaxEdits
      /\ invoices' = [invoices EXCEPT ![i].amountPaid = paid, ![i].status = status]
      /\ UNCHANGED <<plans, installments, tasks, settled, erased>>
  BY <1>0, DeskAssumption DEF Reverse, Edit, TypeOK
<1> HIDE DEF paid, status
<1>4. invoices' \in [Bills -> Invoice] /\ PaidWithinAmount'
  <2>1. invoices' \in [Bills -> Invoice]
    BY <1>0, <1>1, <1>2, <1>3 DEF TypeOK, Invoice, InvoiceStatuses
  <2>2. /\ invoices'[i].amount = invoices[i].amount /\ invoices'[i].amountPaid = paid
        /\ \A k \in Bills \ {i} : invoices'[k] = invoices[k]
    BY <1>0, <1>3 DEF TypeOK, Invoice
  <2>3. invoices[i].amount > 0 => paid <= invoices[i].amount
    BY <1>0, <1>1 DEF IInv, PaidWithinAmount, Invoice
  <2> QED BY <2>1, <2>2, <2>3 DEF IInv, PaidWithinAmount
<1>5. \A k \in Bills : Exists(k)' = Exists(k)
  BY <1>0, <1>2, <1>3 DEF Exists, TypeOK, Invoice
<1>6. \A k \in Bills : invoices'[k].status = "on_plan" => invoices[k].status = "on_plan"
  BY <1>0, <1>2, <1>3 DEF TypeOK, Invoice
<1>7. TasksOK'
  BY <1>3 DEF IInv, TasksOK, TaskOK, TaskAt, Begun, Unpaid
<1> QED
  BY <1>0, <1>3, <1>4, <1>5, <1>6, <1>7, InvoiceStep
     DEF IInv, TypeOK, UnbilledBefore, SettledIsBilled, Bills

\* A payment that makes the plan go on was for an installment that is paid in full.
LEMMA PayKeeps ==
    ASSUME IInv, NEW h \in Tasks, NEW i \in Bills, NEW sum \in 1 .. invoices[i].amount, Pay(h, i, sum)
    PROVE  IInv'
<1> DEFINE amount == invoices[i].amount
           applied == Min({sum, amount - invoices[i].amountPaid})
           paid == invoices[i].amountPaid + applied
           status == IF applied = 0 THEN invoices[i].status ELSE StatusAfter(i, paid)
<1>0. TypeOK /\ invoices[i] \in Invoice /\ amount \in Int /\ amount > 0
      /\ invoices[i].amountPaid \in Nat /\ invoices[i].amountPaid <= amount
  BY DEF IInv, TypeOK, Invoice, PaidWithinAmount
<1>1. applied \in Nat /\ applied <= amount - invoices[i].amountPaid
      /\ (applied = 0 => paid = amount)
  BY <1>0, MinOfTwo
<1>2. paid \in Nat /\ paid <= amount
  BY <1>0, <1>1
<1>3. status = invoices[i].status \/ status \in {"paid", "sent", "partial"}
  BY DEF StatusAfter
<1>4. status = "paid" => paid >= amount
  BY <1>0, <1>1, <1>2 DEF StatusAfter
<1>5. /\ Exists(i) /\ TaskAt(h, "idle")
      /\ invoices' = [invoices EXCEPT ![i].amountPaid = paid, ![i].status = status]
      /\ IF AdvancesPlan(status) /\ i \in Installments
           THEN Start(h, [IdleTask EXCEPT !.step = "settle", !.invoice = i])
           ELSE UNCHANGED tasks
      /\ settled' = IF paid >= amount THEN settled \cup ({i} \cap Installments) ELSE settled
      /\ UNCHANGED <<plans, installments, erased, edits>>
  BY DEF Pay
<1> HIDE DEF status, paid, applied
<1>6. settled \subseteq settled' /\ settled' \subseteq settled \cup ({i} \cap Installments)
  BY <1>5
<1>7. invoices' \in [Bills -> Invoice] /\ PaidWithinAmount'
  BY <1>0, <1>2, <1>3, <1>5 DEF TypeOK, Invoice, InvoiceStatuses, IInv, PaidWithinAmount
<1>8. \A k \in Bills : Exists(k)' = Exists(k)
  BY <1>0, <1>3, <1>5 DEF Exists, TypeOK, Invoice
<1>9. \A k \in Bills : invoices'[k].status = "on_plan" => invoices[k].status = "on_plan"
  BY <1>0, <1>3, <1>5 DEF TypeOK, Invoice
<1>10. TasksOK' /\ tasks' \in [Tasks -> Task]
  <2>1. CASE AdvancesPlan(status) /\ i \in Installments
    <3> DEFINE task == [IdleTask EXCEPT !.step = "settle", !.invoice = i]
    <3>1. task \in Task /\ task.step = "settle" /\ task.invoice = i /\ task.plan = Nobody
      BY InvoiceTask
    <3>2. Start(h, task)
      BY <1>5, <2>1
    <3> HIDE DEF task
    <3>3. Alone(h) /\ tasks'[h] = task
      BY <1>0, <3>1, <3>2, StartEffect
    <3>4. i \in settled'
      BY <1>4, <1>5, <2>1 DEF AdvancesPlan
    <3>5. TaskOK(h)'
      BY <3>1, <3>3, <3>4 DEF TaskOK, TaskAt
    <3> QED
      BY <1>5, <1>6, <3>1, <3>3, <3>5, OtherTasks, NobodyIsCreated DEF Alone, Begun, Unpaid
  <2>2. CASE ~ (AdvancesPlan(status) /\ i \in Installments)
    <3>1. tasks' = tasks
      BY <1>5, <2>2
    <3> QED
      BY <1>0, <1>5, <1>6, <3>1 DEF IInv, TasksOK, TaskOK, TaskAt, Begun, Unpaid, TypeOK
  <2> QED BY <2>1, <2>2
<1>11. \A k \in Installments : Exists(k)' \/ k \in settled' \/ k \in erased' => Begun(k)
  BY <1>5, <1>6, <1>8 DEF IInv, UnbilledBefore, Bills
<1>12. \A k \in settled' : Exists(k)' \/ k \in erased'
  BY <1>0, <1>5, <1>6, <1>8 DEF IInv, SettledIsBilled, Bills, TypeOK
<1>13. settled' \subseteq Installments
  BY <1>0, <1>6 DEF TypeOK
<1> QED
  BY <1>0, <1>5, <1>6, <1>7, <1>9, <1>10, <1>11, <1>12, <1>13, InvoiceStep DEF TypeOK

-----------------------------------------------------------------------------
(* The steps of the plans. *)

\* A request that has passed the checks of create; it is the only one for its plan.
LEMMA ReadToCreateKeeps ==
    ASSUME IInv, NEW h \in Tasks, NEW p \in Plans, NEW S \in SUBSET Sources, ReadToCreate(h, p, S)
    PROVE  IInv'
<1> DEFINE total == Owed(S)
           task == [IdleTask EXCEPT !.step = "create", !.plan = p, !.sources = S, !.total = total]
<1>1. total \in Nat
  <2>1. IsFiniteSet(S) /\ \A s \in S : Price[s] \in Nat
    BY FS_Subset, DeskAssumption
  <2> QED BY <2>1, SumNat DEF Owed
<1>2. /\ Start(h, task) /\ plans[p].status = "absent" /\ \A g \in Tasks : tasks[g].plan # p
      /\ UNCHANGED <<invoices, plans, installments, settled, erased, edits>>
  BY DEF ReadToCreate, history
<1> HIDE DEF total
<1>3. task \in Task /\ task.step = "create" /\ task.plan = p
  BY <1>1 DEF IdleTask, Task
<1> HIDE DEF task
<1>4. Alone(h) /\ tasks'[h] = task
  BY <1>2, <1>3, StartEffect DEF IInv
<1>5. TaskOK(h)'
  BY <1>2, <1>3, <1>4 DEF TaskOK, TaskAt, Alone
<1>6. edits' \in 0 .. MaxEdits
  BY <1>2 DEF IInv, TypeOK
<1> QED BY <1>2, <1>3, <1>4, <1>5, <1>6, TaskStep

\* A job that bills an installment has seen its plan active.
LEMMA ReadToBillKeeps ==
    ASSUME IInv, NEW h \in Tasks, NEW k \in Installments, ReadToBill(h, k)
    PROVE  IInv'
<1> DEFINE task == [IdleTask EXCEPT !.step = "bill", !.invoice = k]
<1>1. /\ Start(h, task) /\ plans[PlanOf(k)].status = "active"
      /\ UNCHANGED <<invoices, plans, installments, settled, erased, edits>>
  BY DEF ReadToBill, Due, history
<1>2. k \in Bills
  BY DEF Bills
<1>3. task \in Task /\ task.step = "bill" /\ task.invoice = k /\ task.plan = Nobody
  BY <1>2 DEF IdleTask, Task
<1> HIDE DEF task
<1>4. Alone(h) /\ tasks'[h] = task
  BY <1>1, <1>3, StartEffect DEF IInv
<1>5. TaskOK(h)'
  BY <1>1, <1>3, <1>4 DEF TaskOK, TaskAt, Begun
<1>6. edits' \in 0 .. MaxEdits
  BY <1>1 DEF IInv, TypeOK
<1> QED BY <1>1, <1>3, <1>4, <1>5, <1>6, TaskStep, NobodyIsCreated

\* A step that ends a task and does nothing else.
LEMMA EndKeeps ==
    ASSUME IInv, NEW h \in Tasks, End(h), edits' \in 0 .. MaxEdits,
           UNCHANGED <<invoices, plans, installments, settled, erased>>
    PROVE  IInv'
<1>1. Alone(h) /\ tasks'[h] = IdleTask
  BY EndEffect DEF IInv
<1>2. TaskOK(h)'
  BY <1>1 DEF TaskOK, TaskAt, IdleTask
<1> QED BY <1>1, <1>2, TaskStep, NobodyIsCreated, IdleIsTask

\* The transaction of onInstallmentInvoicePaid begins.
LEMMA SettleKeeps ==
    ASSUME IInv, NEW h \in Tasks, Settle(h)
    PROVE  IInv'
<1>1. UNCHANGED <<invoices, plans, installments, settled, erased, edits>> /\ TaskAt(h, "settle")
  BY DEF Settle, history
<1>2. edits' \in 0 .. MaxEdits /\ TypeOK /\ TaskOK(h)
  BY <1>1 DEF IInv, TypeOK, TasksOK
<1>3. CASE End(h)
  BY <1>1, <1>2, <1>3, EndKeeps
<1>4. CASE tasks' = [tasks EXCEPT ![h].step = "count"]
  <2>1. Alone(h) /\ tasks'[h] = [tasks[h] EXCEPT !.step = "count"]
    BY <1>2, <1>4 DEF TypeOK, Alone, Task
  <2>2. tasks'[h].step = "count" /\ tasks'[h].invoice = tasks[h].invoice /\ tasks'[h].plan = tasks[h].plan
    BY <1>2, <2>1 DEF TypeOK, Task
  <2>3. TaskOK(h)'
    BY <1>1, <1>2, <2>2 DEF TaskOK, TaskAt
  <2>4. \A g \in Tasks \ {h} : TaskAt(g, "create") => tasks'[h].plan # tasks[g].plan
    BY <2>2 DEF IInv, TasksOK, TaskOK
  <2> QED BY <1>1, <1>2, <2>1, <2>3, <2>4, TaskStep
<1> QED BY <1>3, <1>4 DEF Settle

\* The count that finds nothing left stays right until the commit.
LEMMA CountRemainingKeeps ==
    ASSUME IInv, NEW h \in Tasks, CountRemaining(h)
    PROVE  IInv'
<1> DEFINE k == tasks[h].invoice
           left == {j \in Installments \ {k} : PlanOf(j) = PlanOf(k) /\ Unpaid(j)}
           last == left = {}
<1>1. /\ UNCHANGED <<invoices, plans, installments, settled, erased, edits>> /\ TaskAt(h, "count")
      /\ tasks' = [tasks EXCEPT ![h].step = "commit", ![h].last = last]
  BY DEF CountRemaining, history
<1>2. edits' \in 0 .. MaxEdits /\ TypeOK /\ TaskOK(h)
  BY <1>1 DEF IInv, TypeOK, TasksOK
<1>3. last \in BOOLEAN /\ (last => \A j \in Installments \ {k} : PlanOf(j) = PlanOf(k) => ~ Unpaid(j))
  OBVIOUS
<1> HIDE DEF last
<1>4. Alone(h) /\ tasks'[h] = [tasks[h] EXCEPT !.step = "commit", !.last = last]
  BY <1>1, <1>2, <1>3 DEF TypeOK, Alone, Task
<1>5. /\ tasks'[h].step = "commit" /\ tasks'[h].invoice = k /\ tasks'[h].plan = tasks[h].plan
      /\ tasks'[h].last = last
  BY <1>2, <1>4 DEF TypeOK, Task
<1>6. TaskOK(h)'
  <2>1. k \in settled
    BY <1>1, <1>2 DEF TaskOK, TaskAt
  <2>2. last => \A j \in Installments \ {k} : PlanOf(j) = PlanOf(k) => ~ Unpaid(j)'
    BY <1>1, <1>3 DEF Unpaid
  <2> HIDE DEF k
  <2> QED BY <1>1, <1>5, <2>1, <2>2 DEF TaskOK, TaskAt
<1>7. \A g \in Tasks \ {h} : TaskAt(g, "create") => tasks'[h].plan # tasks[g].plan
  BY <1>5 DEF IInv, TasksOK, TaskOK
<1> QED BY <1>1, <1>2, <1>4, <1>6, <1>7, TaskStep

\* What has been paid, by the plan or by money, was billed after the activation.
LEMMA PaidIsBegun ==
    ASSUME IInv, NEW k \in Installments, ~ Unpaid(k)
    PROVE  k \in settled /\ Begun(k) /\ (Exists(k) \/ k \in erased)
BY DEF IInv, PaidByMoney, UnbilledBefore, SettledIsBilled, Unpaid

\* Changing the status of a set of invoices.
LEMMA RestateEffect ==
    ASSUME TypeOK, NEW S, NEW old, NEW new \in InvoiceStatuses \ {"absent"}, "absent" \notin old
    PROVE  LET rows == Restate(S, old, new) IN
           /\ rows \in [Bills -> Invoice]
           /\ \A i \in Bills :
                /\ rows[i].amount = invoices[i].amount /\ rows[i].amountPaid = invoices[i].amountPaid
                /\ rows[i].status = "absent" <=> ~ Exists(i)
                /\ rows[i].status = IF i \in S /\ invoices[i].status \in old
                                      THEN new ELSE invoices[i].status
<1> DEFINE rows == Restate(S, old, new)
<1>1. ASSUME NEW i \in Bills
      PROVE  /\ rows[i] \in Invoice
             /\ rows[i].amount = invoices[i].amount /\ rows[i].amountPaid = invoices[i].amountPaid
             /\ rows[i].status = IF i \in S /\ invoices[i].status \in old
                                   THEN new ELSE invoices[i].status
  <2>1. invoices[i] \in Invoice
    BY DEF TypeOK
  <2>2. rows[i] = IF i \in S /\ invoices[i].status \in old
                    THEN [invoices[i] EXCEPT !.status = new] ELSE invoices[i]
    BY DEF Restate
  <2> QED BY <2>1, <2>2 DEF Invoice
<1>2. rows = [i \in Bills |-> rows[i]]
  BY DEF Restate
<1>3. rows \in [Bills -> Invoice]
  BY <1>1, <1>2
<1> HIDE DEF rows
<1>4. \A i \in Bills : rows[i].status = "absent" <=> ~ Exists(i)
  BY <1>1 DEF Exists
<1> QED BY <1>1, <1>3, <1>4 DEF rows

\* The row of a new bill.
LEMMA BillForType ==
    ASSUME TypeOK, NEW k \in Installments
    PROVE  /\ BillFor(k) \in Invoice /\ BillFor(k).status = "sent" /\ BillFor(k).amountPaid = 0
           /\ k \in Bills
BY DEF TypeOK, Installment, Invoice, InvoiceStatuses, BillFor, Bills

\* A step on plans and installments that leaves the tasks and the history alone.
LEMMA PlanTasks ==
    ASSUME IInv, UNCHANGED <<tasks, settled, erased>>,
           \A k \in Installments : Begun(k) => Begun(k)',
           \A k \in Installments : ~ Unpaid(k) => ~ Unpaid(k)',
           \A q \in Plans : plans[q].status = "absent" => plans'[q].status = "absent"
    PROVE  TasksOK'
<1>1. ASSUME NEW g \in Tasks PROVE TaskOK(g)'
  <2>1. TaskOK(g) /\ TypeOK
    BY DEF IInv, TasksOK
  <2>2. TaskAt(g, "create") =>
           /\ plans'[tasks[g].plan].status = "absent"
           /\ \A f \in Tasks \ {g} : tasks'[f].plan # tasks[g].plan
    BY <2>1 DEF TaskOK
  <2> QED BY <2>1, <2>2, OtherTask
<1> QED BY <1>1 DEF TasksOK

\* A new plan has nothing billed, and no other task creates it.
LEMMA CreatePlanKeeps ==
    ASSUME IInv, NEW h \in Tasks, CreatePlan(h)
    PROVE  IInv'
<1> DEFINE p == tasks[h].plan
           row == [status |-> "pending", sources |-> tasks[h].sources, total |-> tasks[h].total]
<1>1. /\ plans' = [plans EXCEPT ![p] = row]
      /\ installments' = [k \in Installments |->
            IF PlanOf(k) = p
              THEN [status |-> "pending", amount |-> AmountOf(tasks[h].total, k[2])]
              ELSE installments[k]]
      /\ End(h) /\ TaskAt(h, "create")
      /\ UNCHANGED <<invoices, settled, erased, edits>>
  BY DEF CreatePlan, history
<1>2. /\ TypeOK /\ p \in Plans /\ plans[p].status = "absent"
      /\ \A g \in Tasks \ {h} : tasks[g].plan # p
  BY <1>1 DEF IInv, TasksOK, TaskOK
<1>3. row \in Plan /\ row.status = "pending" /\ tasks[h].total \in Nat
  BY <1>2 DEF TypeOK, Task, Plan
<1> HIDE DEF row
<1>4. /\ plans' \in [Plans -> Plan] /\ plans'[p].status = "pending"
      /\ \A q \in Plans \ {p} : plans'[q] = plans[q]
  BY <1>1, <1>2, <1>3 DEF TypeOK
<1>5. \A k \in Installments : PlanOf(k) \in Plans /\ k[2] \in 1 .. Count
  BY DEF Installments, PlanOf
<1>6. /\ installments' \in [Installments -> Installment]
      /\ \A k \in Installments : PlanOf(k) = p => installments'[k].status = "pending"
      /\ \A k \in Installments : PlanOf(k) # p => installments'[k] = installments[k]
  <2>1. ASSUME NEW k \in Installments, PlanOf(k) = p
        PROVE  [status |-> "pending", amount |-> AmountOf(tasks[h].total, k[2])] \in Installment
    <3>1. AmountOf(tasks[h].total, k[2]) \in Int
      BY <1>3, <1>5, AmountType
    <3> QED BY <3>1 DEF Installment
  <2> QED BY <1>1, <1>2, <2>1 DEF TypeOK
<1>7. Alone(h) /\ tasks'[h] = IdleTask
  BY <1>1, <1>2, EndEffect
<1>8. \A k \in Installments : Begun(k)' = Begun(k)
  BY <1>2, <1>4, <1>5 DEF Begun
<1>9. \A k \in Installments : PlanOf(k) = p => Unpaid(k) /\ ~ Begun(k)
  BY <1>2, PaidIsBegun DEF Begun
<1>10. TypeOK'
  BY <1>1, <1>2, <1>4, <1>6, <1>7 DEF TypeOK, Alone
<1>11. TasksOK'
  <2>1. TaskOK(h)'
    BY <1>7 DEF TaskOK, TaskAt, IdleTask
  <2>2. \A k \in Installments : ~ Unpaid(k) => ~ Unpaid(k)'
    BY <1>6, <1>9 DEF Unpaid
  <2>3. \A g \in Tasks \ {h} : TaskAt(g, "create") =>
           /\ plans'[tasks[g].plan].status = plans[tasks[g].plan].status
           /\ tasks'[h].plan # tasks[g].plan
    BY <1>2, <1>4, <1>7, NobodyIsCreated, IdleIsTask
  <2> QED BY <1>1, <1>7, <1>8, <2>1, <2>2, <2>3, OtherTasks DEF Alone
<1>12. UnbilledBefore' /\ SettledIsBilled' /\ PaidWithinAmount'
  BY <1>1, <1>8 DEF IInv, UnbilledBefore, SettledIsBilled, PaidWithinAmount, Exists
<1>13. OnPlanHasPlan'
  <2>1. ASSUME NEW q \in Plans, plans[q].status = "active" PROVE plans'[q] = plans[q]
    BY <1>2, <1>4, <2>1
  <2> QED BY <1>1, <2>1 DEF IInv, OnPlanHasPlan
<1>14. CompletedIsPaid'
  BY <1>1, <1>4, <1>5, <1>6 DEF IInv, CompletedIsPaid
<1>15. PaidByMoney'
  BY <1>1, <1>6 DEF IInv, PaidByMoney
<1> QED BY <1>10, <1>11, <1>12, <1>13, <1>14, <1>15 DEF IInv

\* The sources put on hold are those of the plan that is in force from now on.
LEMMA ActivateKeeps ==
    ASSUME IInv, NEW p \in Plans, Activate(p)
    PROVE  IInv'
<1> DEFINE first == <<p, 1>>
           rows == Restate(plans[p].sources, {"draft", "sent", "partial", "on_plan"}, "on_plan")
           bill == BillFor(first)
<1>0. first \in Installments /\ PlanOf(first) = p
  BY DeskAssumption DEF Installments, PlanOf
<1>1. /\ plans[p].status = "pending" /\ plans' = [plans EXCEPT ![p].status = "active"]
      /\ invoices' = [rows EXCEPT ![first] = bill]
      /\ installments' = [installments EXCEPT ![first].status = "invoiced"]
      /\ UNCHANGED <<tasks, settled, erased, edits>>
  BY DEF Activate, history
<1>2. TypeOK
  BY DEF IInv
<1>3. /\ rows \in [Bills -> Invoice]
      /\ \A i \in Bills :
           /\ rows[i].amount = invoices[i].amount /\ rows[i].amountPaid = invoices[i].amountPaid
           /\ rows[i].status = "absent" <=> ~ Exists(i)
           /\ rows[i].status = "on_plan" => invoices[i].status = "on_plan" \/ i \in plans[p].sources
  BY <1>2, RestateEffect DEF InvoiceStatuses
<1>4. bill \in Invoice /\ bill.status = "sent" /\ bill.amountPaid = 0 /\ first \in Bills
  BY <1>0, <1>2, BillForType
<1> HIDE DEF first, rows, bill
<1>5. /\ invoices' \in [Bills -> Invoice] /\ invoices'[first] = bill
      /\ \A i \in Bills \ {first} : invoices'[i] = rows[i]
  BY <1>1, <1>3, <1>4
<1>6. /\ plans' \in [Plans -> Plan] /\ plans'[p].status = "active"
      /\ plans'[p].sources = plans[p].sources
      /\ \A q \in Plans \ {p} : plans'[q] = plans[q]
  BY <1>1, <1>2 DEF TypeOK, Plan
<1>7. /\ installments' \in [Installments -> Installment]
      /\ installments'[first].status = "invoiced"
      /\ \A k \in Installments \ {first} : installments'[k] = installments[k]
  BY <1>0, <1>1, <1>2 DEF TypeOK, Installment
<1>8. \A k \in Installments : PlanOf(k) \in Plans
  BY DEF Installments, PlanOf
<1>9. \A k \in Installments : Begun(k)' <=> Begun(k) \/ PlanOf(k) = p
  BY <1>1, <1>6, <1>8 DEF Begun
<1>10. Unpaid(first)
  BY <1>0, <1>1, PaidIsBegun DEF Begun
<1>11. \A i \in Bills : Exists(i)' <=> Exists(i) \/ i = first
  BY <1>3, <1>4, <1>5 DEF Exists
<1>12. TypeOK'
  BY <1>1, <1>2, <1>5, <1>6, <1>7 DEF TypeOK
<1>13. TasksOK'
  <2>1. \A k \in Installments : ~ Unpaid(k) => ~ Unpaid(k)'
    BY <1>7, <1>10 DEF Unpaid
  <2>2. \A q \in Plans : plans[q].status = "absent" => plans'[q].status = "absent"
    BY <1>1, <1>6
  <2> QED BY <1>1, <1>9, <2>1, <2>2, PlanTasks
<1>14. UnbilledBefore'
  BY <1>0, <1>1, <1>9, <1>11 DEF IInv, UnbilledBefore, Bills
<1>15. SettledIsBilled'
  BY <1>1, <1>2, <1>11 DEF IInv, SettledIsBilled, Bills, TypeOK
<1>16. PaidWithinAmount'
  <2>1. ASSUME NEW i \in Bills, invoices'[i].amount > 0
        PROVE  invoices'[i].amountPaid <= invoices'[i].amount
    <3>1. CASE i = first
      <4>1. bill.amount \in Int
        BY <1>4 DEF Invoice
      <4> QED BY <1>4, <1>5, <2>1, <3>1, <4>1
    <3>2. CASE i # first
      BY <1>3, <1>5, <2>1, <3>2 DEF IInv, PaidWithinAmount
    <3> QED BY <3>1, <3>2
  <2> QED BY <2>1 DEF PaidWithinAmount
<1>17. OnPlanHasPlan'
  <2>1. ASSUME NEW i \in Bills, invoices'[i].status = "on_plan"
        PROVE  \E q \in Plans : plans'[q].status = "active" /\ i \in plans'[q].sources
    <3>1. invoices[i].status = "on_plan" \/ i \in plans[p].sources
      BY <1>3, <1>4, <1>5, <2>1
    <3>2. CASE i \in plans[p].sources
      BY <1>6, <3>2
    <3>3. CASE invoices[i].status = "on_plan"
      BY <1>1, <1>6, <3>3 DEF IInv, OnPlanHasPlan
    <3> QED BY <3>1, <3>2, <3>3
  <2> QED BY <2>1 DEF OnPlanHasPlan
<1>18. CompletedIsPaid'
  BY <1>0, <1>1, <1>6, <1>7, <1>8 DEF IInv, CompletedIsPaid
<1>19. PaidByMoney'
  BY <1>1, <1>7 DEF IInv, PaidByMoney
<1> QED
  BY <1>12, <1>13, <1>14, <1>15, <1>16, <1>17, <1>18, <1>19 DEF IInv

\* What stays on hold is held by another plan.
LEMMA CancelKeeps ==
    ASSUME IInv, NEW p \in Plans, Cancel(p)
    PROVE  IInv'
<1> DEFINE rows == Restate(plans[p].sources, {"on_plan"}, "sent")
           Open(i) == i \in Installments /\ i[1] = p /\ invoices[i].status \in {"draft", "sent", "partial"}
<1>1. /\ plans[p].status \in {"pending", "active"}
      /\ plans' = [plans EXCEPT ![p].status = "cancelled"]
      /\ invoices' = [i \in Bills |->
            IF Open(i) THEN [invoices[i] EXCEPT !.status = "voided"] ELSE rows[i]]
      /\ UNCHANGED <<installments, tasks, settled, erased, edits>>
  BY DEF Cancel, Released, history
<1>2. TypeOK
  BY DEF IInv
<1>3. /\ rows \in [Bills -> Invoice]
      /\ \A i \in Bills :
           /\ rows[i].amount = invoices[i].amount /\ rows[i].amountPaid = invoices[i].amountPaid
           /\ rows[i].status = "absent" <=> ~ Exists(i)
           /\ rows[i].status = "on_plan" => invoices[i].status = "on_plan" /\ i \notin plans[p].sources
  BY <1>2, RestateEffect DEF InvoiceStatuses
<1> HIDE DEF rows
<1>4. ASSUME NEW i \in Bills
      PROVE  /\ invoices'[i] \in Invoice
             /\ invoices'[i].amount = invoices[i].amount
             /\ invoices'[i].amountPaid = invoices[i].amountPaid
             /\ Exists(i)' = Exists(i)
             /\ invoices'[i].status = "on_plan" =>
                   invoices[i].status = "on_plan" /\ i \notin plans[p].sources
  <2>1. CASE Open(i)
    <3>1. invoices'[i] = [invoices[i] EXCEPT !.status = "voided"] /\ invoices[i] \in Invoice
      BY <1>1, <1>2, <2>1 DEF TypeOK
    <3> QED BY <2>1, <3>1 DEF Invoice, InvoiceStatuses, Exists
  <2>2. CASE ~ Open(i)
    <3>1. invoices'[i] = rows[i]
      BY <1>1, <2>2
    <3> QED BY <1>3, <3>1 DEF Exists
  <2> QED BY <2>1, <2>2
<1>5. invoices' \in [Bills -> Invoice]
  BY <1>1, <1>4
<1>6. /\ plans' \in [Plans -> Plan] /\ plans'[p].status = "cancelled"
      /\ \A q \in Plans \ {p} : plans'[q] = plans[q]
  BY <1>1, <1>2 DEF TypeOK, Plan
<1>7. \A k \in Installments : PlanOf(k) \in Plans
  BY DEF Installments, PlanOf
<1>8. \A k \in Installments : Begun(k) => Begun(k)'
  BY <1>6, <1>7 DEF Begun
<1>9. TypeOK'
  BY <1>1, <1>2, <1>5, <1>6 DEF TypeOK
<1>10. TasksOK'
  <2>1. \A q \in Plans : plans[q].status = "absent" => plans'[q].status = "absent"
    BY <1>1, <1>6
  <2>2. \A k \in Installments : ~ Unpaid(k) => ~ Unpaid(k)'
    BY <1>1 DEF Unpaid
  <2> QED BY <1>1, <1>8, <2>1, <2>2, PlanTasks
<1>11. UnbilledBefore' /\ SettledIsBilled'
  BY <1>1, <1>2, <1>4, <1>8 DEF IInv, UnbilledBefore, SettledIsBilled, Bills, TypeOK
<1>12. PaidWithinAmount'
  BY <1>4 DEF IInv, PaidWithinAmount
<1>13. OnPlanHasPlan'
  <2>1. ASSUME NEW i \in Bills, invoices'[i].status = "on_plan"
        PROVE  \E q \in Plans : plans'[q].status = "active" /\ i \in plans'[q].sources
    BY <1>4, <1>6, <2>1 DEF IInv, OnPlanHasPlan
  <2> QED BY <2>1 DEF OnPlanHasPlan
<1>14. CompletedIsPaid' /\ PaidByMoney'
  BY <1>1, <1>6, <1>7 DEF IInv, CompletedIsPaid, PaidByMoney
<1> QED BY <1>9, <1>10, <1>11, <1>12, <1>13, <1>14 DEF IInv

\* Billing an installment: one that was paid before had its invoice deleted.
LEMMA BillKeeps ==
    ASSUME IInv, NEW h \in Tasks, Bill(h)
    PROVE  IInv'
<1>1. PICK k \in Installments : k = tasks[h].invoice /\ Begun(k)
  BY DEF Bill, TaskAt, IInv, TasksOK, TaskOK
<1> DEFINE bill == BillFor(k)
<1>2. /\ End(h) /\ UNCHANGED <<plans, settled, erased, edits>>
      /\ IF Exists(k)
           THEN UNCHANGED <<invoices, installments>>
           ELSE /\ invoices' = [invoices EXCEPT ![k] = bill]
                /\ installments' = [installments EXCEPT ![k].status = "invoiced"]
  BY <1>1 DEF Bill, history
<1>3. TypeOK
  BY DEF IInv
<1>4. bill \in Invoice /\ bill.status = "sent" /\ bill.amountPaid = 0 /\ bill.amount \in Int /\ k \in Bills
  BY <1>3, BillForType DEF Invoice
<1>5. CASE Exists(k)
  <2>1. edits' \in 0 .. MaxEdits
    BY <1>2, <1>3 DEF TypeOK
  <2> QED BY <1>2, <1>5, <2>1, EndKeeps
<1>6. CASE ~ Exists(k)
  <2> HIDE DEF bill
  <2>1. /\ invoices' \in [Bills -> Invoice] /\ invoices'[k] = bill
        /\ \A i \in Bills \ {k} : invoices'[i] = invoices[i]
    BY <1>2, <1>3, <1>4, <1>6 DEF TypeOK
  <2>2. /\ installments' \in [Installments -> Installment]
        /\ \A j \in Installments \ {k} : installments'[j] = installments[j]
        /\ installments'[k].status = "invoiced"
    BY <1>2, <1>3, <1>6 DEF TypeOK, Installment
  <2>3. \A j \in Installments : ~ Unpaid(j) => ~ Unpaid(j)' \/ j \in erased
    BY <1>6, <2>2, PaidIsBegun DEF Unpaid
  <2>4. Alone(h) /\ tasks'[h] = IdleTask
    BY <1>2, <1>3, EndEffect
  <2>5. TypeOK'
    BY <1>2, <1>3, <2>1, <2>2, <2>4 DEF TypeOK, Alone
  <2>6. TasksOK'
    <3>1. TaskOK(h)'
      BY <2>4 DEF TaskOK, TaskAt, IdleTask
    <3> QED
      BY <1>2, <2>3, <2>4, <3>1, OtherTasks, NobodyIsCreated, IdleIsTask DEF Alone, Begun
  <2>7. UnbilledBefore'
    BY <1>1, <1>2, <2>1 DEF IInv, UnbilledBefore, Exists, Begun, Bills
  <2>8. SettledIsBilled'
    BY <1>2, <1>3, <1>4, <2>1 DEF IInv, SettledIsBilled, Exists, Bills, TypeOK
  <2>9. PaidWithinAmount'
    <3>1. ASSUME NEW i \in Bills, invoices'[i].amount > 0
          PROVE  invoices'[i].amountPaid <= invoices'[i].amount
      BY <1>4, <2>1, <3>1 DEF IInv, PaidWithinAmount
    <3> QED BY <3>1 DEF PaidWithinAmount
  <2>10. OnPlanHasPlan'
    BY <1>2, <1>4, <2>1 DEF IInv, OnPlanHasPlan
  <2>11. CompletedIsPaid'
    BY <1>2, <2>3 DEF IInv, CompletedIsPaid, Unpaid
  <2>12. PaidByMoney'
    BY <1>2, <2>2 DEF IInv, PaidByMoney
  <2> QED BY <2>5, <2>6, <2>7, <2>8, <2>9, <2>10, <2>11, <2>12 DEF IInv
<1> QED BY <1>5, <1>6

\* The commit completes the plan only when no installment was left.
LEMMA CommitKeeps ==
    ASSUME IInv, NEW h \in Tasks, Commit(h)
    PROVE  IInv'
<1>1. PICK k \in Installments : k = tasks[h].invoice /\ k \in settled
  BY DEF Commit, TaskAt, IInv, TypeOK, TasksOK, TaskOK
<1> DEFINE p == PlanOf(k)
           last == tasks[h].last
           rows == Restate(plans[p].sources, {"on_plan"}, "paid")
<1>2. /\ TaskAt(h, "commit") /\ installments' = [installments EXCEPT ![k].status = "paid"]
      /\ IF last
           THEN plans' = [plans EXCEPT ![p].status = "completed"] /\ invoices' = rows
           ELSE UNCHANGED <<plans, invoices>>
      /\ End(h) /\ UNCHANGED <<settled, erased, edits>>
  BY <1>1 DEF Commit, history
<1>3. TypeOK /\ Begun(k) /\ p \in Plans
  BY <1>1 DEF IInv, UnbilledBefore, Installments, PlanOf
<1>4. last => \A j \in Installments \ {k} : PlanOf(j) = p => ~ Unpaid(j) \/ j \in erased
  BY <1>1, <1>2 DEF IInv, TasksOK, TaskOK
<1>5. /\ rows \in [Bills -> Invoice]
      /\ \A i \in Bills :
           /\ rows[i].amount = invoices[i].amount /\ rows[i].amountPaid = invoices[i].amountPaid
           /\ rows[i].status = "absent" <=> ~ Exists(i)
           /\ rows[i].status = "on_plan" => invoices[i].status = "on_plan" /\ i \notin plans[p].sources
  BY <1>3, RestateEffect DEF InvoiceStatuses
<1> HIDE DEF rows
<1>6. /\ invoices' \in [Bills -> Invoice]
      /\ \A i \in Bills :
           /\ invoices'[i].amount = invoices[i].amount
           /\ invoices'[i].amountPaid = invoices[i].amountPaid
           /\ Exists(i)' = Exists(i)
           /\ invoices'[i].status = "on_plan" => invoices[i].status = "on_plan"
           /\ last /\ invoices'[i].status = "on_plan" => i \notin plans[p].sources
  BY <1>2, <1>3, <1>5 DEF TypeOK, Exists
<1>7. /\ plans' \in [Plans -> Plan]
      /\ last => plans'[p].status = "completed"
      /\ ~ last => plans' = plans
      /\ \A q \in Plans \ {p} : plans'[q] = plans[q]
  BY <1>2, <1>3 DEF TypeOK, Plan
<1>8. /\ installments' \in [Installments -> Installment]
      /\ installments'[k].status = "paid"
      /\ \A j \in Installments \ {k} : installments'[j] = installments[j]
  BY <1>2, <1>3 DEF TypeOK, Installment
<1>9. Alone(h) /\ tasks'[h] = IdleTask
  BY <1>2, <1>3, EndEffect
<1> HIDE DEF last
<1>10. \A j \in Installments : PlanOf(j) \in Plans
  BY DEF Installments, PlanOf
<1>11. \A j \in Installments : Begun(j) => Begun(j)'
  BY <1>7, <1>10 DEF Begun
<1>12. \A j \in Installments : ~ Unpaid(j) => ~ Unpaid(j)'
  BY <1>8 DEF Unpaid
<1>13. TypeOK'
  BY <1>2, <1>3, <1>6, <1>7, <1>8, <1>9 DEF TypeOK, Alone
<1>14. TasksOK'
  <2>1. TaskOK(h)'
    BY <1>9 DEF TaskOK, TaskAt, IdleTask
  <2>2. \A g \in Tasks \ {h} : TaskAt(g, "create") =>
           /\ plans'[tasks[g].plan].status = plans[tasks[g].plan].status
           /\ tasks'[h].plan # tasks[g].plan
    BY <1>3, <1>7, <1>9, NobodyIsCreated, IdleIsTask DEF Begun
  <2> QED BY <1>2, <1>9, <1>11, <1>12, <2>1, <2>2, OtherTasks DEF Alone
<1>15. UnbilledBefore' /\ SettledIsBilled'
  BY <1>2, <1>3, <1>6, <1>11 DEF IInv, UnbilledBefore, SettledIsBilled, Bills, TypeOK
<1>16. PaidWithinAmount'
  BY <1>6 DEF IInv, PaidWithinAmount
<1>17. OnPlanHasPlan'
  <2>1. ASSUME NEW i \in Bills, invoices'[i].status = "on_plan"
        PROVE  \E q \in Plans : plans'[q].status = "active" /\ i \in plans'[q].sources
    BY <1>6, <1>7, <2>1 DEF IInv, OnPlanHasPlan
  <2> QED BY <2>1 DEF OnPlanHasPlan
<1>18. CompletedIsPaid'
  <2>1. ASSUME NEW j \in Installments, plans'[PlanOf(j)].status = "completed"
        PROVE  installments'[j].status = "paid" \/ j \in erased
    <3>1. CASE j = k
      BY <1>8, <3>1
    <3>2. CASE j # k /\ PlanOf(j) = p /\ last
      BY <1>4, <1>8, <3>2 DEF Unpaid
    <3>3. CASE j # k /\ ~ (PlanOf(j) = p /\ last)
      BY <1>7, <1>8, <1>10, <2>1, <3>3 DEF IInv, CompletedIsPaid
    <3> QED BY <3>1, <3>2, <3>3
  <2> QED BY <1>2, <2>1 DEF CompletedIsPaid
<1>19. PaidByMoney'
  BY <1>1, <1>2, <1>8 DEF IInv, PaidByMoney
<1> QED
  BY <1>13, <1>14, <1>15, <1>16, <1>17, <1>18, <1>19 DEF IInv

-----------------------------------------------------------------------------
\* Every step keeps the invariant.
LEMMA NextIInv == IInv /\ [Next]_vars => IInv'
<1> SUFFICES ASSUME IInv, [Next]_vars PROVE IInv'
  OBVIOUS
<1>1. CASE OfficeStep
  BY <1>1, CreateInvoiceKeeps DEF OfficeStep
<1>2. CASE PlanStep
  BY <1>2, ActivateKeeps, CancelKeeps DEF PlanStep
<1>3. CASE \E i \in Bills : \E sum \in 1 .. invoices[i].amountPaid : Reverse(i, sum)
  BY <1>3, ReverseKeeps
<1>4. ASSUME NEW h \in Tasks, BeginTask(h) PROVE IInv'
  BY <1>4, ReadKeeps, PayKeeps, ReadToCreateKeeps, ReadToBillKeeps DEF BeginTask
<1>5. ASSUME NEW h \in Tasks, Proceed(h) PROVE IInv'
  BY <1>5, WriteStatusKeeps, DeleteKeeps, CreatePlanKeeps, BillKeeps, SettleKeeps,
     CountRemainingKeeps, CommitKeeps DEF Proceed
<1>6. ASSUME NEW h \in Tasks, Interrupt(h) PROVE IInv'
  <2>1. edits' \in 0 .. MaxEdits
    BY <1>6, DeskAssumption DEF Interrupt, Edit, IInv, TypeOK
  <2> QED BY <1>6, <2>1, EndKeeps DEF Interrupt
<1>7. CASE UNCHANGED vars
  <2>1. UNCHANGED <<invoices, plans, installments, tasks, settled, erased, edits>>
    BY <1>7 DEF vars
  <2>2. TypeOK' /\ TasksOK'
    BY <2>1 DEF IInv, TypeOK, TasksOK, TaskOK, TaskAt, Begun, Unpaid
  <2>3. UnbilledBefore' /\ SettledIsBilled' /\ PaidWithinAmount'
    BY <2>1 DEF IInv, UnbilledBefore, SettledIsBilled, PaidWithinAmount, Exists, Begun
  <2>4. OnPlanHasPlan' /\ CompletedIsPaid' /\ PaidByMoney'
    BY <2>1 DEF IInv, OnPlanHasPlan, CompletedIsPaid, PaidByMoney
  <2> QED BY <2>2, <2>3, <2>4 DEF IInv
<1> QED BY <1>1, <1>2, <1>3, <1>4, <1>5, <1>6, <1>7 DEF Next

\* The invariant holds however requests, jobs and crashes interleave.
THEOREM Invariance == Spec => []IInv
<1>1. Init => IInv
  BY InitIInv
<1>2. IInv /\ [Next]_vars => IInv'
  BY NextIInv
<1> QED BY <1>1, <1>2, PTL DEF Spec

\* The rows and tasks keep their types.
THEOREM TypeCorrect == Spec => []TypeOK
<1>1. IInv => TypeOK
  BY DEF IInv
<1> QED BY <1>1, Invariance, PTL

\* No invoice is left on hold by a plan that has ended (cancel and
\* onInstallmentInvoicePaid release the sources that are on hold), for any
\* number of plans that share it.
THEOREM HoldsEndWithTheirPlan == Spec => []OnPlanHasPlan
<1>1. IInv => OnPlanHasPlan
  BY DEF IInv
<1> QED BY <1>1, Invariance, PTL

\* A completed plan has all its installments paid, unless an invoice of it was
\* deleted: what onInstallmentInvoicePaid counts before its commit stays right.
THEOREM PlansCompleteByPayment == Spec => []CompletedIsPaid
<1>1. IInv => CompletedIsPaid
  BY DEF IInv
<1> QED BY <1>1, Invariance, PTL

\* No installment is marked paid before its invoice was paid in full.
THEOREM InstallmentsPaidByMoney == Spec => []PaidByMoney
<1>1. IInv => PaidByMoney
  BY DEF IInv
<1> QED BY <1>1, Invariance, PTL

-----------------------------------------------------------------------------
(* The installments add up. *)

\* The shares and the last installment, which absorbs the drift, are the total.
LEMMA AmountsTie ==
    ASSUME NEW total \in Nat
    PROVE  SumFunction([n \in 1 .. Count |-> AmountOf(total, n)]) = total
<1> DEFINE amounts == [n \in 1 .. Count |-> AmountOf(total, n)]
           m == Count - 1
           s == Share(total)
<1>1. /\ Count \in Nat /\ m \in Nat /\ Count \in 1 .. Count
      /\ (1 .. Count) \ {Count} = 1 .. m /\ IsFiniteSet(1 .. Count)
  <2>1. Count \in Nat /\ m \in Nat /\ Count \in 1 .. Count
    BY DeskAssumption
  <2>2. (1 .. Count) \ {Count} = 1 .. m
    BY <2>1
  <2>3. 1 \in Int /\ Count \in Int
    BY <2>1
  <2>4. IsFiniteSet(1 .. Count)
    BY <2>3, FS_Interval
  <2> QED BY <2>1, <2>2, <2>4
<1>2. \A n \in 1 .. Count : amounts[n] \in Int
  BY AmountType
<1>3. s \in Int
  <2>1. 1 \in 1 .. Count /\ 1 # Count
    BY DeskAssumption
  <2>2. AmountOf(total, 1) = s
    BY <2>1 DEF AmountOf
  <2> QED BY <2>1, <2>2, AmountType
<1>4. (\A n \in 1 .. m : amounts[n] = s) /\ amounts[Count] = total - s * m
  <2>1. \A n \in 1 .. m : n \in 1 .. Count /\ n # Count
    BY <1>1
  <2> HIDE DEF m, s
  <2> QED BY <1>1, <2>1 DEF AmountOf, m, s
<1> HIDE DEF amounts, m, s
<1>5. SumFunctionOnSet(amounts, 1 .. Count) = amounts[Count] + SumFunctionOnSet(amounts, 1 .. m)
  <2>1. SumFunctionOnSet(amounts, 1 .. Count) =
            amounts[Count] + SumFunctionOnSet(amounts, (1 .. Count) \ {Count})
    BY <1>1, <1>2, SumRemove
  <2> QED BY <1>1, <2>1
<1>6. SumFunctionOnSet(amounts, 1 .. m) = m * s
  BY <1>1, <1>3, <1>4, SumEqualTerms
<1>7. (total - s * m) + m * s = total
  BY <1>1, <1>3
<1>8. SumFunction(amounts) = SumFunctionOnSet(amounts, 1 .. Count)
  BY DEF SumFunction, amounts
<1> QED BY <1>4, <1>5, <1>6, <1>7, <1>8 DEF amounts

\* Only the transaction of create writes totals and amounts.
LEMMA AmountSteps ==
    ASSUME IInv, [Next]_vars
    PROVE  \/ \E h \in Tasks : CreatePlan(h)
           \/ /\ \A p \in Plans : plans'[p].total = plans[p].total
              /\ \A k \in Installments : installments'[k].amount = installments[k].amount
<1> DEFINE Kept == /\ \A p \in Plans : plans'[p].total = plans[p].total
                   /\ \A k \in Installments : installments'[k].amount = installments[k].amount
<1> USE DEF history
<1>0. TypeOK
  BY DEF IInv
<1>1. CASE UNCHANGED <<plans, installments>>
  BY <1>1
<1>2. ASSUME plans' = plans, NEW k, NEW status,
             installments' = [installments EXCEPT ![k].status = status]
      PROVE  Kept
  BY <1>0, <1>2 DEF TypeOK, Installment
<1>3. ASSUME NEW p \in Plans, Activate(p) \/ Cancel(p) PROVE Kept
  <2>1. PICK status : plans' = [plans EXCEPT ![p].status = status]
    BY <1>3 DEF Activate, Cancel
  <2>2. \A q \in Plans : plans'[q].total = plans[q].total
    BY <1>0, <2>1 DEF TypeOK, Plan
  <2>3. \/ installments' = installments
        \/ installments' = [installments EXCEPT ![<<p, 1>>].status = "invoiced"]
    BY <1>3 DEF Activate, Cancel
  <2>4. \A k \in Installments : installments'[k].amount = installments[k].amount
    BY <1>0, <2>3 DEF TypeOK, Installment
  <2> QED BY <2>2, <2>4
<1>4. ASSUME NEW h \in Tasks, Bill(h) PROVE Kept
  BY <1>1, <1>2, <1>4 DEF Bill
<1>5. ASSUME NEW h \in Tasks, Commit(h) PROVE Kept
  <2> DEFINE k == tasks[h].invoice
             p == PlanOf(k)
  <2>1. \A j \in Installments : installments'[j].amount = installments[j].amount
    BY <1>0, <1>5 DEF Commit, TypeOK, Installment
  <2>2. plans' = plans \/ plans' = [plans EXCEPT ![p].status = "completed"]
    BY <1>5 DEF Commit
  <2> HIDE DEF p
  <2>3. \A q \in Plans : plans'[q].total = plans[q].total
    BY <1>0, <2>2 DEF TypeOK, Plan
  <2> QED BY <2>1, <2>3
<1>6. ASSUME NEW h \in Tasks, BeginTask(h) \/ Interrupt(h) PROVE UNCHANGED <<plans, installments>>
  BY <1>6 DEF BeginTask, ReadToSend, ReadToVoid, ReadToDelete, Pay, ReadToCreate, ReadToBill, Interrupt
<1>7. ASSUME NEW h \in Tasks, Proceed(h), ~ CreatePlan(h) PROVE Kept
  BY <1>1, <1>4, <1>5, <1>7 DEF Proceed, Send, Void, WriteStatus, Delete, Settle, CountRemaining
<1>8. CASE \/ OfficeStep \/ UNCHANGED vars
           \/ \E i \in Bills : \E sum \in 1 .. invoices[i].amountPaid : Reverse(i, sum)
  BY <1>1, <1>8 DEF OfficeStep, CreateInvoice, Reverse, vars
<1> QED BY <1>1, <1>3, <1>6, <1>7, <1>8 DEF Next, PlanStep

\* The installments of every plan, whatever its total and their number, add up
\* to the total that create consolidated ("the plan total ties back exactly").
THEOREM PlansTie == Spec => []InstallmentsTie
<1> DEFINE Amounts(p) == [n \in 1 .. Count |-> installments[<<p, n>>].amount]
<1>1. Init => InstallmentsTie
  <2> SUFFICES ASSUME Init, NEW p \in Plans
               PROVE  plans[p].total = SumFunction(Amounts(p))
    BY DEF InstallmentsTie
  <2>1. \A n \in 1 .. Count : Amounts(p)[n] = 0
    BY DEF Init, Installments
  <2>2. SumFunction(Amounts(p)) = SumFunctionOnSet(Amounts(p), 1 .. Count)
    BY DEF SumFunction
  <2>3. IsFiniteSet(1 .. Count)
    <3>1. 1 \in Int /\ Count \in Int
      BY DeskAssumption
    <3> QED BY <3>1, FS_Interval
  <2> HIDE DEF Amounts
  <2>4. SumFunctionOnSet(Amounts(p), 1 .. Count) = 0
    BY <2>1, <2>3, SumZero
  <2> QED BY <2>2, <2>4 DEF Init
<1>2. IInv /\ InstallmentsTie /\ [Next]_vars => InstallmentsTie'
  <2> SUFFICES ASSUME IInv, InstallmentsTie, [Next]_vars, NEW p \in Plans
               PROVE  plans'[p].total = SumFunction([n \in 1 .. Count |-> installments'[<<p, n>>].amount])
    BY DEF InstallmentsTie
  <2>0. TypeOK /\ plans[p].total = SumFunction(Amounts(p))
    BY DEF IInv, InstallmentsTie
  <2>1. \A n \in 1 .. Count : <<p, n>> \in Installments /\ PlanOf(<<p, n>>) = p
    BY DEF Installments, PlanOf
  <2>2. ASSUME plans'[p].total = plans[p].total,
               \A n \in 1 .. Count : installments'[<<p, n>>].amount = installments[<<p, n>>].amount
        PROVE  plans'[p].total = SumFunction([n \in 1 .. Count |-> installments'[<<p, n>>].amount])
    <3>1. [n \in 1 .. Count |-> installments'[<<p, n>>].amount] = Amounts(p)
      BY <2>2
    <3> QED BY <2>0, <2>2, <3>1
  <2>3. ASSUME NEW h \in Tasks, CreatePlan(h)
        PROVE  plans'[p].total = SumFunction([n \in 1 .. Count |-> installments'[<<p, n>>].amount])
    <3> DEFINE q == tasks[h].plan
               total == tasks[h].total
    <3>1. /\ plans' = [plans EXCEPT ![q] = [status |-> "pending", sources |-> tasks[h].sources,
                                            total |-> total]]
          /\ installments' = [k \in Installments |->
                IF PlanOf(k) = q
                  THEN [status |-> "pending", amount |-> AmountOf(total, k[2])]
                  ELSE installments[k]]
      BY <2>3 DEF CreatePlan
    <3>2. total \in Nat
      BY <2>0 DEF TypeOK, Task
    <3> HIDE DEF total, q
    <3>3. CASE p = q
      <4>1. plans'[p].total = total
        BY <2>0, <3>1, <3>3 DEF TypeOK
      <4>2. \A n \in 1 .. Count : installments'[<<p, n>>].amount = AmountOf(total, n)
        BY <2>1, <3>1, <3>3
      <4>3. [n \in 1 .. Count |-> installments'[<<p, n>>].amount]
              = [n \in 1 .. Count |-> AmountOf(total, n)]
        BY <4>2
      <4> QED BY <3>2, <4>1, <4>3, AmountsTie
    <3>4. CASE p # q
      <4>1. plans'[p].total = plans[p].total
        BY <2>0, <3>1, <3>4 DEF TypeOK
      <4>2. \A n \in 1 .. Count : installments'[<<p, n>>].amount = installments[<<p, n>>].amount
        BY <2>1, <3>1, <3>4
      <4> QED BY <2>2, <4>1, <4>2
    <3> QED BY <3>3, <3>4
  <2> QED BY <2>1, <2>2, <2>3, AmountSteps
<1> QED BY <1>1, <1>2, Invariance, PTL DEF Spec

=============================================================================
