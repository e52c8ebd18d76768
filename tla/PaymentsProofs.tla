--------------------------- MODULE PaymentsProofs ---------------------------
(* Theorems about Payments and LedgerBackfill, for every value of their constants. *)
EXTENDS LedgerBackfill, Sums, TLAPS

\* A difference that is clamped stays between zero and what it was taken from.
LEMMA LeftOfType ==
    ASSUME NEW amount \in Nat, NEW spent \in Nat
    PROVE  LeftOf(amount, spent) \in 0 .. amount /\ LeftOf(amount, spent) \in Nat
BY DEF LeftOf

\* What some invoices still owe is a natural number, and so is what they cost.
LEMMA OutstandingType ==
    ASSUME TypeOK
    PROVE  /\ \A i \in Invoices : Outstanding(i) \in Nat
           /\ \A T \in SUBSET Invoices :
                OutstandingIn(T) \in Nat /\ SumFunctionOnSet(Price, T) \in Nat
<1>1. \A i \in Invoices : Outstanding(i) \in Nat
  BY DEF TypeOK, Invoice, Outstanding
<1>2. ASSUME NEW T \in SUBSET Invoices
      PROVE  OutstandingIn(T) \in Nat /\ SumFunctionOnSet(Price, T) \in Nat
  <2> DEFINE owed == [i \in Invoices |-> Outstanding(i)]
  <2>1. IsFiniteSet(T)
    BY FS_Subset, PaymentsAssumption
  <2>2. (\A i \in T : owed[i] \in Nat) /\ (\A i \in T : Price[i] \in Nat)
    BY <1>1, PaymentsAssumption
  <2> HIDE DEF owed
  <2>3. SumFunctionOnSet(owed, T) \in Nat /\ SumFunctionOnSet(Price, T) \in Nat
    BY <2>1, <2>2, SumNat
  <2> QED BY <2>3 DEF OutstandingIn, owed
<1> QED BY <1>1, <1>2

\* The payments that name an invoice come to a natural number.
LEMMA PaidThroughType ==
    ASSUME TypeOK, NEW i \in Invoices
    PROVE  PaidThrough(i) \in Nat
<1> DEFINE brought == [r \in Refs |-> payments[r].amount]
           named == {r \in Refs : payments[r].status = "completed" /\ payments[r].invoiceId = i}
<1>1. IsFiniteSet(Refs)
  BY PaymentsAssumption, FS_Union DEF Refs
<1>2. IsFiniteSet(named)
  BY <1>1, FS_Subset
<1>3. \A r \in named : brought[r] \in Nat
  BY DEF TypeOK, Payment
<1> HIDE DEF brought, named
<1>4. SumFunctionOnSet(brought, named) \in Nat
  BY <1>2, <1>3, SumNat
<1> QED BY <1>4 DEF PaidThrough, brought, named

\* What a payment brings to an invoice is at most what the invoice owes.
LEMMA AppliedType ==
    ASSUME TypeOK, NEW amount \in Nat, NEW T \in SUBSET Invoices
    PROVE  /\ Applied(amount, T) \in Allocation
           /\ \A i \in Invoices :
                /\ Applied(amount, T)[i] <= Outstanding(i)
                /\ ~ Exists(i) => Applied(amount, T)[i] = 0
<1>1. \A i \in Invoices : Outstanding(i) \in Nat
  BY DEF TypeOK, Invoice, Outstanding
<1>2. ASSUME NEW i \in Invoices
      PROVE  /\ Applied(amount, T)[i] \in Nat
             /\ Applied(amount, T)[i] <= Outstanding(i)
             /\ ~ Exists(i) => Applied(amount, T)[i] = 0
  <2> DEFINE left == LeftOf(amount, OutstandingIn({j \in DueBefore(i, T) : Exists(j)}))
  <2>1. left \in Nat
    <3> DEFINE before == {j \in DueBefore(i, T) : Exists(j)}
    <3>1. before \in SUBSET Invoices
      BY DEF DueBefore
    <3> HIDE DEF before
    <3>2. OutstandingIn(before) \in Nat
      BY <3>1, OutstandingType
    <3>3. LeftOf(amount, OutstandingIn(before)) \in Nat
      BY <3>2, LeftOfType
    <3> QED BY <3>3 DEF before
  <2>2. Applied(amount, T)[i] = IF i \in T /\ Exists(i) THEN Smaller(left, Outstanding(i)) ELSE 0
    BY DEF Applied
  <2> HIDE DEF left
  <2> QED BY <1>1, <2>1, <2>2 DEF Smaller
<1>3. Applied(amount, T) = [i \in Invoices |-> Applied(amount, T)[i]]
  BY DEF Applied
<1> QED BY <1>2, <1>3 DEF Allocation

\* What is allocated sums up over the invoices.
LEMMA AllocationSum ==
    ASSUME NEW allocations \in Allocation
    PROVE  /\ SumFunction(allocations) = SumFunctionOnSet(allocations, Invoices)
           /\ SumFunction(allocations) \in Nat
<1>1. DOMAIN allocations = Invoices /\ \A i \in Invoices : allocations[i] \in Nat
  BY DEF Allocation
<1>2. SumFunctionOnSet(allocations, Invoices) \in Nat
  BY <1>1, SumNat, PaymentsAssumption
<1> QED BY <1>1, <1>2 DEF SumFunction

\* LogPayment writes well-formed rows.
LEMMA LogPaymentType ==
    ASSUME TypeOK, NEW r \in Refs, NEW amount \in Nat, NEW T \in SUBSET Invoices,
           LogPayment(r, amount, T)
    PROVE  /\ invoices' \in [Invoices -> Invoice]
           /\ payments' \in [Refs -> Payment]
<1>1. CASE ReceiptExists(r)
  BY <1>1 DEF LogPayment, TypeOK
<1>2. CASE ~ ReceiptExists(r)
  <2> DEFINE applied == Applied(amount, T)
             first == {i \in T : Exists(i) /\ ~ \E j \in DueBefore(i, T) : Exists(j)}
             primary == IF first = {} THEN NoInvoice ELSE CHOOSE i \in first : TRUE
  <2>1. applied \in Allocation
    BY AppliedType
  <2>2. Surplus(amount, applied) \in Nat
    <3>1. SumFunction(applied) \in Nat
      BY <2>1, AllocationSum
    <3> QED BY <3>1, LeftOfType DEF Surplus
  <2>3. primary \in Invoices \cup {NoInvoice}
    <3>1. first \subseteq Invoices
      OBVIOUS
    <3> QED BY <3>1
  <2>4. payments' = [payments EXCEPT ![r] =
                        [status |-> "completed", amount |-> amount,
                         amountUnallocated |-> Surplus(amount, applied),
                         invoiceId |-> primary, allocations |-> applied]]
    BY <1>2 DEF LogPayment
  <2>5. \A i \in Invoices : invoices'[i] \in Invoice
    <3> TAKE i \in Invoices
    <3>1. applied[i] \in Nat
      BY <2>1 DEF Allocation
    <3> DEFINE paid == invoices[i].amountPaid + applied[i]
               status == SettledStatus(invoices[i].amount, paid)
    <3>2. \/ invoices'[i] = invoices[i]
          \/ invoices'[i] = [invoices[i] EXCEPT !.amountPaid = paid, !.status = status]
      BY <1>2 DEF LogPayment
    <3>3. invoices[i] \in Invoice
      BY DEF TypeOK
    <3>4. paid \in Nat /\ status \in InvoiceStatuses
      <4> HIDE DEF applied
      <4> QED BY <3>1, <3>3 DEF Invoice, SettledStatus, InvoiceStatuses
    <3> HIDE DEF paid, status
    <3> QED BY <3>2, <3>3, <3>4 DEF Invoice
  <2>6. invoices' = [i \in Invoices |-> invoices'[i]]
    BY <1>2 DEF LogPayment
  <2> HIDE DEF applied, primary
  <2>7. payments' \in [Refs -> Payment]
    BY <2>1, <2>2, <2>3, <2>4 DEF TypeOK, Payment, PaymentStatuses
  <2> QED BY <2>5, <2>6, <2>7
<1> QED BY <1>1, <1>2

\* A handler at rest is a handler.
LEMMA IdleType == Idle \in Handler /\ NothingAllocated \in Allocation
BY DEF Idle, Handler, NothingAllocated, Allocation, Steps

\* Ending a request keeps the types; only emitted events are acknowledged.
LEMMA ReturnType ==
    ASSUME TypeOK, NEW h \in Handlers, Return(h), events' = events
    PROVE  handlers' \in [Handlers -> Handler] /\ acked' \subseteq events'
BY IdleType DEF TypeOK, Return

\* Going on to the next step keeps the type of the handlers.
LEMMA AdvanceType ==
    ASSUME TypeOK, NEW h \in Handlers, NEW step \in Steps, Advance(h, step)
    PROVE  handlers' \in [Handlers -> Handler]
BY DEF TypeOK, Advance, Handler

\* Beginning a request keeps the type of the handlers.
LEMMA StartType ==
    ASSUME TypeOK, NEW h \in Handlers, NEW step \in Steps, NEW r \in Refs,
           NEW event \in EventKinds \cup {"none"}, NEW allocations \in Allocation,
           Start(h, step, r, event, allocations)
    PROVE  handlers' \in [Handlers -> Handler]
BY DEF TypeOK, Start, Handler

\* The empty database is well-typed.
LEMMA InitType == Init => TypeOK
<1> SUFFICES ASSUME Init PROVE TypeOK
  OBVIOUS
<1>1. NoInvoiceRow \in Invoice /\ NoPaymentRow \in Payment /\ NoIntentRow \in Intent
  BY IdleType DEF NoInvoiceRow, Invoice, InvoiceStatuses, NoPaymentRow, Payment,
     PaymentStatuses, NoIntentRow, Intent, IntentStatuses, IntentKinds
<1> QED
  BY <1>1, IdleType, PaymentsAssumption DEF Init, TypeOK, GatewayStatuses

\* Every step keeps the types: a handler only names rows that exist.
LEMMA NextType == TypeOK /\ HandlersOK /\ [Next]_vars => TypeOK'
<1> SUFFICES ASSUME TypeOK, HandlersOK, [Next]_vars PROVE TypeOK'
  OBVIOUS
<1> USE DEF ledgerVars, gatewayVars, faultVars
<1>1. ASSUME NEW i \in Invoices, CreateInvoice(i) PROVE TypeOK'
  BY <1>1, PaymentsAssumption DEF CreateInvoice, TypeOK, Invoice, InvoiceStatuses
<1>2. ASSUME NEW i \in Invoices, GenerateCharge(i) PROVE TypeOK'
  <2>1. PICK amount \in Price[i] .. Price[i] + RateRise :
          invoices' = [invoices EXCEPT ![i] =
             [status |-> "sent", amount |-> amount, amountPaid |-> 0]]
    BY <1>2 DEF GenerateCharge
  <2>2. amount \in Nat
    BY PaymentsAssumption
  <2>3. invoices' \in [Invoices -> Invoice]
    BY <2>1, <2>2 DEF TypeOK, Invoice, InvoiceStatuses
  <2> QED BY <1>2, <2>3 DEF GenerateCharge, TypeOK
<1>3. ASSUME NEW x \in Intents, NEW kind \in IntentKinds, NEW target \in SUBSET Invoices,
             NEW amount \in Nat, OpenIntent(x, kind, target, amount)
      PROVE  TypeOK'
  <2>1. intents' \in [Intents -> Intent]
    BY <1>3 DEF OpenIntent, TypeOK, Intent, IntentStatuses
  <2> QED BY <2>1, <1>3 DEF OpenIntent, TypeOK
<1>4. ASSUME NEW x \in Intents, NEW i \in Invoices, CreateIntent(x, i) PROVE TypeOK'
  <2>1. LeftOf(invoices[i].amount, PaidThrough(i)) \in Nat
    <3>1. invoices[i].amount \in Nat /\ PaidThrough(i) \in Nat
      BY PaidThroughType DEF TypeOK, Invoice
    <3> QED BY <3>1, LeftOfType
  <2> QED BY <1>4, <1>3, <2>1 DEF CreateIntent, IntentKinds
<1>5. ASSUME NEW x \in Intents, NEW T \in SUBSET Invoices, CreateMultiInvoiceIntent(x, T)
      PROVE  TypeOK'
  BY <1>5, <1>3, OutstandingType DEF CreateMultiInvoiceIntent, IntentKinds
<1>6. ASSUME NEW x \in Intents, NEW T \in SUBSET Periods, Prepay(x, T) PROVE TypeOK'
  <2>1. T \in SUBSET Invoices
    BY PaymentsAssumption
  <2> QED BY <1>6, <1>3, <2>1, OutstandingType DEF Prepay, IntentKinds
<1>7. ASSUME NEW x \in Intents, NEW status \in GatewayStatuses, NEW kind \in EventKinds,
             Emit(x, status, kind)
      PROVE  TypeOK'
  BY <1>7 DEF Emit, TypeOK
<1>8. ASSUME NEW x \in Intents,
             ChargeFails(x) \/ ChargeSucceeds(x) \/ ChargeMismatches(x) \/ Refund(x)
      PROVE  TypeOK'
  BY <1>7, <1>8 DEF ChargeFails, ChargeSucceeds, ChargeMismatches, Refund,
     GatewayStatuses, EventKinds, ChargeOutcomes
<1>9. ASSUME NEW r \in ManualRefs, NEW i \in Invoices, NEW amount \in ManualAmounts,
             LogManualPayment(r, i, amount)
      PROVE  TypeOK'
  <2>1. r \in Refs /\ amount \in Nat /\ {i} \in SUBSET Invoices
    BY PaymentsAssumption DEF Refs
  <2>2. invoices' \in [Invoices -> Invoice] /\ payments' \in [Refs -> Payment]
    BY <1>9, <2>1, LogPaymentType DEF LogManualPayment
  <2> QED BY <1>9, <2>2 DEF LogManualPayment, TypeOK
<1>10. ASSUME NEW h \in Handlers, NEW x \in Intents, NEW outcome \in ChargeOutcomes,
              ReceiveCharge(h, x, outcome)
       PROVE  TypeOK'
  <2>1. CASE intents[x].status = "success"
    BY <1>10, <2>1 DEF ReceiveCharge, TypeOK
  <2>2. CASE intents[x].status # "success"
    <3>1. /\ x \in Refs
          /\ outcome \in EventKinds \cup {"none"}
          /\ MarkStep(outcome) \in Steps
      BY DEF Refs, EventKinds, MarkStep, Steps
    <3>2. handlers' \in [Handlers -> Handler]
      BY <1>10, <2>2, <3>1, IdleType, StartType DEF ReceiveCharge
    <3> QED BY <1>10, <2>2, <3>2 DEF ReceiveCharge, TypeOK
  <2> QED BY <2>1, <2>2
<1>11. ASSUME NEW h \in Handlers, NEW r \in Refs, NEW event \in {"none", "refund"},
              ReadPayment(h, r, event)
       PROVE  TypeOK'
  <2>1. payments[r].allocations \in Allocation
    BY DEF TypeOK, Payment
  <2>2. handlers' \in [Handlers -> Handler]
    BY <1>11, <2>1, StartType DEF ReadPayment, EventKinds, Steps
  <2> QED BY <1>11, <2>2 DEF ReadPayment, TypeOK
<1>12. ASSUME NEW h \in Handlers, NEW x \in Intents, ReceiveRefund(h, x) PROVE TypeOK'
  <2>1. CASE ReadPayment(h, x, "refund")
    BY <2>1, <1>11 DEF Refs
  <2>2. CASE ~ ReadPayment(h, x, "refund")
    BY <1>12, <2>2 DEF ReceiveRefund, TypeOK
  <2> QED BY <2>1, <2>2
<1>13. ASSUME NEW h \in Handlers, NEW x \in Intents, Verify(h, x) PROVE TypeOK'
  <2>1. handlers' \in [Handlers -> Handler]
    BY <1>13, IdleType, StartType DEF Verify, Refs, Steps
  <2> QED BY <1>13, <2>1 DEF Verify, TypeOK
<1>14. ASSUME NEW h \in Handlers, Interrupt(h) PROVE TypeOK'
  <2>1. handlers' \in [Handlers -> Handler]
    BY <1>14, IdleType DEF Interrupt, TypeOK
  <2>2. interrupts' \in 0 .. MaxInterrupts
    BY <1>14, PaymentsAssumption DEF Interrupt, TypeOK
  <2>3. interrupted' \subseteq Intents
    BY <1>14 DEF Interrupt, TypeOK, HandlersOK, HandlerOK
  <2> QED BY <1>14, <2>1, <2>2, <2>3 DEF Interrupt, TypeOK
<1>15. ASSUME NEW h \in Handlers, MarkSuccess(h) PROVE TypeOK'
  <2>1. AfterMarking(intents[handlers[h].ref].kind) \in Steps
    BY DEF AfterMarking, Steps
  <2>2. handlers' \in [Handlers -> Handler]
    BY <1>15, <2>1, AdvanceType DEF MarkSuccess
  <2>3. intents' \in [Intents -> Intent]
    BY <1>15 DEF MarkSuccess, TypeOK, Intent, IntentStatuses
  <2> QED BY <1>15, <2>2, <2>3 DEF MarkSuccess, TypeOK
<1>16. ASSUME NEW h \in Handlers, MarkFailed(h) PROVE TypeOK'
  <2>1. handlers' \in [Handlers -> Handler] /\ acked' \subseteq events'
    BY <1>16, ReturnType DEF MarkFailed
  <2>2. intents' \in [Intents -> Intent]
    BY <1>16 DEF MarkFailed, TypeOK, Intent, IntentStatuses
  <2> QED BY <1>16, <2>1, <2>2 DEF MarkFailed, TypeOK
<1>17. ASSUME NEW h \in Handlers, Materialize(h) PROVE TypeOK'
  <2>1. handlers' \in [Handlers -> Handler]
    BY <1>17, AdvanceType DEF Materialize, Steps
  <2>2. invoices' \in [Invoices -> Invoice]
    <3>1. \A i \in Invoices :
            [status |-> "sent", amount |-> Price[i], amountPaid |-> 0] \in Invoice
      BY PaymentsAssumption DEF Invoice, InvoiceStatuses
    <3> DEFINE fresh == Fresh(intents[handlers[h].ref].target)
    <3>2. invoices' = [i \in Invoices |->
            IF i \in fresh THEN [status |-> "sent", amount |-> Price[i], amountPaid |-> 0]
                           ELSE invoices[i]]
      BY <1>17 DEF Materialize
    <3>3. \A i \in Invoices : invoices[i] \in Invoice
      BY DEF TypeOK
    <3> HIDE DEF fresh
    <3> QED BY <3>1, <3>2, <3>3
  <2>3. coverage' \in [Intents -> Nat]
    <3> DEFINE x == handlers[h].ref
               rows == IF Fresh(intents[x].target) = {} THEN coverage[x] ELSE coverage[x] + 1
    <3>1. x \in Intents
      BY <1>17 DEF Materialize, At, HandlersOK, HandlerOK
    <3>2. rows \in Nat
      BY <3>1 DEF TypeOK
    <3>3. coverage' = [coverage EXCEPT ![x] = rows]
      BY <1>17 DEF Materialize
    <3> HIDE DEF rows
    <3> QED BY <3>2, <3>3 DEF TypeOK
  <2> QED BY <1>17, <2>1, <2>2, <2>3 DEF Materialize, TypeOK
<1>18. ASSUME NEW h \in Handlers, Credit(h) PROVE TypeOK'
  <2> DEFINE x == handlers[h].ref
  <2>1. x \in Intents /\ x \in Refs
    BY <1>18 DEF Credit, At, HandlersOK, HandlerOK, Refs
  <2>2. intents[x].amount \in Nat /\ intents[x].target \in SUBSET Invoices
    BY <2>1 DEF TypeOK, Intent
  <2>3. invoices' \in [Invoices -> Invoice] /\ payments' \in [Refs -> Payment]
    BY <1>18, <2>1, <2>2, LogPaymentType DEF Credit
  <2>4. handlers' \in [Handlers -> Handler] /\ acked' \subseteq events'
    BY <1>18, ReturnType DEF Credit
  <2> QED BY <1>18, <2>3, <2>4 DEF Credit, TypeOK
<1>19. ASSUME NEW h \in Handlers, VerifyAnswer(h) PROVE TypeOK'
  <2>1. MarkStep("success") \in Steps /\ MarkStep("mismatch") \in Steps
        /\ "markFailed" \in Steps
    BY DEF MarkStep, Steps
  <2>2. handlers' \in [Handlers -> Handler] /\ acked' \subseteq events'
    <3>1. CASE Return(h)
      BY <1>19, <3>1, ReturnType DEF VerifyAnswer
    <3>2. CASE ~ Return(h)
      <4>1. PICK step \in Steps : Advance(h, step) /\ acked' = acked
        BY <1>19, <2>1, <3>2 DEF VerifyAnswer
      <4> QED BY <1>19, <4>1, AdvanceType DEF VerifyAnswer, TypeOK
    <3> QED BY <3>1, <3>2
  <2> QED BY <1>19, <2>2 DEF VerifyAnswer, TypeOK
<1>20. ASSUME NEW h \in Handlers, ReversePayment(h) PROVE TypeOK'
  <2> DEFINE left(i) == GivenBack(invoices[i].amountPaid, handlers[h].allocations[i])
  <2>1. handlers' \in [Handlers -> Handler] /\ acked' \subseteq events'
    BY <1>20, ReturnType DEF ReversePayment
  <2>2. \A i \in Invoices : left(i) \in Nat
    <3> TAKE i \in Invoices
    <3>1. invoices[i].amountPaid \in Nat /\ handlers[h].allocations[i] \in Nat
      BY DEF TypeOK, Invoice, Handler, Allocation
    <3>2. LeftOf(invoices[i].amountPaid, handlers[h].allocations[i]) \in Nat
      BY <3>1, LeftOfType
    <3> QED BY <3>2 DEF GivenBack
  <2>3. \A i \in Invoices : RestoredStatus(invoices[i].amount, left(i)) \in InvoiceStatuses
    BY DEF RestoredStatus, InvoiceStatuses
  <2>4. invoices' = [i \in Invoices |->
           IF handlers[h].allocations[i] > 0 /\ Exists(i)
             THEN [invoices[i] EXCEPT !.amountPaid = left(i),
                                      !.status = RestoredStatus(invoices[i].amount, left(i))]
             ELSE invoices[i]]
    BY <1>20 DEF ReversePayment
  <2> HIDE DEF left
  <2>5. invoices' \in [Invoices -> Invoice]
    BY <2>2, <2>3, <2>4 DEF TypeOK, Invoice
  <2>6. payments' \in [Refs -> Payment]
    BY <1>20, IdleType DEF ReversePayment, TypeOK, Payment, PaymentStatuses
  <2> QED BY <1>20, <2>1, <2>5, <2>6 DEF ReversePayment, TypeOK
<1>21. CASE UNCHANGED vars
  BY <1>21 DEF vars, TypeOK
<1>22. CASE Next
  BY <1>1, <1>2, <1>4, <1>5, <1>6, <1>8, <1>9, <1>10, <1>11, <1>12, <1>13, <1>14, <1>15,
     <1>16, <1>17, <1>18, <1>19, <1>20, <1>22
     DEF Next, BillStep, CheckoutStep, PaystackStep, StaffStep, Receive, Proceed, RequestReversal
<1> QED BY <1>21, <1>22

-----------------------------------------------------------------------------
\* The empty database satisfies the inductive invariant.
LEMMA InitInv == Init => IInv
<1> SUFFICES ASSUME Init PROVE IInv
  OBVIOUS
<1>1. TypeOK
  BY InitType
<1>2. HandlersOK /\ PaystackOK /\ RowsOK
  BY DEF Init, Idle, HandlersOK, HandlerOK, PaystackOK, RowsOK, Exists, NoInvoiceRow
<1>3. NeverOverpaid /\ StatusAgrees /\ CreditNeedsCharge /\ SuccessIsCredited
  BY DEF Init, NoInvoiceRow, NoPaymentRow, NoIntentRow, Exists, Refs,
     NeverOverpaid, StatusAgrees, CreditNeedsCharge, SuccessIsCredited
<1>4. ReversedIsEmpty
  BY DEF Init, NoPaymentRow, ReversedIsEmpty
<1> QED BY <1>1, <1>2, <1>3, <1>4 DEF IInv, CoreInv

\* The part of the invariant that speaks of invoice rows only.
InvoicesOK == RowsOK /\ NeverOverpaid /\ StatusAgrees

\* The invoice rows LogPayment writes agree with what it has paid on them.
LEMMA LogPaymentInvoices ==
    ASSUME TypeOK, InvoicesOK, NEW r \in Refs, NEW amount \in Nat,
           NEW T \in SUBSET Invoices, LogPayment(r, amount, T)
    PROVE  InvoicesOK'
<1>1. CASE ReceiptExists(r)
  <2>1. invoices' = invoices
    BY <1>1 DEF LogPayment
  <2> QED BY <2>1 DEF InvoicesOK, RowsOK, NeverOverpaid, StatusAgrees, Exists
<1>2. CASE ~ ReceiptExists(r)
  <2> DEFINE applied == Applied(amount, T)
  <2>1. ASSUME NEW i \in Invoices
        PROVE  \/ invoices'[i] = invoices[i]
               \/ /\ Exists(i)
                  /\ applied[i] \in Nat /\ applied[i] > 0 /\ applied[i] <= Outstanding(i)
                  /\ invoices'[i] = [invoices[i] EXCEPT
                       !.amountPaid = invoices[i].amountPaid + applied[i],
                       !.status = SettledStatus(invoices[i].amount,
                                                invoices[i].amountPaid + applied[i])]
    <3>1. /\ applied[i] \in Nat /\ applied[i] <= Outstanding(i)
          /\ ~ Exists(i) => applied[i] = 0
      BY AppliedType DEF Allocation
    <3>2. invoices'[i] = IF applied[i] > 0
                           THEN [invoices[i] EXCEPT
                             !.amountPaid = invoices[i].amountPaid + applied[i],
                             !.status = SettledStatus(invoices[i].amount,
                                          invoices[i].amountPaid + applied[i])]
                           ELSE invoices[i]
      BY <1>2 DEF LogPayment
    <3> HIDE DEF applied
    <3> QED BY <3>1, <3>2
  <2> HIDE DEF applied
  <2>2. ASSUME NEW i \in Invoices
        PROVE  /\ Exists(i)' <=> Exists(i)
               /\ Exists(i) => invoices'[i].amount = invoices[i].amount
               /\ ~ Exists(i) => invoices'[i] = invoices[i]
               /\ Exists(i) =>
                    /\ invoices'[i].amountPaid <= invoices'[i].amount
                    /\ invoices'[i].status \in {"draft", "sent"} <=> invoices'[i].amountPaid = 0
                    /\ invoices'[i].status = "partial" <=>
                         /\ invoices'[i].amountPaid > 0
                         /\ invoices'[i].amountPaid < invoices'[i].amount
                    /\ invoices'[i].status = "paid" <=>
                         invoices'[i].amountPaid = invoices'[i].amount
    <3>1. invoices[i] \in Invoice
      BY DEF TypeOK
    <3>2. CASE invoices'[i] = invoices[i]
      BY <3>2 DEF Exists, InvoicesOK, NeverOverpaid, StatusAgrees
    <3>3. CASE invoices'[i] # invoices[i]
      <4> DEFINE paid == invoices[i].amountPaid + applied[i]
      <4>1. /\ paid \in Nat /\ paid > 0 /\ paid <= invoices[i].amount
        <5>1. applied[i] \in Nat /\ applied[i] > 0 /\ applied[i] <= Outstanding(i)
          BY <2>1, <3>3
        <5>2. invoices[i].amount \in Nat /\ invoices[i].amountPaid \in Nat
          BY <3>1 DEF Invoice
        <5>3. invoices[i].amountPaid <= invoices[i].amount
          BY DEF InvoicesOK, NeverOverpaid
        <5> QED BY <5>1, <5>2, <5>3 DEF Outstanding
      <4>2. invoices'[i].amountPaid = paid /\ invoices'[i].amount = invoices[i].amount
            /\ invoices'[i].status = SettledStatus(invoices[i].amount, paid)
            /\ Exists(i)
        BY <2>1, <3>1, <3>3 DEF Invoice
      <4> HIDE DEF paid
      <4> QED BY <3>1, <4>1, <4>2 DEF Invoice, SettledStatus, Exists
    <3> QED BY <3>2, <3>3
  <2>3. RowsOK'
    BY <2>2 DEF InvoicesOK, RowsOK
  <2>4. NeverOverpaid'
    <3> SUFFICES ASSUME NEW i \in Invoices
                 PROVE  invoices'[i].amountPaid <= invoices'[i].amount
      BY DEF NeverOverpaid
    <3> QED BY <2>2 DEF InvoicesOK, NeverOverpaid
  <2>5. StatusAgrees'
    BY <2>2 DEF StatusAgrees
  <2> QED BY <2>3, <2>4, <2>5 DEF InvoicesOK
<1> QED BY <1>1, <1>2

\* What a handler has read of an intent, a charge or a receipt stays true.
Monotone ==
    /\ \A x \in Intents :
         /\ intents[x].status # "none" =>
               intents'[x].status # "none" /\ intents'[x].amount = intents[x].amount
         /\ Charged(x) => Charged(x)'
    /\ \A r \in Refs :
         payments[r].status # "none" =>
            payments'[r].status # "none" /\ payments'[r].amount = payments[r].amount

\* LogPayment leaves the receipts there are, and makes sure of its own.
LEMMA LogPaymentReceipts ==
    ASSUME TypeOK, NEW r \in Refs, NEW amount, NEW T \in SUBSET Invoices,
           LogPayment(r, amount, T)
    PROVE  /\ payments'[r].status # "none"
           /\ \A q \in Refs : payments[q].status # "none" => payments'[q] = payments[q]
           /\ \A q \in Refs : q # r => payments'[q] = payments[q]
           /\ payments[r].status = "none" =>
                 payments'[r].amount = amount /\ payments'[r].status = "completed"
<1>1. CASE ReceiptExists(r)
  BY <1>1 DEF LogPayment, ReceiptExists
<1>2. CASE ~ ReceiptExists(r)
  <2>1. PICK receipt \in [status : {"completed"}, amount : {amount},
                          amountUnallocated : {Surplus(amount, Applied(amount, T))},
                          invoiceId : Invoices \cup {NoInvoice},
                          allocations : {Applied(amount, T)}] :
          payments' = [payments EXCEPT ![r] = receipt]
    <3> DEFINE first == {i \in T : Exists(i) /\ ~ \E j \in DueBefore(i, T) : Exists(j)}
               primary == IF first = {} THEN NoInvoice ELSE CHOOSE i \in first : TRUE
    <3>1. primary \in Invoices \cup {NoInvoice}
      <4>1. first \subseteq Invoices
        OBVIOUS
      <4> QED BY <4>1
    <3>2. payments' = [payments EXCEPT ![r] =
                        [status |-> "completed", amount |-> amount,
                         amountUnallocated |-> Surplus(amount, Applied(amount, T)),
                         invoiceId |-> primary, allocations |-> Applied(amount, T)]]
      BY <1>2 DEF LogPayment
    <3> HIDE DEF primary
    <3> QED BY <3>1, <3>2
  <2> QED BY <1>2, <2>1 DEF ReceiptExists, TypeOK
<1> QED BY <1>1, <1>2

\* Every step is monotone: no intent, charge or receipt is ever taken back.
LEMMA NextMonotone == CoreInv /\ [Next]_vars => Monotone
<1> SUFFICES ASSUME CoreInv, [Next]_vars PROVE Monotone
  OBVIOUS
<1> USE DEF ledgerVars, gatewayVars, faultVars
<1>0. TypeOK /\ HandlersOK
  BY DEF IInv, CoreInv
<1>1. CASE UNCHANGED <<payments, intents, gateway>>
  BY <1>1 DEF Monotone, Charged
<1>2. ASSUME NEW x \in Intents, NEW kind, NEW target, NEW amount,
             OpenIntent(x, kind, target, amount)
      PROVE  Monotone
  BY <1>0, <1>2 DEF OpenIntent, Monotone, Charged, TypeOK
<1>3. ASSUME NEW x \in Intents,
             ChargeFails(x) \/ ChargeSucceeds(x) \/ ChargeMismatches(x) \/ Refund(x)
      PROVE  Monotone
  BY <1>0, <1>3 DEF ChargeFails, ChargeSucceeds, ChargeMismatches, Refund, Emit,
     Monotone, Charged, TypeOK
<1>4. ASSUME NEW r \in ManualRefs, NEW i \in Invoices, NEW amount \in ManualAmounts,
             LogManualPayment(r, i, amount)
      PROVE  Monotone
  <2>1. r \in Refs /\ {i} \in SUBSET Invoices /\ LogPayment(r, amount, {i})
    BY <1>4 DEF LogManualPayment, Refs
  <2>2. \A q \in Refs : payments[q].status # "none" => payments'[q] = payments[q]
    BY <1>0, <2>1, LogPaymentReceipts
  <2> QED BY <1>4, <2>2 DEF LogManualPayment, Monotone, Charged
<1>5. ASSUME NEW h \in Handlers, MarkSuccess(h) \/ MarkFailed(h) PROVE Monotone
  <2> DEFINE y == handlers[h].ref
  <2>1. PICK status \in {"success", "failed"} : intents' = [intents EXCEPT ![y].status = status]
    BY <1>5 DEF MarkSuccess, MarkFailed
  <2>2. ASSUME NEW x \in Intents
        PROVE  /\ intents[x].status # "none" => intents'[x].status # "none"
               /\ intents'[x].amount = intents[x].amount
    <3>1. intents[x] \in Intent /\ intents \in [Intents -> Intent]
      BY <1>0 DEF TypeOK
    <3>2. intents'[x] = IF x = y THEN [intents[x] EXCEPT !.status = status] ELSE intents[x]
      BY <2>1, <3>1
    <3> HIDE DEF y
    <3> QED BY <2>1, <3>1, <3>2 DEF Intent
  <2>3. UNCHANGED <<payments, gateway>>
    BY <1>5 DEF MarkSuccess, MarkFailed
  <2> QED BY <2>2, <2>3 DEF Monotone, Charged
<1>6. ASSUME NEW h \in Handlers, Credit(h) PROVE Monotone
  <2> DEFINE x == handlers[h].ref
  <2>1. /\ x \in Refs /\ intents[x].target \in SUBSET Invoices
        /\ LogPayment(x, intents[x].amount, intents[x].target)
    BY <1>0, <1>6 DEF Credit, At, HandlersOK, HandlerOK, Refs, TypeOK, Intent
  <2>2. \A q \in Refs : payments[q].status # "none" => payments'[q] = payments[q]
    BY <1>0, <2>1, LogPaymentReceipts
  <2> QED BY <1>6, <2>2 DEF Credit, Monotone, Charged
<1>7. ASSUME NEW h \in Handlers, ReversePayment(h) PROVE Monotone
  <2> DEFINE r == handlers[h].ref
             undone == [payments[r] EXCEPT !.status = "reversed", !.amountUnallocated = 0,
                                           !.allocations = NothingAllocated]
  <2>1. r \in Refs /\ payments[r] \in Payment
    BY <1>0, <1>7 DEF ReversePayment, At, HandlersOK, HandlerOK, TypeOK
  <2>2. undone.status = "reversed" /\ undone.amount = payments[r].amount
    BY <2>1 DEF Payment
  <2>3. payments' = [payments EXCEPT ![r] = undone]
    BY <1>7 DEF ReversePayment
  <2> HIDE DEF undone
  <2>4. \A q \in Refs : payments[q].status # "none" =>
          payments'[q].status # "none" /\ payments'[q].amount = payments[q].amount
    BY <1>0, <2>1, <2>2, <2>3 DEF TypeOK
  <2>5. UNCHANGED <<intents, gateway>>
    BY <1>7 DEF ReversePayment
  <2> QED BY <2>4, <2>5 DEF Monotone, Charged
<1>8. CASE Next
  <2>1. ASSUME NEW i \in Invoices, CreateInvoice(i) \/ GenerateCharge(i) PROVE Monotone
    BY <1>1, <2>1 DEF CreateInvoice, GenerateCharge
  <2>2. ASSUME NEW h \in Handlers, Receive(h) \/ Interrupt(h) PROVE Monotone
    BY <1>1, <2>2 DEF Receive, ReceiveCharge, ReceiveRefund, ReadPayment, Interrupt
  <2>3. ASSUME CheckoutStep PROVE Monotone
    BY <1>2, <2>3 DEF CheckoutStep, CreateIntent, CreateMultiInvoiceIntent, Prepay
  <2>4. ASSUME NEW h \in Handlers, VerifyAnswer(h) \/ Materialize(h) PROVE Monotone
    BY <1>1, <2>4 DEF VerifyAnswer, Materialize
  <2>5. ASSUME NEW h \in Handlers, Proceed(h) PROVE Monotone
    BY <1>5, <1>6, <1>7, <2>4, <2>5 DEF Proceed
  <2>6. ASSUME NEW h \in Handlers, NEW x \in Intents, Verify(h, x) PROVE Monotone
    BY <1>1, <2>6 DEF Verify
  <2>7. ASSUME NEW h \in Handlers, NEW r \in Refs, RequestReversal(h, r) PROVE Monotone
    BY <1>1, <2>7 DEF RequestReversal, ReadPayment
  <2> QED BY <1>3, <1>4, <1>8, <2>1, <2>2, <2>3, <2>5, <2>6, <2>7
          DEF Next, BillStep, PaystackStep, StaffStep
<1>9. CASE UNCHANGED vars
  BY <1>1, <1>9 DEF vars
<1> QED BY <1>8, <1>9

\* What the other handlers rely on survives a step of one handler.
LEMMA HandlersKept ==
    ASSUME TypeOK, HandlersOK, Monotone, NEW h \in Handlers,
           \A g \in Handlers : g # h => handlers'[g] = handlers[g],
           HandlerOK(h)'
    PROVE  HandlersOK'
<1> SUFFICES ASSUME NEW g \in Handlers, g # h PROVE HandlerOK(g)'
  BY DEF HandlersOK
<1>1. handlers'[g] = handlers[g] /\ HandlerOK(g)
  BY DEF HandlersOK
<1> QED BY <1>1 DEF HandlerOK, Monotone

\* A handler at rest relies on nothing.
LEMMA IdleIsOK ==
    ASSUME NEW h \in Handlers, handlers'[h] = Idle
    PROVE  HandlerOK(h)'
BY DEF HandlerOK, Idle

\* Every step keeps what each handler, running or not, relies on.
LEMMA NextHandlers == CoreInv /\ [Next]_vars => HandlersOK'
<1> SUFFICES ASSUME CoreInv, [Next]_vars PROVE HandlersOK'
  OBVIOUS
<1> USE DEF ledgerVars, gatewayVars, faultVars
<1>0. /\ TypeOK /\ HandlersOK /\ PaystackOK /\ Monotone
      /\ \A h \in Handlers : HandlerOK(h)
  BY NextMonotone DEF IInv, CoreInv, HandlersOK
<1>1. CASE handlers' = handlers
  BY <1>0, <1>1 DEF HandlersOK, HandlerOK, Monotone
<1>2. ASSUME NEW h \in Handlers,
             Return(h) \/ handlers' = [handlers EXCEPT ![h] = Idle]
      PROVE  HandlersOK'
  <2>1. handlers' = [handlers EXCEPT ![h] = Idle]
    BY <1>2 DEF Return
  <2>2. handlers'[h] = Idle /\ \A g \in Handlers : g # h => handlers'[g] = handlers[g]
    BY <1>0, <2>1 DEF TypeOK
  <2> QED BY <1>0, <2>2, HandlersKept, IdleIsOK
<1>3. ASSUME NEW h \in Handlers, NEW step, NEW r, NEW event, NEW allocations,
             Start(h, step, r, event, allocations),
             HandlerOK(h)'
      PROVE  HandlersOK'
  <2>1. \A g \in Handlers : g # h => handlers'[g] = handlers[g]
    BY <1>0, <1>3 DEF Start, TypeOK
  <2> QED BY <1>0, <1>3, <2>1, HandlersKept
<1>4. ASSUME NEW h \in Handlers, NEW step, Advance(h, step), HandlerOK(h)'
      PROVE  HandlersOK'
  <2>1. \A g \in Handlers : g # h => handlers'[g] = handlers[g]
    BY <1>0, <1>4 DEF Advance, TypeOK
  <2> QED BY <1>0, <1>4, <2>1, HandlersKept
<1>5. ASSUME NEW h \in Handlers, NEW x \in Intents, NEW outcome \in ChargeOutcomes,
             ReceiveCharge(h, x, outcome)
      PROVE  HandlersOK'
  <2>1. CASE handlers' = handlers
    BY <1>1, <2>1
  <2>2. CASE Start(h, MarkStep(outcome), x, outcome, NothingAllocated)
    <3>1. handlers'[h].ref = x /\ handlers'[h].step = MarkStep(outcome)
      BY <1>0, <2>2 DEF Start, TypeOK
    <3>2. intents[x].status # "none" /\ (outcome = "success" => Charged(x))
      BY <1>0, <1>5 DEF ReceiveCharge, PaystackOK, EventKinds
    <3>3. HandlerOK(h)'
      BY <1>0, <3>1, <3>2 DEF HandlerOK, MarkStep, Monotone
    <3> QED BY <1>3, <2>2, <3>3
  <2> QED BY <1>5, <2>1, <2>2 DEF ReceiveCharge
<1>6. ASSUME NEW h \in Handlers, NEW r \in Refs, NEW event, ReadPayment(h, r, event)
      PROVE  HandlersOK'
  <2>1. Start(h, "reverse", r, event, payments[r].allocations)
    BY <1>6 DEF ReadPayment
  <2>2. handlers'[h].ref = r /\ handlers'[h].step = "reverse"
    BY <1>0, <2>1 DEF Start, TypeOK
  <2>3. payments'[r].status # "none"
    BY <1>6 DEF ReadPayment
  <2>4. HandlerOK(h)'
    BY <2>2, <2>3 DEF HandlerOK
  <2> QED BY <1>3, <2>1, <2>4
<1>7. ASSUME NEW h \in Handlers, NEW x \in Intents, ReceiveRefund(h, x) PROVE HandlersOK'
  BY <1>1, <1>6, <1>7 DEF ReceiveRefund, Refs
<1>8. ASSUME NEW h \in Handlers, NEW x \in Intents, Verify(h, x) PROVE HandlersOK'
  <2>1. Start(h, "verify", x, "none", NothingAllocated) /\ intents'[x].status # "none"
    BY <1>8 DEF Verify
  <2>2. handlers'[h].ref = x /\ handlers'[h].step = "verify"
    BY <1>0, <2>1 DEF Start, TypeOK
  <2>3. HandlerOK(h)'
    BY <2>1, <2>2 DEF HandlerOK
  <2> QED BY <1>3, <2>1, <2>3
<1>9. ASSUME NEW h \in Handlers, VerifyAnswer(h) PROVE HandlersOK'
  <2> DEFINE x == handlers[h].ref
  <2>0. x \in Intents /\ intents[x].status # "none"
    BY <1>0, <1>9 DEF VerifyAnswer, At, HandlerOK
  <2>1. CASE Return(h)
    BY <1>2, <2>1
  <2>2. CASE ~ Return(h)
    <3>1. PICK step \in {"markSuccess", "markFailed"} :
            Advance(h, step) /\ (step = "markSuccess" => gateway[x] = "charged")
      BY <1>9, <2>2 DEF VerifyAnswer, MarkStep
    <3>2. handlers'[h].ref = x /\ handlers'[h].step = step
      BY <1>0, <3>1 DEF Advance, TypeOK, Handler
    <3>3. HandlerOK(h)'
      BY <1>0, <2>0, <3>1, <3>2 DEF HandlerOK, Monotone, Charged
    <3> QED BY <1>4, <3>1, <3>3
  <2> QED BY <2>1, <2>2
<1>10. ASSUME NEW h \in Handlers, MarkSuccess(h) PROVE HandlersOK'
  <2> DEFINE x == handlers[h].ref
             step == AfterMarking(intents[x].kind)
  <2>1. x \in Intents /\ intents[x].status # "none" /\ Charged(x)
    BY <1>0, <1>10 DEF MarkSuccess, At, HandlerOK
  <2>2. Advance(h, step) /\ step \in {"materialize", "credit"}
    BY <1>10 DEF MarkSuccess, AfterMarking
  <2>3. handlers'[h].ref = x /\ handlers'[h].step = step
    BY <1>0, <2>2 DEF Advance, TypeOK, Handler
  <2>4. HandlerOK(h)'
    BY <1>0, <2>1, <2>2, <2>3 DEF HandlerOK, Monotone
  <2> QED BY <1>4, <2>2, <2>4
<1>11. ASSUME NEW h \in Handlers, Materialize(h) PROVE HandlersOK'
  <2> DEFINE x == handlers[h].ref
  <2>1. x \in Intents /\ intents[x].status # "none" /\ Charged(x)
    BY <1>0, <1>11 DEF Materialize, At, HandlerOK
  <2>2. Advance(h, "credit")
    BY <1>11 DEF Materialize
  <2>3. handlers'[h].ref = x /\ handlers'[h].step = "credit"
    BY <1>0, <2>2 DEF Advance, TypeOK, Handler
  <2>4. HandlerOK(h)'
    BY <1>0, <2>1, <2>3 DEF HandlerOK, Monotone
  <2> QED BY <1>4, <2>2, <2>4
<1>12. ASSUME NEW h \in Handlers, Proceed(h) PROVE HandlersOK'
  BY <1>2, <1>9, <1>10, <1>11, <1>12 DEF Proceed, MarkFailed, Credit, ReversePayment
<1>13. ASSUME NEW h \in Handlers, Receive(h) \/ Interrupt(h) PROVE HandlersOK'
  BY <1>2, <1>5, <1>7, <1>13 DEF Receive, Interrupt
<1>14. CASE BillStep \/ CheckoutStep \/ PaystackStep \/ StaffStep \/ UNCHANGED vars
  BY <1>1, <1>14 DEF BillStep, CheckoutStep, PaystackStep, StaffStep, CreateInvoice,
     GenerateCharge, CreateIntent, CreateMultiInvoiceIntent, Prepay, OpenIntent, ChargeFails,
     ChargeSucceeds, ChargeMismatches, Refund, Emit, LogManualPayment, vars
<1> QED BY <1>6, <1>8, <1>12, <1>13, <1>14 DEF Next, RequestReversal

-----------------------------------------------------------------------------
\* What InvoicesOK says of one row.
RowOK(row) ==
    IF row.status = "absent" THEN row = NoInvoiceRow
    ELSE /\ row.amount > 0
         /\ row.amountPaid <= row.amount
         /\ row.status \in {"draft", "sent"} <=> row.amountPaid = 0
         /\ row.status = "partial" <=> row.amountPaid > 0 /\ row.amountPaid < row.amount
         /\ row.status = "paid" <=> row.amountPaid = row.amount

\* InvoicesOK is a property of each row by itself, so a step preserves it
\* when every row it writes is right.
LEMMA RowByRow ==
    /\ InvoicesOK => \A i \in Invoices : RowOK(invoices[i])
    /\ (\A i \in Invoices : RowOK(invoices'[i])) => InvoicesOK'
<1>1. InvoicesOK => \A i \in Invoices : RowOK(invoices[i])
  BY DEF InvoicesOK, RowsOK, NeverOverpaid, StatusAgrees, RowOK, Exists
<1>2. (\A i \in Invoices : RowOK(invoices'[i])) => InvoicesOK'
  BY DEF InvoicesOK, RowsOK, NeverOverpaid, StatusAgrees, RowOK, Exists, NoInvoiceRow
<1> QED BY <1>1, <1>2

\* A row just created, with nothing paid on a positive amount, is right.
LEMMA NewRowOK ==
    ASSUME NEW amount \in Nat \ {0}, NEW status \in {"draft", "sent"}
    PROVE  RowOK([status |-> status, amount |-> amount, amountPaid |-> 0])
BY DEF RowOK

\* The invoice rows agree with the payments on them after every step.
LEMMA NextInvoices == IInv /\ [Next]_vars => InvoicesOK'
<1> SUFFICES ASSUME IInv, [Next]_vars PROVE InvoicesOK'
  OBVIOUS
<1> USE DEF ledgerVars, gatewayVars, faultVars
<1>0. /\ TypeOK /\ HandlersOK /\ InvoicesOK
      /\ \A i \in Invoices : RowOK(invoices[i])
  BY RowByRow DEF IInv, CoreInv, InvoicesOK
<1>1. CASE invoices' = invoices
  BY <1>0, <1>1, RowByRow
<1>2. ASSUME NEW i \in Invoices, CreateInvoice(i) PROVE InvoicesOK'
  <2>1. Price[i] \in Nat \ {0}
    BY PaymentsAssumption
  <2>2. RowOK([status |-> "draft", amount |-> Price[i], amountPaid |-> 0])
    BY <2>1, NewRowOK
  <2>3. \A j \in Invoices : RowOK(invoices'[j])
    BY <1>0, <1>2, <2>2 DEF CreateInvoice, TypeOK
  <2> QED BY <2>3, RowByRow
<1>3. ASSUME NEW i \in Invoices, GenerateCharge(i) PROVE InvoicesOK'
  <2>1. PICK amount \in Price[i] .. Price[i] + RateRise :
          invoices' = [invoices EXCEPT ![i] =
             [status |-> "sent", amount |-> amount, amountPaid |-> 0]]
    BY <1>3 DEF GenerateCharge
  <2>2. amount \in Nat \ {0}
    BY PaymentsAssumption
  <2>3. RowOK([status |-> "sent", amount |-> amount, amountPaid |-> 0])
    BY <2>2, NewRowOK
  <2>4. \A j \in Invoices : RowOK(invoices'[j])
    BY <1>0, <2>1, <2>3 DEF TypeOK
  <2> QED BY <2>4, RowByRow
<1>4. ASSUME NEW r \in ManualRefs, NEW i \in Invoices, NEW amount \in ManualAmounts,
             LogManualPayment(r, i, amount)
      PROVE  InvoicesOK'
  <2>1. r \in Refs /\ amount \in Nat /\ {i} \in SUBSET Invoices
    BY PaymentsAssumption DEF Refs
  <2> QED BY <1>0, <1>4, <2>1, LogPaymentInvoices DEF LogManualPayment
<1>5. ASSUME NEW h \in Handlers, Credit(h) PROVE InvoicesOK'
  <2> DEFINE x == handlers[h].ref
  <2>1. x \in Intents /\ x \in Refs
    BY <1>0, <1>5 DEF Credit, At, HandlersOK, HandlerOK, Refs
  <2>2. intents[x].amount \in Nat /\ intents[x].target \in SUBSET Invoices
    BY <1>0, <2>1 DEF TypeOK, Intent
  <2> QED BY <1>0, <1>5, <2>1, <2>2, LogPaymentInvoices DEF Credit
<1>6. ASSUME NEW h \in Handlers, Materialize(h) PROVE InvoicesOK'
  <2> DEFINE fresh == Fresh(intents[handlers[h].ref].target)
  <2>1. invoices' = [i \in Invoices |->
          IF i \in fresh THEN [status |-> "sent", amount |-> Price[i], amountPaid |-> 0]
                         ELSE invoices[i]]
    BY <1>6 DEF Materialize
  <2> HIDE DEF fresh
  <2>2. \A i \in Invoices : RowOK([status |-> "sent", amount |-> Price[i], amountPaid |-> 0])
    BY NewRowOK, PaymentsAssumption
  <2>3. \A i \in Invoices : RowOK(invoices'[i])
    BY <1>0, <2>1, <2>2
  <2> QED BY <2>3, RowByRow
<1>7. ASSUME NEW h \in Handlers, ReversePayment(h) PROVE InvoicesOK'
  <2> DEFINE left(i) == GivenBack(invoices[i].amountPaid, handlers[h].allocations[i])
  <2>1. ASSUME NEW i \in Invoices PROVE RowOK(invoices'[i])
    <3>1. invoices'[i] =
            IF handlers[h].allocations[i] > 0 /\ Exists(i)
              THEN [invoices[i] EXCEPT !.amountPaid = left(i),
                                       !.status = RestoredStatus(invoices[i].amount, left(i))]
              ELSE invoices[i]
      BY <1>7 DEF ReversePayment
    <3>2. invoices[i] \in Invoice /\ RowOK(invoices[i])
      BY <1>0 DEF TypeOK
    <3>3. left(i) \in 0 .. invoices[i].amountPaid
      <4>1. handlers[h].allocations[i] \in Nat
        BY <1>0 DEF TypeOK, Handler, Allocation
      <4> QED BY <3>2, <4>1, LeftOfType DEF GivenBack, Invoice
    <3> DEFINE rest == left(i)
    <3>4. rest \in 0 .. invoices[i].amountPaid
      BY <3>3
    <3>5. invoices'[i] =
            IF handlers[h].allocations[i] > 0 /\ Exists(i)
              THEN [invoices[i] EXCEPT !.amountPaid = rest,
                                       !.status = RestoredStatus(invoices[i].amount, rest)]
              ELSE invoices[i]
      BY <3>1
    <3> HIDE DEF rest, left
    <3> QED BY <3>2, <3>4, <3>5 DEF RowOK, RestoredStatus, Invoice, Exists
  <2> QED BY <2>1, RowByRow
<1>8. ASSUME NEW h \in Handlers, Proceed(h) PROVE InvoicesOK'
  BY <1>1, <1>5, <1>6, <1>7, <1>8 DEF Proceed, MarkSuccess, MarkFailed, VerifyAnswer
<1>9. ASSUME NEW h \in Handlers, Receive(h) \/ Interrupt(h) PROVE InvoicesOK'
  BY <1>1, <1>9 DEF Receive, ReceiveCharge, ReceiveRefund, ReadPayment, Interrupt
<1>10. ASSUME NEW h \in Handlers,
              \/ \E x \in Intents : Verify(h, x)
              \/ \E r \in Refs : RequestReversal(h, r)
       PROVE  InvoicesOK'
  BY <1>1, <1>10 DEF Verify, RequestReversal, ReadPayment
<1>11. CASE CheckoutStep \/ PaystackStep \/ UNCHANGED vars
  BY <1>1, <1>11 DEF CheckoutStep, PaystackStep, CreateIntent, CreateMultiInvoiceIntent,
     Prepay, OpenIntent, ChargeFails, ChargeSucceeds, ChargeMismatches, Refund, Emit, vars
<1> QED BY <1>2, <1>3, <1>4, <1>8, <1>9, <1>10, <1>11 DEF Next, BillStep, StaffStep

-----------------------------------------------------------------------------
\* Paystack knows a transaction only after its checkout, and says 'success' of
\* it only when it has charged it.
LEMMA NextPaystack == CoreInv /\ [Next]_vars => PaystackOK'
<1> SUFFICES ASSUME CoreInv, [Next]_vars PROVE PaystackOK'
  OBVIOUS
<1> USE DEF ledgerVars, gatewayVars, faultVars
<1>0. TypeOK /\ PaystackOK /\ Monotone
  BY NextMonotone DEF IInv, CoreInv
<1>1. CASE UNCHANGED <<gateway, events>>
  BY <1>0, <1>1 DEF PaystackOK, Monotone, Charged
<1>2. ASSUME NEW x \in Intents, NEW status, NEW kind, Emit(x, status, kind),
             intents[x].status # "none",
             kind = "success" => status = "charged",
             Charged(x) => status \in {"charged", "refunded"}
      PROVE  PaystackOK'
  <2> SUFFICES ASSUME NEW y \in Intents
               PROVE  /\ <<y, "success">> \in events' => Charged(y)'
                      /\ (\E k \in EventKinds : <<y, k>> \in events')
                            => intents'[y].status # "none"
                      /\ gateway'[y] # "open" => intents'[y].status # "none"
    BY DEF PaystackOK
  <2>1. /\ gateway'[y] = (IF y = x THEN status ELSE gateway[y])
        /\ events' = events \cup {<<x, kind>>} /\ intents' = intents
    BY <1>0, <1>2 DEF Emit, TypeOK
  <2> QED BY <1>0, <1>2, <2>1 DEF PaystackOK, Charged
<1>3. ASSUME NEW x \in Intents,
             ChargeFails(x) \/ ChargeSucceeds(x) \/ ChargeMismatches(x) \/ Refund(x)
      PROVE  PaystackOK'
  <2>1. Refund(x) => intents[x].status # "none"
    BY <1>0 DEF Refund, PaystackOK
  <2> QED BY <1>2, <1>3, <2>1 DEF ChargeFails, ChargeSucceeds, ChargeMismatches, Refund, Charged
<1>4. CASE Next
  <2>1. ASSUME NEW h \in Handlers, Proceed(h) PROVE PaystackOK'
    BY <1>1, <2>1 DEF Proceed, MarkSuccess, MarkFailed, Materialize, Credit,
       VerifyAnswer, ReversePayment
  <2>2. ASSUME NEW h \in Handlers,
               \/ Receive(h) \/ Interrupt(h)
               \/ \E x \in Intents : Verify(h, x)
               \/ \E r \in Refs : RequestReversal(h, r)
        PROVE  PaystackOK'
    BY <1>1, <2>2 DEF Receive, ReceiveCharge, ReceiveRefund, RequestReversal, ReadPayment,
       Interrupt, Verify
  <2>3. CASE BillStep \/ CheckoutStep \/ StaffStep
    BY <1>1, <2>3 DEF BillStep, CheckoutStep, StaffStep, CreateInvoice, GenerateCharge,
       CreateIntent, CreateMultiInvoiceIntent, Prepay, OpenIntent, LogManualPayment
  <2> QED BY <1>3, <1>4, <2>1, <2>2, <2>3 DEF Next, PaystackStep
<1>5. CASE UNCHANGED vars
  BY <1>1, <1>5 DEF vars
<1> QED BY <1>4, <1>5

\* A handler that credits an intent does it after a charge of its amount, and
\* no other step writes the receipt of an intent for the first time.
LEMMA NextCredit == IInv /\ [Next]_vars => CreditNeedsCharge'
<1> SUFFICES ASSUME IInv, [Next]_vars PROVE CreditNeedsCharge'
  OBVIOUS
<1> USE DEF ledgerVars, gatewayVars, faultVars
<1>0. /\ TypeOK /\ HandlersOK /\ PaystackOK /\ CreditNeedsCharge /\ Monotone
      /\ \A x \in Intents : payments[x].status # "none" =>
            Charged(x) /\ intents[x].status # "none"
  BY NextMonotone DEF IInv, CoreInv, CreditNeedsCharge, PaystackOK, Charged
<1>1. ASSUME \A x \in Intents : payments'[x].status # "none" => payments[x].status # "none"
      PROVE  CreditNeedsCharge'
  <2> SUFFICES ASSUME NEW x \in Intents, payments'[x].status # "none"
               PROVE  /\ gateway'[x] \in {"charged", "refunded"}
                      /\ payments'[x].amount = intents'[x].amount
    BY DEF CreditNeedsCharge
  <2>1. payments[x].status # "none" /\ x \in Refs
    BY <1>1 DEF Refs
  <2> QED BY <1>0, <2>1 DEF CreditNeedsCharge, Monotone, Charged
<1>2. CASE payments' = payments
  BY <1>1, <1>2
<1>3. ASSUME NEW r \in ManualRefs, NEW i \in Invoices, NEW amount \in ManualAmounts,
             LogManualPayment(r, i, amount)
      PROVE  CreditNeedsCharge'
  <2>1. r \in Refs /\ {i} \in SUBSET Invoices /\ LogPayment(r, amount, {i})
    BY <1>3 DEF LogManualPayment, Refs
  <2>2. \A x \in Intents : payments'[x] = payments[x]
    BY <1>0, <2>1, LogPaymentReceipts, PaymentsAssumption DEF Refs
  <2> QED BY <1>1, <2>2
<1>4. ASSUME NEW h \in Handlers, Credit(h) PROVE CreditNeedsCharge'
  <2> DEFINE x == handlers[h].ref
  <2>1. /\ x \in Intents /\ x \in Refs /\ Charged(x) /\ intents[x].status # "none"
        /\ intents[x].target \in SUBSET Invoices
        /\ LogPayment(x, intents[x].amount, intents[x].target)
    BY <1>0, <1>4 DEF Credit, At, HandlersOK, HandlerOK, Refs, TypeOK, Intent
  <2>2. /\ \A y \in Refs : y # x => payments'[y] = payments[y]
        /\ payments[x].status # "none" => payments'[x] = payments[x]
        /\ payments[x].status = "none" => payments'[x].amount = intents[x].amount
    BY <1>0, <2>1, LogPaymentReceipts
  <2>3. UNCHANGED <<intents, gateway>>
    BY <1>4 DEF Credit
  <2> HIDE DEF x
  <2> QED BY <1>0, <2>1, <2>2, <2>3 DEF CreditNeedsCharge, Charged, Refs
<1>5. ASSUME NEW h \in Handlers, ReversePayment(h) PROVE CreditNeedsCharge'
  <2>1. payments[handlers[h].ref].status # "none"
    BY <1>0, <1>5 DEF ReversePayment, At, HandlersOK, HandlerOK
  <2>2. \A y \in Refs : y # handlers[h].ref => payments'[y] = payments[y]
    BY <1>0, <1>5 DEF ReversePayment, TypeOK
  <2> QED BY <1>1, <2>1, <2>2 DEF Refs
<1>6. ASSUME NEW h \in Handlers, Proceed(h) PROVE CreditNeedsCharge'
  BY <1>2, <1>4, <1>5, <1>6 DEF Proceed, MarkSuccess, MarkFailed, Materialize, VerifyAnswer
<1>7. ASSUME NEW h \in Handlers,
             \/ Receive(h) \/ Interrupt(h)
             \/ \E x \in Intents : Verify(h, x)
             \/ \E r \in Refs : RequestReversal(h, r)
      PROVE  CreditNeedsCharge'
  BY <1>2, <1>7 DEF Receive, ReceiveCharge, ReceiveRefund, RequestReversal, ReadPayment,
     Interrupt, Verify
<1>8. CASE BillStep \/ CheckoutStep \/ PaystackStep \/ UNCHANGED vars
  BY <1>2, <1>8 DEF BillStep, CheckoutStep, PaystackStep, CreateInvoice, GenerateCharge,
     CreateIntent, CreateMultiInvoiceIntent, Prepay, OpenIntent, ChargeFails,
     ChargeSucceeds, ChargeMismatches, Refund, Emit, vars
<1> QED BY <1>3, <1>6, <1>7, <1>8 DEF Next, StaffStep

-----------------------------------------------------------------------------
\* A handler between marking its intent and logging the payment.
OnItsWay(h) == handlers[h].step \in {"materialize", "credit"}

\* SuccessIsCredited survives a step that marks no intent, when every handler on
\* its way stays there, has logged its payment, or was interrupted.
LEMMA HandsOver ==
    ASSUME SuccessIsCredited, Monotone, interrupted \subseteq interrupted',
           \A x \in Intents : intents'[x].status = "success" => intents[x].status = "success",
           \A h \in Handlers : OnItsWay(h) =>
              \/ OnItsWay(h)' /\ handlers'[h].ref = handlers[h].ref
              \/ payments'[handlers[h].ref].status # "none"
              \/ handlers[h].ref \in interrupted'
    PROVE  SuccessIsCredited'
<1> SUFFICES ASSUME NEW x \in Intents, intents[x].status = "success"
             PROVE  \/ payments'[x].status # "none"
                    \/ \E h \in Handlers :
                         handlers'[h].ref = x /\ handlers'[h].step \in {"materialize", "credit"}
                    \/ x \in interrupted'
  BY DEF SuccessIsCredited
<1>1. CASE payments[x].status # "none"
  BY <1>1 DEF Monotone, Refs
<1>2. CASE x \in interrupted
  BY <1>2
<1>3. CASE \E h \in Handlers : handlers[h].ref = x /\ OnItsWay(h)
  BY <1>3 DEF OnItsWay
<1> QED BY <1>1, <1>2, <1>3 DEF SuccessIsCredited, OnItsWay

\* An intent in 'success' is never left without a payment, a handler that is
\* about to log it, or the record of that handler's interruption.
LEMMA NextSuccess == IInv /\ [Next]_vars => SuccessIsCredited'
<1> SUFFICES ASSUME IInv, [Next]_vars PROVE SuccessIsCredited'
  OBVIOUS
<1> USE DEF ledgerVars, gatewayVars, faultVars
<1>0. TypeOK /\ HandlersOK /\ SuccessIsCredited /\ Monotone
  BY NextMonotone DEF IInv, CoreInv
<1>1. ASSUME NEW h \in Handlers, ~ OnItsWay(h),
             \A g \in Handlers : g # h => handlers'[g] = handlers[g],
             interrupted \subseteq interrupted',
             \A x \in Intents : intents'[x].status = "success" => intents[x].status = "success"
      PROVE  SuccessIsCredited'
  <2>1. \A g \in Handlers : OnItsWay(g) => OnItsWay(g)' /\ handlers'[g].ref = handlers[g].ref
    BY <1>1 DEF OnItsWay
  <2> QED BY <1>0, <1>1, <2>1, HandsOver
<1>2. ASSUME handlers' = handlers, interrupted' = interrupted,
             \A x \in Intents : intents'[x].status = "success" => intents[x].status = "success"
      PROVE  SuccessIsCredited'
  <2>1. \A g \in Handlers : OnItsWay(g) => OnItsWay(g)' /\ handlers'[g].ref = handlers[g].ref
    BY <1>2 DEF OnItsWay
  <2> QED BY <1>0, <1>2, <2>1, HandsOver
<1>3. ASSUME NEW x \in Intents, NEW kind, NEW target, NEW amount,
             OpenIntent(x, kind, target, amount)
      PROVE  SuccessIsCredited'
  <2>1. \A y \in Intents : intents'[y].status = "success" => intents[y].status = "success"
    BY <1>0, <1>3 DEF OpenIntent, TypeOK
  <2> QED BY <1>2, <1>3, <2>1 DEF OpenIntent
<1>4. ASSUME NEW h \in Handlers, NEW x \in Intents,
             \/ \E outcome \in ChargeOutcomes : ReceiveCharge(h, x, outcome)
             \/ ReceiveRefund(h, x) \/ Verify(h, x)
             \/ \E r \in Refs, event \in {"none", "refund"} : ReadPayment(h, r, event)
      PROVE  SuccessIsCredited'
  <2>1. /\ ~ OnItsWay(h) /\ UNCHANGED <<intents, interrupted>>
        /\ \A g \in Handlers : g # h => handlers'[g] = handlers[g]
    BY <1>0, <1>4 DEF ReceiveCharge, ReceiveRefund, Verify, ReadPayment, At, Start, OnItsWay, TypeOK
  <2> QED BY <1>1, <2>1
<1>5. ASSUME NEW h \in Handlers, Interrupt(h) PROVE SuccessIsCredited'
  <2>1. /\ handlers' = [handlers EXCEPT ![h] = Idle] /\ intents' = intents
        /\ interrupted \subseteq interrupted'
        /\ OnItsWay(h) => handlers[h].ref \in interrupted'
    BY <1>5 DEF Interrupt, OnItsWay
  <2>2. \A g \in Handlers : g # h => handlers'[g] = handlers[g]
    BY <1>0, <2>1 DEF TypeOK
  <2>3. \A g \in Handlers : OnItsWay(g) =>
          \/ OnItsWay(g)' /\ handlers'[g].ref = handlers[g].ref
          \/ handlers[g].ref \in interrupted'
    BY <2>1, <2>2 DEF OnItsWay
  <2> QED BY <1>0, <2>1, <2>3, HandsOver
<1>6. ASSUME NEW h \in Handlers, MarkSuccess(h) PROVE SuccessIsCredited'
  <2> DEFINE x == handlers[h].ref
  <2>1. x \in Intents /\ ~ OnItsWay(h)
    BY <1>0, <1>6 DEF MarkSuccess, At, HandlersOK, HandlerOK, OnItsWay
  <2>2. /\ handlers'[h].ref = x /\ handlers'[h].step \in {"materialize", "credit"}
        /\ \A g \in Handlers : g # h => handlers'[g] = handlers[g]
    BY <1>0, <1>6 DEF MarkSuccess, AfterMarking, Advance, TypeOK, Handler
  <2>3. /\ \A y \in Intents : y # x => intents'[y] = intents[y]
        /\ UNCHANGED <<payments, interrupted>>
    BY <1>0, <1>6 DEF MarkSuccess, TypeOK
  <2> HIDE DEF x
  <2> SUFFICES ASSUME NEW y \in Intents, y # x, intents[y].status = "success"
               PROVE  \/ payments[y].status # "none"
                      \/ \E g \in Handlers :
                           handlers'[g].ref = y /\ handlers'[g].step \in {"materialize", "credit"}
                      \/ y \in interrupted
    BY <2>2, <2>3 DEF SuccessIsCredited
  <2>4. ASSUME NEW g \in Handlers, handlers[g].ref = y, OnItsWay(g)
        PROVE  handlers'[g].ref = y /\ handlers'[g].step \in {"materialize", "credit"}
    BY <2>1, <2>2, <2>4 DEF OnItsWay
  <2> QED BY <1>0, <2>4 DEF SuccessIsCredited, OnItsWay
<1>7. ASSUME NEW h \in Handlers, MarkFailed(h) PROVE SuccessIsCredited'
  <2>1. /\ ~ OnItsWay(h) /\ interrupted' = interrupted
        /\ \A g \in Handlers : g # h => handlers'[g] = handlers[g]
    BY <1>0, <1>7 DEF MarkFailed, At, Return, OnItsWay, TypeOK
  <2>2. \A x \in Intents : intents'[x].status = "success" => intents[x].status = "success"
    <3> TAKE x \in Intents
    <3>1. intents[x] \in Intent
      BY <1>0 DEF TypeOK
    <3>2. \/ intents'[x] = intents[x]
          \/ intents'[x] = [intents[x] EXCEPT !.status = "failed"]
      BY <1>0, <1>7 DEF MarkFailed, TypeOK
    <3> QED BY <3>1, <3>2 DEF Intent
  <2> QED BY <1>1, <2>1, <2>2
<1>8. ASSUME NEW h \in Handlers, Materialize(h) PROVE SuccessIsCredited'
  <2>1. /\ UNCHANGED <<intents, interrupted>>
        /\ handlers'[h].ref = handlers[h].ref /\ OnItsWay(h)'
        /\ \A g \in Handlers : g # h => handlers'[g] = handlers[g]
    BY <1>0, <1>8 DEF Materialize, Advance, OnItsWay, TypeOK, Handler
  <2>2. \A g \in Handlers : OnItsWay(g) => OnItsWay(g)' /\ handlers'[g].ref = handlers[g].ref
    BY <2>1 DEF OnItsWay
  <2> QED BY <1>0, <2>1, <2>2, HandsOver
<1>9. ASSUME NEW h \in Handlers, Credit(h) PROVE SuccessIsCredited'
  <2> DEFINE x == handlers[h].ref
  <2>1. /\ x \in Refs /\ intents[x].target \in SUBSET Invoices
        /\ LogPayment(x, intents[x].amount, intents[x].target)
    BY <1>0, <1>9 DEF Credit, At, HandlersOK, HandlerOK, Refs, TypeOK, Intent
  <2>2. payments'[x].status # "none"
    BY <1>0, <2>1, LogPaymentReceipts
  <2>3. /\ UNCHANGED <<intents, interrupted>>
        /\ \A g \in Handlers : g # h => handlers'[g] = handlers[g]
    BY <1>0, <1>9 DEF Credit, Return, TypeOK
  <2>4. \A g \in Handlers : OnItsWay(g) =>
          \/ OnItsWay(g)' /\ handlers'[g].ref = handlers[g].ref
          \/ payments'[handlers[g].ref].status # "none"
    BY <2>2, <2>3 DEF OnItsWay
  <2> QED BY <1>0, <2>3, <2>4, HandsOver
<1>10. ASSUME NEW h \in Handlers, VerifyAnswer(h) \/ ReversePayment(h)
       PROVE  SuccessIsCredited'
  <2>1. /\ ~ OnItsWay(h) /\ UNCHANGED <<intents, interrupted>>
        /\ \A g \in Handlers : g # h => handlers'[g] = handlers[g]
    BY <1>0, <1>10 DEF VerifyAnswer, ReversePayment, At, Return, Advance, OnItsWay, TypeOK
  <2> QED BY <1>1, <2>1
<1>11. CASE BillStep \/ PaystackStep \/ StaffStep \/ UNCHANGED vars
  BY <1>2, <1>11 DEF BillStep, PaystackStep, StaffStep, CreateInvoice, GenerateCharge,
     ChargeFails, ChargeSucceeds, ChargeMismatches, Refund, Emit, LogManualPayment, vars
<1>12. CASE CheckoutStep
  BY <1>3, <1>12 DEF CheckoutStep, CreateIntent, CreateMultiInvoiceIntent, Prepay
<1>13. ASSUME NEW h \in Handlers, Proceed(h) PROVE SuccessIsCredited'
  BY <1>6, <1>7, <1>8, <1>9, <1>10, <1>13 DEF Proceed
<1>14. ASSUME NEW h \in Handlers, Receive(h) PROVE SuccessIsCredited'
  BY <1>4, <1>14 DEF Receive
<1>15. ASSUME NEW h \in Handlers,
              \/ \E x \in Intents : Verify(h, x)
              \/ \E r \in Refs : RequestReversal(h, r)
       PROVE  SuccessIsCredited'
  <2>1. ASSUME NEW r \in Refs, ReadPayment(h, r, "none") PROVE SuccessIsCredited'
    <3>1. /\ ~ OnItsWay(h) /\ UNCHANGED <<intents, interrupted>>
          /\ \A g \in Handlers : g # h => handlers'[g] = handlers[g]
      BY <1>0, <2>1 DEF ReadPayment, At, Start, OnItsWay, TypeOK
    <3> QED BY <1>1, <3>1
  <2> QED BY <1>4, <1>15, <2>1 DEF RequestReversal
<1> QED BY <1>5, <1>11, <1>12, <1>13, <1>14, <1>15 DEF Next

-----------------------------------------------------------------------------
\* What a step may do to a receipt: write a missing one, as completed, or
\* reverse one, emptied; a reversed one stays as it is.
ReceiptStep(r) ==
    \/ payments'[r] = payments[r]
    \/ payments[r].status = "none" /\ payments'[r].status = "completed"
    \/ /\ payments[r].status = "completed" /\ payments'[r].status = "reversed"
       /\ payments'[r].amount = payments[r].amount
       /\ payments'[r].amountUnallocated = 0
       /\ payments'[r].allocations = NothingAllocated

\* Only LogPayment and ReversePayment touch a receipt, each in its own way.
LEMMA NextReceipt == IInv /\ [Next]_vars => \A r \in Refs : ReceiptStep(r)
<1> SUFFICES ASSUME IInv, [Next]_vars PROVE \A r \in Refs : ReceiptStep(r)
  OBVIOUS
<1> USE DEF ledgerVars, gatewayVars, faultVars
<1>0. TypeOK /\ HandlersOK /\ ReversedIsEmpty
  BY DEF IInv, CoreInv
<1>1. CASE payments' = payments
  BY <1>1 DEF ReceiptStep
<1>2. ASSUME NEW q \in Refs, NEW amount, NEW T \in SUBSET Invoices, LogPayment(q, amount, T)
      PROVE  \A r \in Refs : ReceiptStep(r)
  <2>1. /\ \A r \in Refs : r # q => payments'[r] = payments[r]
        /\ payments[q].status # "none" => payments'[q] = payments[q]
        /\ payments[q].status = "none" => payments'[q].status = "completed"
    BY <1>0, <1>2, LogPaymentReceipts
  <2> QED BY <2>1 DEF ReceiptStep
<1>3. ASSUME NEW r \in ManualRefs, NEW i \in Invoices, NEW amount \in ManualAmounts,
             LogManualPayment(r, i, amount)
      PROVE  \A q \in Refs : ReceiptStep(q)
  <2>1. r \in Refs /\ {i} \in SUBSET Invoices /\ LogPayment(r, amount, {i})
    BY <1>3 DEF LogManualPayment, Refs
  <2> QED BY <1>2, <2>1
<1>4. ASSUME NEW h \in Handlers, Credit(h) PROVE \A r \in Refs : ReceiptStep(r)
  <2> DEFINE x == handlers[h].ref
  <2>1. /\ x \in Refs /\ intents[x].target \in SUBSET Invoices
        /\ LogPayment(x, intents[x].amount, intents[x].target)
    BY <1>0, <1>4 DEF Credit, At, HandlersOK, HandlerOK, Refs, TypeOK, Intent
  <2> QED BY <1>2, <2>1
<1>5. ASSUME NEW h \in Handlers, ReversePayment(h) PROVE \A r \in Refs : ReceiptStep(r)
  <2> DEFINE q == handlers[h].ref
             undone == [payments[q] EXCEPT !.status = "reversed", !.amountUnallocated = 0,
                                           !.allocations = NothingAllocated]
  <2>1. q \in Refs /\ payments[q] \in Payment /\ payments[q].status # "none"
    BY <1>0, <1>5 DEF ReversePayment, At, HandlersOK, HandlerOK, TypeOK
  <2>2. /\ undone.status = "reversed" /\ undone.amount = payments[q].amount
        /\ undone.amountUnallocated = 0 /\ undone.allocations = NothingAllocated
    BY <2>1 DEF Payment
  <2>3. payments[q].status = "reversed" => undone = payments[q]
    BY <1>0, <2>1 DEF ReversedIsEmpty, Payment
  <2>4. payments[q].status \in {"completed", "reversed"}
    BY <2>1 DEF Payment, PaymentStatuses
  <2>5. payments' = [payments EXCEPT ![q] = undone]
    BY <1>5 DEF ReversePayment
  <2> HIDE DEF undone, q
  <2>6. payments'[q] = undone /\ \A r \in Refs : r # q => payments'[r] = payments[r]
    BY <1>0, <2>1, <2>5 DEF TypeOK
  <2> QED BY <2>2, <2>3, <2>4, <2>6 DEF ReceiptStep
<1>6. ASSUME NEW h \in Handlers, Proceed(h) PROVE \A r \in Refs : ReceiptStep(r)
  BY <1>1, <1>4, <1>5, <1>6 DEF Proceed, MarkSuccess, MarkFailed, Materialize, VerifyAnswer
<1>7. ASSUME NEW h \in Handlers,
             \/ Receive(h) \/ Interrupt(h)
             \/ \E x \in Intents : Verify(h, x)
             \/ \E r \in Refs : RequestReversal(h, r)
      PROVE  \A r \in Refs : ReceiptStep(r)
  BY <1>1, <1>7 DEF Receive, ReceiveCharge, ReceiveRefund, RequestReversal, ReadPayment,
     Interrupt, Verify
<1>8. CASE BillStep \/ CheckoutStep \/ PaystackStep \/ UNCHANGED vars
  BY <1>1, <1>8 DEF BillStep, CheckoutStep, PaystackStep, CreateInvoice, GenerateCharge,
     CreateIntent, CreateMultiInvoiceIntent, Prepay, OpenIntent, ChargeFails,
     ChargeSucceeds, ChargeMismatches, Refund, Emit, vars
<1> QED BY <1>3, <1>6, <1>7, <1>8 DEF Next, StaffStep

\* A reversed receipt holds nothing, so reversing it again changes nothing of it.
LEMMA NextReversed == IInv /\ [Next]_vars => ReversedIsEmpty'
BY NextReceipt DEF IInv, CoreInv, ReversedIsEmpty, ReceiptStep

\* Every step keeps the invariant.
LEMMA NextInv == IInv /\ [Next]_vars => IInv'
<1> SUFFICES ASSUME IInv, [Next]_vars PROVE IInv'
  OBVIOUS
<1>1. TypeOK'
  BY NextType DEF IInv, CoreInv
<1>2. HandlersOK'
  BY NextHandlers DEF IInv
<1>3. PaystackOK'
  BY NextPaystack DEF IInv
<1>4. (RowsOK /\ NeverOverpaid /\ StatusAgrees)'
  BY NextInvoices DEF InvoicesOK
<1>5. CreditNeedsCharge'
  BY NextCredit
<1>6. SuccessIsCredited'
  BY NextSuccess
<1>7. ReversedIsEmpty'
  BY NextReversed
<1> QED BY <1>1, <1>2, <1>3, <1>4, <1>5, <1>6, <1>7 DEF IInv, CoreInv

-----------------------------------------------------------------------------
\* IInv is inductive: it holds of the initial states and every step keeps it.
THEOREM Invariance == Spec => []IInv
<1>1. Init => IInv
  BY InitInv
<1>2. IInv /\ [Next]_vars => IInv'
  BY NextInv
<1> QED BY <1>1, <1>2, PTL DEF Spec

\* Every variable keeps its type.
THEOREM TypeCorrect == Spec => []TypeOK
<1>1. IInv => TypeOK
  BY DEF IInv, CoreInv
<1> QED BY <1>1, Invariance, PTL

\* No interleaving of payments and reversals, however many invoices, intents and
\* handlers there are, pays an invoice beyond its amount.
THEOREM NoOverpayment == Spec => []NeverOverpaid
<1>1. IInv => NeverOverpaid
  BY DEF IInv, CoreInv
<1> QED BY <1>1, Invariance, PTL

\* The status column of an invoice always agrees with its amountPaid column.
THEOREM StatusIsRight == Spec => []StatusAgrees
<1>1. IInv => StatusAgrees
  BY DEF IInv, CoreInv
<1> QED BY <1>1, Invariance, PTL

\* No order of webhooks and verify calls credits money that Paystack did not
\* take, or another amount than the one asked for.
THEOREM CreditIsBacked == Spec => []CreditNeedsCharge
<1>1. IInv => CreditNeedsCharge
  BY DEF IInv, CoreInv
<1> QED BY <1>1, Invariance, PTL

\* The only way an intent in 'success' can miss its payment for good is a
\* handler that stopped between markSuccess and the ledger.
THEOREM SuccessIsBacked == Spec => []SuccessIsCredited
<1>1. IInv => SuccessIsCredited
  BY DEF IInv, CoreInv
<1> QED BY <1>1, Invariance, PTL

\* A receipt is written once and reversed at most once, whatever is redelivered.
THEOREM ReceiptsAreFinal == Spec => ReceiptIsFinal
<1> DEFINE Final == \A r \in Refs :
         /\ payments[r].status = "completed" =>
               /\ payments'[r].status \in {"completed", "reversed"}
               /\ payments'[r].amount = payments[r].amount
               /\ payments'[r].status = "completed" => payments'[r] = payments[r]
         /\ payments[r].status = "reversed" => payments'[r] = payments[r]
<1>1. IInv /\ [Next]_vars => [Final]_vars
  BY NextReceipt DEF ReceiptStep
<1> QED BY <1>1, Invariance, PTL DEF Spec, ReceiptIsFinal

-----------------------------------------------------------------------------
\* The initial states of Payments are those of Settlement.
LEMMA InitSettles == Init => S!Init
BY DEF Init, S!Init, chargedIntents, ledgerOf, NoPaymentRow, Refs

\* Every step of Payments is a step of Settlement or leaves it as it is.
LEMMA NextSettles == IInv /\ [Next]_vars => [S!Next]_(S!vars)
<1> SUFFICES ASSUME IInv, [Next]_vars PROVE [S!Next]_(S!vars)
  OBVIOUS
<1> USE DEF ledgerVars, gatewayVars, faultVars
<1> DEFINE ledger == [x \in Intents |-> ledgerOf(payments[x].status)]
<1>0. TypeOK /\ HandlersOK /\ PaystackOK
  BY DEF IInv, CoreInv
<1>1. CASE UNCHANGED <<payments, gateway>>
  BY <1>1 DEF S!vars, chargedIntents
<1>2. ASSUME NEW x \in Intents,
             ChargeFails(x) \/ ChargeSucceeds(x) \/ ChargeMismatches(x) \/ Refund(x)
      PROVE  [S!Next]_(S!vars)
  <2>1. CASE ChargeSucceeds(x)
    <3>1. /\ gateway[x] \in {"open", "failed"} /\ payments' = payments
          /\ gateway' = [gateway EXCEPT ![x] = "charged"]
      BY <2>1 DEF ChargeSucceeds, Emit
    <3>2. x \notin chargedIntents /\ chargedIntents' = chargedIntents \cup {x}
      BY <1>0, <3>1 DEF chargedIntents, TypeOK
    <3> QED BY <3>1, <3>2 DEF S!Next, S!Charge
  <2>2. CASE ~ ChargeSucceeds(x)
    <3>1. chargedIntents' = chargedIntents /\ payments' = payments
      BY <1>0, <1>2, <2>2 DEF ChargeFails, ChargeMismatches, Refund, Emit, chargedIntents, TypeOK
    <3> QED BY <3>1 DEF S!vars
  <2> QED BY <2>1, <2>2
<1>3. ASSUME NEW q \in Refs, gateway' = gateway, ReceiptStep(q),
             \A r \in Refs : r # q => payments'[r] = payments[r],
             q \in Intents /\ payments[q].status = "none" => q \in chargedIntents
      PROVE  [S!Next]_(S!vars)
  <2>1. chargedIntents' = chargedIntents
    BY <1>3 DEF chargedIntents
  <2>2. \A x \in Intents : x # q => payments'[x].status = payments[x].status
    BY <1>3 DEF Refs
  <2>3. CASE q \notin Intents \/ payments'[q] = payments[q]
    BY <2>1, <2>2, <2>3 DEF S!vars
  <2>4. CASE q \in Intents /\ payments[q].status = "none" /\ payments'[q].status = "completed"
    <3>1. ledger[q] = "nothing" /\ q \in chargedIntents
      BY <1>3, <2>4 DEF ledgerOf
    <3>2. \A x \in Intents :
            ledgerOf(payments'[x].status) =
               IF x = q THEN "credited" ELSE ledgerOf(payments[x].status)
      BY <2>2, <2>4 DEF ledgerOf
    <3>3. ledger' = [ledger EXCEPT ![q] = "credited"]
      BY <3>2
    <3> QED BY <2>1, <2>4, <3>1, <3>3 DEF S!Next, S!Credit
  <2>5. CASE q \in Intents /\ payments[q].status = "completed" /\ payments'[q].status = "reversed"
    <3>1. ledger[q] = "credited"
      BY <2>5 DEF ledgerOf
    <3>2. \A x \in Intents :
            ledgerOf(payments'[x].status) =
               IF x = q THEN "reversed" ELSE ledgerOf(payments[x].status)
      BY <2>2, <2>5 DEF ledgerOf
    <3>3. ledger' = [ledger EXCEPT ![q] = "reversed"]
      BY <3>2
    <3> QED BY <2>1, <2>5, <3>1, <3>3 DEF S!Next, S!Reverse
  <2> QED BY <1>3, <2>3, <2>4, <2>5 DEF ReceiptStep
<1>4. \A r \in Refs : ReceiptStep(r)
  BY NextReceipt
<1>5. ASSUME NEW r \in ManualRefs, NEW i \in Invoices, NEW amount \in ManualAmounts,
             LogManualPayment(r, i, amount)
      PROVE  [S!Next]_(S!vars)
  <2>1. r \in Refs /\ r \notin Intents /\ {i} \in SUBSET Invoices /\ LogPayment(r, amount, {i})
    BY <1>5, PaymentsAssumption DEF LogManualPayment, Refs
  <2>2. \A q \in Refs : q # r => payments'[q] = payments[q]
    BY <1>0, <2>1, LogPaymentReceipts
  <2>3. gateway' = gateway
    BY <1>5 DEF LogManualPayment
  <2> QED BY <1>3, <1>4, <2>1, <2>2, <2>3
<1>6. ASSUME NEW h \in Handlers, Credit(h) PROVE [S!Next]_(S!vars)
  <2> DEFINE x == handlers[h].ref
  <2>1. /\ x \in Refs /\ x \in chargedIntents /\ intents[x].target \in SUBSET Invoices
        /\ LogPayment(x, intents[x].amount, intents[x].target)
    BY <1>0, <1>6 DEF Credit, At, HandlersOK, HandlerOK, Refs, TypeOK, Intent,
       Charged, chargedIntents
  <2>2. \A q \in Refs : q # x => payments'[q] = payments[q]
    BY <1>0, <2>1, LogPaymentReceipts
  <2>3. gateway' = gateway
    BY <1>6 DEF Credit
  <2> QED BY <1>3, <1>4, <2>1, <2>2, <2>3
<1>7. ASSUME NEW h \in Handlers, ReversePayment(h) PROVE [S!Next]_(S!vars)
  <2> DEFINE r == handlers[h].ref
  <2>1. r \in Refs /\ payments[r].status # "none"
    BY <1>0, <1>7 DEF ReversePayment, At, HandlersOK, HandlerOK
  <2>2. \A q \in Refs : q # r => payments'[q] = payments[q]
    BY <1>0, <1>7 DEF ReversePayment, TypeOK
  <2>3. gateway' = gateway
    BY <1>7 DEF ReversePayment
  <2> QED BY <1>3, <1>4, <2>1, <2>2, <2>3
<1>8. ASSUME NEW h \in Handlers, Proceed(h) PROVE [S!Next]_(S!vars)
  BY <1>1, <1>6, <1>7, <1>8 DEF Proceed, MarkSuccess, MarkFailed, Materialize, VerifyAnswer
<1>9. ASSUME NEW h \in Handlers,
             \/ Receive(h) \/ Interrupt(h)
             \/ \E x \in Intents : Verify(h, x)
             \/ \E r \in Refs : RequestReversal(h, r)
      PROVE  [S!Next]_(S!vars)
  BY <1>1, <1>9 DEF Receive, ReceiveCharge, ReceiveRefund, RequestReversal, ReadPayment,
     Interrupt, Verify
<1>10. CASE BillStep \/ CheckoutStep \/ UNCHANGED vars
  BY <1>1, <1>10 DEF BillStep, CheckoutStep, CreateInvoice, GenerateCharge,
     CreateIntent, CreateMultiInvoiceIntent, Prepay, OpenIntent, vars
<1> QED BY <1>2, <1>5, <1>8, <1>9, <1>10 DEF Next, PaystackStep, StaffStep

\* Whatever webhooks, verify calls, reversals and interruptions do together,
\* each checkout moves through the ledger as Settlement promises.
THEOREM PaymentsSettle == Spec => SettlesOnce
<1> QED BY InitSettles, NextSettles, Invariance, PTL DEF Spec, SettlesOnce, S!Spec

-----------------------------------------------------------------------------
(* The ledger: sums of allocations. *)

\* Nothing allocated adds up to nothing.
LEMMA NothingSums == SumFunction(NothingAllocated) = 0
<1>1. \A i \in Invoices : NothingAllocated[i] = 0
  BY DEF NothingAllocated
<1>2. SumFunctionOnSet(NothingAllocated, Invoices) = 0
  BY <1>1, SumZero, PaymentsAssumption
<1> QED BY <1>2, IdleType, AllocationSum

\* Finitely many invoices have a last due date.
LEMMA DueDatesEnd == \E n \in Nat : \A i \in Invoices : DueDate[i] < n
<1> DEFINE F == {T \in SUBSET Invoices : \E n \in Nat : \A i \in T : DueDate[i] < n}
<1>1. {} \in F
  OBVIOUS
<1>2. ASSUME NEW T \in SUBSET Invoices, NEW j \in Invoices \ T, T \in F
      PROVE  T \cup {j} \in F
  <2>1. PICK n \in Nat : \A i \in T : DueDate[i] < n
    BY <1>2
  <2> DEFINE m == n + DueDate[j] + 1
  <2>2. \A i \in Invoices : DueDate[i] \in Nat
    BY PaymentsAssumption
  <2>3. m \in Nat
    BY <2>2
  <2>4. \A i \in T \cup {j} : DueDate[i] < m
    BY <2>1, <2>2
  <2> HIDE DEF m
  <2> QED BY <2>3, <2>4
<1> HIDE DEF F
<1>3. \A T \in SUBSET Invoices : T \in F
  BY <1>1, <1>2, SetInduction, PaymentsAssumption
<1> QED BY <1>3 DEF F

\* A lump sum is never allocated twice: walking the invoices by due date, what
\* it has brought so far is what they owe, until there is no more of it.
LEMMA AppliedSum ==
    ASSUME TypeOK, NEW amount \in Nat, NEW T \in SUBSET Invoices
    PROVE  SumFunction(Applied(amount, T)) <= amount
<1> DEFINE applied == Applied(amount, T)
           owed == [i \in Invoices |-> Outstanding(i)]
           E == {i \in T : Exists(i)}
           Below(n) == {i \in E : DueDate[i] < n}
           Brought(n) == SumFunctionOnSet(applied, Below(n))
           Owed(n) == SumFunctionOnSet(owed, Below(n))
           A == {n \in Nat : Brought(n) = Smaller(amount, Owed(n))}
<1>1. applied \in Allocation /\ \A i \in Invoices : ~ Exists(i) => applied[i] = 0
  BY AppliedType
<1>2. \A i \in Invoices : owed[i] \in Nat /\ applied[i] \in Nat /\ DueDate[i] \in Nat
  <2>1. \A i \in Invoices : applied[i] \in Nat
    <3> HIDE DEF applied
    <3> QED BY <1>1 DEF Allocation
  <2>2. \A i \in Invoices : owed[i] \in Nat
    BY OutstandingType
  <2> QED BY <2>1, <2>2, PaymentsAssumption
<1>3. \A i \in E : applied[i] = Smaller(LeftOf(amount, Owed(DueDate[i])), owed[i])
  <2> SUFFICES ASSUME NEW i \in E
               PROVE  applied[i] = Smaller(LeftOf(amount, Owed(DueDate[i])), owed[i])
    OBVIOUS
  <2>1. {j \in DueBefore(i, T) : Exists(j)} = Below(DueDate[i])
    BY DEF DueBefore
  <2>2. OutstandingIn(Below(DueDate[i])) = Owed(DueDate[i])
    BY DEF OutstandingIn
  <2>3. applied[i] = Smaller(LeftOf(amount, OutstandingIn({j \in DueBefore(i, T) : Exists(j)})),
                             Outstanding(i))
    BY DEF Applied
  <2> QED BY <2>1, <2>2, <2>3
<1>4. \A i \in Invoices \ E : applied[i] = 0
  BY DEF Applied
<1> HIDE DEF applied, owed
<1>5. \A n \in Nat : /\ IsFiniteSet(Below(n)) /\ Below(n) \in SUBSET Invoices
                     /\ Owed(n) \in Nat /\ Brought(n) \in Nat
  <2> SUFFICES ASSUME NEW n \in Nat
               PROVE  /\ IsFiniteSet(Below(n)) /\ Below(n) \in SUBSET Invoices
                      /\ Owed(n) \in Nat /\ Brought(n) \in Nat
    OBVIOUS
  <2>1. IsFiniteSet(Below(n)) /\ Below(n) \in SUBSET Invoices
    BY FS_Subset, PaymentsAssumption
  <2>2. \A i \in Below(n) : owed[i] \in Nat /\ applied[i] \in Nat
    BY <1>2
  <2> QED BY <2>1, <2>2, SumNat
<1>6. 0 \in A
  <2>1. Below(0) = {}
    BY <1>2
  <2>2. Brought(0) = 0 /\ Owed(0) = 0
    BY <2>1, SumEmpty
  <2> HIDE DEF Brought, Owed
  <2> QED BY <2>2 DEF Smaller
<1>7. ASSUME NEW n \in Nat, n \in A
      PROVE  n + 1 \in A
  <2>1. Brought(n) = Smaller(amount, Owed(n)) /\ Owed(n) \in Nat
    BY <1>5, <1>7
  <2>2. CASE \E i \in E : DueDate[i] = n
    <3>1. PICK i \in E : DueDate[i] = n
      BY <2>2
    <3>2. Below(n + 1) = Below(n) \cup {i}
      <4>1. \A j \in E : DueDate[j] = n => j = i
        BY <3>1, PaymentsAssumption
      <4> QED BY <1>2, <3>1, <4>1
    <3>3. i \notin Below(n) /\ IsFiniteSet(Below(n))
      BY <1>5, <3>1
    <3>4. /\ \A j \in Below(n) : owed[j] \in Int /\ applied[j] \in Int
          /\ owed[i] \in Nat /\ applied[i] \in Nat
      BY <1>2
    <3>5. SumFunctionOnSet(owed, Below(n) \cup {i}) = owed[i] + Owed(n)
      BY <3>3, <3>4, SumAdd
    <3>6. SumFunctionOnSet(applied, Below(n) \cup {i}) = applied[i] + Brought(n)
      BY <3>3, <3>4, SumAdd
    <3>7. Owed(n + 1) = owed[i] + Owed(n)
      BY <3>2, <3>5
    <3>8. Brought(n + 1) = applied[i] + Brought(n)
      BY <3>2, <3>6
    <3>9. applied[i] = Smaller(LeftOf(amount, Owed(n)), owed[i])
      BY <1>3, <3>1
    <3>10. n + 1 \in Nat
      OBVIOUS
    <3> HIDE DEF Brought, Owed
    <3> QED BY <2>1, <3>4, <3>7, <3>8, <3>9, <3>10 DEF Smaller, LeftOf
  <2>3. CASE ~ \E i \in E : DueDate[i] = n
    <3>1. Below(n + 1) = Below(n)
      BY <1>2, <2>3
    <3> QED BY <1>7, <3>1
  <2> QED BY <2>2, <2>3
<1>8. \A n \in Nat : n \in A
  <2> HIDE DEF A
  <2> QED BY <1>6, <1>7, NumberInduction
<1>9. PICK n \in Nat : \A i \in Invoices : DueDate[i] < n
  BY DueDatesEnd
<1>10. Below(n) = E
  BY <1>9
<1>11. SumFunctionOnSet(applied, E) <= amount
  <2>1. Brought(n) = Smaller(amount, Owed(n)) /\ Owed(n) \in Nat
    BY <1>5, <1>8
  <2>2. SumFunctionOnSet(applied, E) = Brought(n)
    BY <1>10
  <2> HIDE DEF Brought, Owed
  <2> QED BY <2>1, <2>2 DEF Smaller
<1>12. SumFunctionOnSet(applied, Invoices) = SumFunctionOnSet(applied, E)
  <2>1. E \subseteq Invoices /\ \A i \in E : applied[i] \in Int
    BY <1>2
  <2> HIDE DEF E
  <2> QED BY <1>4, <2>1, SumSupport, PaymentsAssumption
<1>13. SumFunction(applied) = SumFunctionOnSet(applied, Invoices)
  BY <1>1, AllocationSum
<1> QED BY <1>11, <1>12, <1>13 DEF applied

-----------------------------------------------------------------------------
\* The receipt that LogPayment writes: all of the amount, allocated or parked.
LEMMA LogPaymentMoney ==
    ASSUME TypeOK, NEW r \in Refs, NEW amount \in Nat, NEW T \in SUBSET Invoices,
           LogPayment(r, amount, T), payments[r].status = "none"
    PROVE  /\ payments'[r].status = "completed"
           /\ payments'[r].amount = amount
           /\ payments'[r].allocations = Applied(amount, T)
           /\ amount = SumFunction(payments'[r].allocations) + payments'[r].amountUnallocated
           /\ \A i \in Invoices :
                invoices'[i].amountPaid = invoices[i].amountPaid + Applied(amount, T)[i]
<1> DEFINE applied == Applied(amount, T)
           first == {i \in T : Exists(i) /\ ~ \E j \in DueBefore(i, T) : Exists(j)}
           primary == IF first = {} THEN NoInvoice ELSE CHOOSE i \in first : TRUE
           row == [status |-> "completed", amount |-> amount,
                   amountUnallocated |-> Surplus(amount, applied),
                   invoiceId |-> primary, allocations |-> applied]
<1>1. payments' = [payments EXCEPT ![r] = row]
  BY DEF LogPayment, ReceiptExists
<1>2. payments'[r] = row
  BY <1>1 DEF TypeOK
<1>3. SumFunction(applied) \in Nat /\ SumFunction(applied) <= amount
  BY AppliedType, AllocationSum, AppliedSum
<1>4. amount = SumFunction(applied) + Surplus(amount, applied)
  <2> DEFINE sum == SumFunction(applied)
  <2>1. sum \in Nat /\ sum <= amount
    BY <1>3
  <2>2. Surplus(amount, applied) = LeftOf(amount, sum)
    BY DEF Surplus
  <2> HIDE DEF sum
  <2>3. amount = sum + LeftOf(amount, sum)
    BY <2>1 DEF LeftOf
  <2> QED BY <2>2, <2>3 DEF sum
<1>5. \A i \in Invoices : invoices'[i].amountPaid = invoices[i].amountPaid + applied[i]
  <2> SUFFICES ASSUME NEW i \in Invoices
               PROVE  invoices'[i].amountPaid = invoices[i].amountPaid + applied[i]
    OBVIOUS
  <2>1. applied[i] \in Nat
    BY AppliedType DEF Allocation
  <2>2. invoices[i] \in Invoice
    BY DEF TypeOK
  <2> DEFINE paid == invoices[i].amountPaid + applied[i]
             status == SettledStatus(invoices[i].amount, paid)
  <2>3. invoices'[i] = IF applied[i] > 0
                         THEN [invoices[i] EXCEPT !.amountPaid = paid, !.status = status]
                         ELSE invoices[i]
    BY DEF LogPayment, ReceiptExists
  <2> HIDE DEF applied, status
  <2> QED BY <2>1, <2>2, <2>3 DEF Invoice
<1> HIDE DEF applied, primary
<1> QED BY <1>2, <1>4, <1>5 DEF applied

\* The steps that touch the ledger: rows are created with nothing paid on them,
\* a receipt is logged, or one is reversed.
LEMMA LedgerSteps ==
    ASSUME CoreInv, [Next]_vars
    PROVE  \/ /\ payments' = payments
              /\ \A i \in Invoices :
                    \/ invoices'[i] = invoices[i]
                    \/ ~ Exists(i) /\ invoices'[i].amountPaid = 0
           \/ \E r \in Refs, amount \in Nat, T \in SUBSET Invoices : LogPayment(r, amount, T)
           \/ \E h \in Handlers : ReversePayment(h)
<1> DEFINE Quiet == /\ payments' = payments
                    /\ \A i \in Invoices :
                          \/ invoices'[i] = invoices[i]
                          \/ ~ Exists(i) /\ invoices'[i].amountPaid = 0
           Logs == \E r \in Refs, amount \in Nat, T \in SUBSET Invoices :
                      LogPayment(r, amount, T)
           Reverses == \E h \in Handlers : ReversePayment(h)
<1> USE DEF ledgerVars, gatewayVars, faultVars
<1>0. TypeOK /\ HandlersOK
  BY DEF IInv, CoreInv
<1>1. CASE UNCHANGED <<payments, invoices>>
  BY <1>1
<1>2. ASSUME NEW i \in Invoices, CreateInvoice(i) \/ GenerateCharge(i) PROVE Quiet
  <2>1. payments' = payments /\ ~ Exists(i)
    BY <1>2 DEF CreateInvoice, GenerateCharge
  <2>2. \E amount, status : invoices' = [invoices EXCEPT ![i] =
                       [status |-> status, amount |-> amount, amountPaid |-> 0]]
    BY <1>2 DEF CreateInvoice, GenerateCharge
  <2> QED BY <1>0, <2>1, <2>2 DEF TypeOK
<1>3. ASSUME NEW h \in Handlers, Materialize(h) PROVE Quiet
  BY <1>3 DEF Materialize, Fresh
<1>4. ASSUME NEW r \in ManualRefs, NEW i \in Invoices, NEW amount \in ManualAmounts,
             LogManualPayment(r, i, amount)
      PROVE  Logs
  <2>1. r \in Refs /\ amount \in Nat /\ {i} \in SUBSET Invoices
    BY PaymentsAssumption DEF Refs
  <2> QED BY <1>4, <2>1 DEF LogManualPayment
<1>5. ASSUME NEW h \in Handlers, Credit(h) PROVE Logs
  <2> DEFINE x == handlers[h].ref
  <2>1. x \in Intents /\ x \in Refs
    BY <1>0, <1>5 DEF Credit, At, HandlersOK, HandlerOK, Refs
  <2>2. intents[x].amount \in Nat /\ intents[x].target \in SUBSET Invoices
    BY <1>0, <2>1 DEF TypeOK, Intent
  <2> QED BY <1>5, <2>1, <2>2 DEF Credit
<1>6. ASSUME NEW h \in Handlers, Proceed(h) PROVE Quiet \/ Logs \/ Reverses
  BY <1>1, <1>3, <1>5, <1>6 DEF Proceed, MarkSuccess, MarkFailed, VerifyAnswer
<1>7. ASSUME NEW h \in Handlers,
             \/ Receive(h) \/ Interrupt(h)
             \/ \E x \in Intents : Verify(h, x)
             \/ \E r \in Refs : RequestReversal(h, r)
      PROVE  UNCHANGED <<payments, invoices>>
  BY <1>7 DEF Receive, ReceiveCharge, ReceiveRefund, RequestReversal, ReadPayment,
     Interrupt, Verify
<1>8. CASE CheckoutStep \/ PaystackStep \/ UNCHANGED vars
  BY <1>1, <1>8 DEF CheckoutStep, PaystackStep, CreateIntent, CreateMultiInvoiceIntent,
     Prepay, OpenIntent, ChargeFails, ChargeSucceeds, ChargeMismatches, Refund, Emit, vars
<1> QED BY <1>1, <1>2, <1>4, <1>6, <1>7, <1>8 DEF Next, BillStep, StaffStep

\* What MoneyConserved says of one payment.
Balanced(p) ==
    IF p.status = "completed"
      THEN p.amount = SumFunction(p.allocations) + p.amountUnallocated
      ELSE SumFunction(p.allocations) = 0 /\ p.amountUnallocated = 0

\* Every step keeps the balance of every payment.
LEMMA NextMoney ==
    ASSUME IInv, AbsentIsEmpty, MoneyConserved, [Next]_vars
    PROVE  AbsentIsEmpty' /\ MoneyConserved'
<1>0. TypeOK /\ HandlersOK
  BY DEF IInv, CoreInv
<1>1. \A r \in Refs : Balanced(payments[r])
  BY DEF MoneyConserved, Balanced
<1>2. SUFFICES ASSUME NEW r \in Refs
               PROVE  /\ Balanced(payments'[r])
                      /\ payments'[r].status = "none" => payments'[r] = NoPaymentRow
  BY <1>2 DEF MoneyConserved, AbsentIsEmpty, Balanced
<1>3. CASE payments'[r] = payments[r]
  BY <1>1, <1>3 DEF AbsentIsEmpty
<1>4. ASSUME NEW q \in Refs, NEW amount \in Nat, NEW T \in SUBSET Invoices,
             LogPayment(q, amount, T), payments'[r] # payments[r]
      PROVE  Balanced(payments'[r]) /\ payments'[r].status = "completed"
  <2>1. r = q /\ payments[q].status = "none"
    BY <1>0, <1>4, LogPaymentReceipts
  <2> QED BY <1>0, <1>4, <2>1, LogPaymentMoney DEF Balanced
<1>5. ASSUME NEW h \in Handlers, ReversePayment(h), payments'[r] # payments[r]
      PROVE  Balanced(payments'[r]) /\ payments'[r].status = "reversed"
  <2>1. ReceiptStep(r)
    BY NextReceipt
  <2>2. payments'[r] # payments[r]
    BY <1>5
  <2>3. payments'[r].status # "completed"
    <3>1. payments'[r] = [payments[r] EXCEPT !.status = "reversed", !.amountUnallocated = 0,
                                             !.allocations = NothingAllocated]
      BY <1>0, <1>5, <2>2 DEF ReversePayment, TypeOK
    <3>2. payments[r] \in Payment
      BY <1>0 DEF TypeOK
    <3> QED BY <3>1, <3>2 DEF Payment
  <2>4. /\ payments'[r].status = "reversed" /\ payments'[r].amountUnallocated = 0
        /\ payments'[r].allocations = NothingAllocated
    BY <2>1, <2>2, <2>3 DEF ReceiptStep
  <2> QED BY <2>4, NothingSums DEF Balanced
<1> QED BY <1>3, <1>4, <1>5, LedgerSteps DEF IInv

\* An invoice row is never removed.
LEMMA RowsStay ==
    ASSUME IInv, [Next]_vars, NEW i \in Invoices, Exists(i)
    PROVE  Exists(i)'
<1> USE DEF ledgerVars, gatewayVars, faultVars
<1>0. TypeOK
  BY DEF IInv, CoreInv
<1>1. CASE payments' = payments /\ invoices'[i] = invoices[i]
  BY <1>1 DEF Exists
<1>2. ASSUME NEW r \in Refs, NEW amount \in Nat, NEW T \in SUBSET Invoices,
             LogPayment(r, amount, T)
      PROVE  Exists(i)'
  <2> DEFINE paid == invoices[i].amountPaid + Applied(amount, T)[i]
             status == SettledStatus(invoices[i].amount, paid)
  <2>1. \/ invoices'[i] = invoices[i]
        \/ invoices'[i] = [invoices[i] EXCEPT !.amountPaid = paid, !.status = status]
    BY <1>2 DEF LogPayment
  <2>2. invoices[i] \in Invoice /\ status \in {"paid", "partial"}
    BY <1>0 DEF TypeOK, SettledStatus
  <2> HIDE DEF paid, status
  <2> QED BY <2>1, <2>2 DEF Exists, Invoice
<1>3. ASSUME NEW h \in Handlers, ReversePayment(h)
      PROVE  Exists(i)'
  <2> DEFINE left == GivenBack(invoices[i].amountPaid, handlers[h].allocations[i])
             status == RestoredStatus(invoices[i].amount, left)
  <2>1. \/ invoices'[i] = invoices[i]
        \/ invoices'[i] = [invoices[i] EXCEPT !.amountPaid = left, !.status = status]
    BY <1>3 DEF ReversePayment
  <2>2. invoices[i] \in Invoice /\ status \in {"paid", "partial", "sent"}
    BY <1>0 DEF TypeOK, RestoredStatus
  <2> HIDE DEF left, status
  <2> QED BY <2>1, <2>2 DEF Exists, Invoice
<1> QED BY <1>1, <1>2, <1>3, LedgerSteps DEF IInv

\* A span is recorded when its periods are billed, and then never again.
LEMMA NextSpans ==
    ASSUME IInv, SpansAreBilled, CoveredOnce, [Next]_vars
    PROVE  SpansAreBilled' /\ CoveredOnce'
<1> USE DEF ledgerVars, gatewayVars, faultVars
<1>0. TypeOK /\ HandlersOK
  BY DEF IInv, CoreInv
<1>1. \A i \in Invoices : Exists(i) => Exists(i)'
  BY RowsStay
<1>2. \A x \in Intents : intents[x].target \in SUBSET Invoices
  BY <1>0 DEF TypeOK, Intent
<1>3. CASE /\ coverage' = coverage
           /\ \A x \in Intents : intents[x].status # "none" =>
                 intents'[x].status # "none" /\ intents'[x].target = intents[x].target
  BY <1>1, <1>2, <1>3 DEF SpansAreBilled, CoveredOnce
<1>4. ASSUME NEW h \in Handlers, Materialize(h)
      PROVE  SpansAreBilled' /\ CoveredOnce'
  <2> DEFINE x == handlers[h].ref
             fresh == Fresh(intents[x].target)
  <2>1. x \in Intents /\ intents[x].status # "none"
    BY <1>0, <1>4 DEF Materialize, At, HandlersOK, HandlerOK
  <2>2. /\ intents' = intents
        /\ coverage' = [coverage EXCEPT ![x] = IF fresh = {} THEN @ ELSE @ + 1]
    BY <1>4 DEF Materialize
  <2>3. \A i \in intents[x].target : Exists(i)'
    <3> SUFFICES ASSUME NEW i \in intents[x].target, i \in fresh PROVE Exists(i)'
      BY <1>1, <1>2, <2>1 DEF Fresh
    <3>1. invoices'[i] = [status |-> "sent", amount |-> Price[i], amountPaid |-> 0]
      BY <1>2, <1>4, <2>1 DEF Materialize
    <3> QED BY <3>1 DEF Exists
  <2>4. coverage[x] > 0 => fresh = {}
    BY <2>1 DEF SpansAreBilled, Fresh
  <2> HIDE DEF fresh, x
  <2>5. coverage'[x] <= 1
    <3>1. coverage[x] \in Nat /\ coverage'[x] = IF fresh = {} THEN coverage[x] ELSE coverage[x] + 1
      BY <1>0, <2>1, <2>2 DEF TypeOK
    <3> QED BY <2>1, <2>4, <3>1 DEF CoveredOnce
  <2>6. \A y \in Intents : y # x => coverage'[y] = coverage[y]
    BY <1>0, <2>1, <2>2 DEF TypeOK
  <2>7. CoveredOnce'
    BY <2>5, <2>6 DEF CoveredOnce
  <2>8. SpansAreBilled'
    BY <1>1, <1>2, <2>1, <2>2, <2>3, <2>6 DEF SpansAreBilled
  <2> QED BY <2>7, <2>8
<1>5. ASSUME NEW x \in Intents, NEW kind, NEW target, NEW amount,
             OpenIntent(x, kind, target, amount)
      PROVE  SpansAreBilled' /\ CoveredOnce'
  BY <1>0, <1>3, <1>5 DEF OpenIntent, TypeOK
<1>6. ASSUME NEW h \in Handlers, MarkSuccess(h) \/ MarkFailed(h)
      PROVE  SpansAreBilled' /\ CoveredOnce'
  <2> DEFINE x == handlers[h].ref
  <2>1. coverage' = coverage /\ x \in Intents
    BY <1>0, <1>6 DEF MarkSuccess, MarkFailed, At, HandlersOK, HandlerOK
  <2>2. PICK status \in {"success", "failed"} : intents' = [intents EXCEPT ![x].status = status]
    BY <1>6 DEF MarkSuccess, MarkFailed
  <2>3. \A y \in Intents : intents[y].status # "none" =>
            intents'[y].status # "none" /\ intents'[y].target = intents[y].target
    BY <1>0, <2>1, <2>2 DEF TypeOK, Intent
  <2> QED BY <1>3, <2>1, <2>3
<1>7. ASSUME NEW h \in Handlers, Proceed(h) PROVE SpansAreBilled' /\ CoveredOnce'
  BY <1>3, <1>4, <1>6, <1>7 DEF Proceed, Credit, VerifyAnswer, ReversePayment
<1>8. ASSUME NEW h \in Handlers,
             \/ Receive(h) \/ Interrupt(h)
             \/ \E x \in Intents : Verify(h, x)
             \/ \E r \in Refs : RequestReversal(h, r)
      PROVE  SpansAreBilled' /\ CoveredOnce'
  BY <1>3, <1>8 DEF Receive, ReceiveCharge, ReceiveRefund, RequestReversal, ReadPayment,
     Interrupt, Verify
<1>9. CASE BillStep \/ PaystackStep \/ StaffStep \/ UNCHANGED vars
  BY <1>3, <1>9 DEF BillStep, PaystackStep, StaffStep, CreateInvoice, GenerateCharge,
     LogManualPayment, ChargeFails, ChargeSucceeds, ChargeMismatches, Refund, Emit, vars
<1>10. CASE CheckoutStep
  BY <1>5, <1>10 DEF CheckoutStep, CreateIntent, CreateMultiInvoiceIntent, Prepay
<1> QED BY <1>7, <1>8, <1>9, <1>10 DEF Next

\* LedgerInv is inductive, given IInv.
LEMMA NextLedger == IInv /\ LedgerInv /\ [Next]_vars => LedgerInv'
BY NextMoney, NextSpans DEF LedgerInv

\* So it holds at any time.
LEMMA LedgerInvariance == Spec => []LedgerInv
<1>1. Init => LedgerInv
  <2> SUFFICES ASSUME Init PROVE LedgerInv
    OBVIOUS
  <2>1. \A r \in Refs : payments[r] = NoPaymentRow
    BY DEF Init
  <2>2. AbsentIsEmpty /\ MoneyConserved
    BY <2>1, NothingSums DEF AbsentIsEmpty, MoneyConserved, NoPaymentRow
  <2>3. SpansAreBilled /\ CoveredOnce
    BY DEF Init, SpansAreBilled, CoveredOnce
  <2> QED BY <2>2, <2>3 DEF LedgerInv
<1>2. IInv /\ LedgerInv /\ [Next]_vars => LedgerInv'
  BY NextLedger
<1> QED BY <1>1, <1>2, Invariance, PTL DEF Spec

\* However payments and reversals interleave, no money is lost: what a payment
\* brought is on invoices or parked on it, and a reversed one has left nothing.
THEOREM NoMoneyIsLost == Spec => []MoneyConserved
<1>1. LedgerInv => MoneyConserved
  BY DEF LedgerInv
<1> QED BY <1>1, LedgerInvariance, PTL

\* No prepaid span is recorded twice, however many handlers materialize it.
THEOREM SpansRecordedOnce == Spec => []CoveredOnce
<1>1. LedgerInv => CoveredOnce
  BY DEF LedgerInv
<1> QED BY <1>1, LedgerInvariance, PTL

-----------------------------------------------------------------------------
\* Whose step sends a handler to its reversal: its own, and it has just read a
\* completed payment.
LEMMA ReversalSteps ==
    ASSUME CoreInv, [Next]_vars, NEW h \in Handlers, At(h, "reverse")'
    PROVE  \/ handlers'[h] = handlers[h]
           \/ /\ payments' = payments /\ h \in RefundHandlers
              /\ payments[handlers'[h].ref].status = "completed"
              /\ handlers'[h].allocations = payments[handlers'[h].ref].allocations
<1> DEFINE Kept == handlers'[h] = handlers[h]
           Read == /\ payments' = payments /\ h \in RefundHandlers
                   /\ payments[handlers'[h].ref].status = "completed"
                   /\ handlers'[h].allocations = payments[handlers'[h].ref].allocations
<1> USE DEF ledgerVars, gatewayVars, faultVars
<1>0. TypeOK /\ handlers'[h].step = "reverse"
  BY DEF IInv, CoreInv, At
<1>1. CASE handlers' = handlers
  BY <1>1
<1>2. ASSUME NEW g \in Handlers, NEW r \in Refs, NEW event, ReadPayment(g, r, event)
      PROVE  Kept \/ Read
  BY <1>0, <1>2 DEF ReadPayment, Start, TypeOK
<1>3. ASSUME NEW g \in Handlers, NEW step, step # "reverse", NEW r, NEW event, NEW allocations,
             Start(g, step, r, event, allocations)
      PROVE  Kept
  BY <1>0, <1>3 DEF Start, TypeOK
<1>4. ASSUME NEW g \in Handlers, Receive(g) PROVE Kept \/ Read
  <2>1. ASSUME NEW x \in Intents, NEW outcome \in ChargeOutcomes, ReceiveCharge(g, x, outcome)
        PROVE  Kept
    <3>1. MarkStep(outcome) # "reverse"
      BY DEF MarkStep
    <3> QED BY <1>1, <1>3, <2>1, <3>1 DEF ReceiveCharge
  <2>2. ASSUME NEW x \in Intents, ReceiveRefund(g, x) PROVE Kept \/ Read
    <3>1. x \in Refs
      BY DEF Refs
    <3> QED BY <1>1, <1>2, <2>2, <3>1 DEF ReceiveRefund
  <2> QED BY <1>4, <2>1, <2>2 DEF Receive
<1>5. ASSUME NEW g \in Handlers, NEW step, step # "reverse", Advance(g, step) PROVE Kept
  BY <1>0, <1>5 DEF Advance, TypeOK, Handler
<1>6. ASSUME NEW g \in Handlers, handlers' = [handlers EXCEPT ![g] = Idle] PROVE Kept
  BY <1>0, <1>6 DEF TypeOK, Idle
<1>7. ASSUME NEW g \in Handlers, Proceed(g) PROVE Kept
  <2>1. CASE MarkSuccess(g)
    <3>1. \A kind : AfterMarking(kind) # "reverse"
      BY DEF AfterMarking
    <3> QED BY <1>5, <2>1, <3>1 DEF MarkSuccess
  <2>2. CASE MarkFailed(g) \/ Credit(g) \/ ReversePayment(g)
    BY <1>6, <2>2 DEF MarkFailed, Credit, ReversePayment, Return
  <2>3. CASE Materialize(g)
    BY <1>5, <2>3 DEF Materialize
  <2>4. CASE VerifyAnswer(g)
    <3>1. \A outcome : MarkStep(outcome) # "reverse"
      BY DEF MarkStep
    <3> QED BY <1>5, <1>6, <2>4, <3>1 DEF VerifyAnswer, Return
  <2> QED BY <1>7, <2>1, <2>2, <2>3, <2>4 DEF Proceed
<1>8. ASSUME NEW g \in Handlers,
             \/ Interrupt(g)
             \/ \E x \in Intents : Verify(g, x)
             \/ \E r \in Refs : RequestReversal(g, r)
      PROVE  Kept \/ Read
  BY <1>2, <1>3, <1>6, <1>8 DEF Interrupt, Verify, RequestReversal
<1>9. CASE BillStep \/ CheckoutStep \/ PaystackStep \/ StaffStep \/ UNCHANGED vars
  BY <1>1, <1>9 DEF BillStep, CheckoutStep, PaystackStep, StaffStep, CreateInvoice,
     GenerateCharge, CreateIntent, CreateMultiInvoiceIntent, Prepay, OpenIntent,
     LogManualPayment, ChargeFails, ChargeSucceeds, ChargeMismatches, Refund, Emit, vars
<1> QED BY <1>4, <1>7, <1>8, <1>9 DEF Next

\* What a reversal has read of a payment holds until the payment is reversed.
LEMMA NextReadings ==
    ASSUME IInv, ReadingsHold, [Next]_vars
    PROVE  ReadingsHold'
<1>0. TypeOK /\ HandlersOK
  BY DEF IInv, CoreInv
<1> SUFFICES ASSUME NEW h \in Handlers, At(h, "reverse")'
             PROVE  LET p == payments'[handlers'[h].ref] IN
                    \/ p.status = "completed" /\ p.allocations = handlers'[h].allocations
                    \/ p.status = "reversed"
  BY DEF ReadingsHold
<1> DEFINE r == handlers[h].ref
<1>1. CASE handlers'[h] # handlers[h]
  BY <1>1, ReversalSteps DEF IInv, CoreInv
<1>2. CASE handlers'[h] = handlers[h]
  <2>1. At(h, "reverse") /\ r \in Refs
    BY <1>0, <1>2 DEF At, HandlersOK, HandlerOK
  <2>2. \/ payments[r].status = "completed" /\ payments[r].allocations = handlers[h].allocations
        \/ payments[r].status = "reversed"
    BY <2>1 DEF ReadingsHold
  <2>3. ReceiptStep(r)
    BY <2>1, NextReceipt
  <2> QED BY <1>2, <2>2, <2>3 DEF ReceiptStep
<1> QED BY <1>1, <1>2

\* What each payment has on an invoice.
Shares(i) == [r \in Refs |-> payments[r].allocations[i]]

\* The ledger of an invoice is the sum of its shares.
LEMMA LedgerIsSum ==
    ASSUME TypeOK, NEW i \in Invoices
    PROVE  /\ IsFiniteSet(Refs)
           /\ \A r \in Refs : Shares(i)[r] \in Nat
           /\ Ledger(i) = SumFunctionOnSet(Shares(i), Refs)
           /\ Ledger(i) \in Nat
<1>1. IsFiniteSet(Refs)
  BY PaymentsAssumption, FS_Union DEF Refs
<1>2. \A r \in Refs : Shares(i)[r] \in Nat
  BY DEF Shares, TypeOK, Payment, Allocation
<1>3. Ledger(i) = SumFunctionOnSet(Shares(i), Refs)
  BY DEF Ledger, SumFunction, Shares
<1> QED BY <1>1, <1>2, <1>3, SumNat

\* When one payment changes, the ledger of an invoice changes by its share.
LEMMA LedgerMoves ==
    ASSUME TypeOK, TypeOK', NEW i \in Invoices, NEW r \in Refs,
           \A q \in Refs : q # r => payments'[q] = payments[q]
    PROVE  Ledger(i)' = (Ledger(i) - payments[r].allocations[i]) + payments'[r].allocations[i]
<1> DEFINE new == [q \in Refs |-> payments'[q].allocations[i]]
<1>1. IsFiniteSet(Refs) /\ \A q \in Refs : Shares(i)[q] \in Int
  BY LedgerIsSum
<1>2. \A q \in Refs : new[q] \in Int
  BY DEF TypeOK, Payment, Allocation
<1>3. \A q \in Refs \ {r} : Shares(i)[q] = new[q]
  BY DEF Shares
<1>4. Ledger(i)' = SumFunctionOnSet(new, Refs)
  BY DEF Ledger, SumFunction
<1>5. Ledger(i) = SumFunctionOnSet(Shares(i), Refs)
  BY LedgerIsSum
<1>6. Shares(i)[r] = payments[r].allocations[i] /\ new[r] = payments'[r].allocations[i]
  BY DEF Shares
<1> HIDE DEF new
<1>7. SumFunctionOnSet(new, Refs) = (SumFunctionOnSet(Shares(i), Refs) - Shares(i)[r]) + new[r]
  BY <1>1, <1>2, <1>3, SumUpdate
<1> QED BY <1>4, <1>5, <1>6, <1>7

\* Every step keeps the cache within the ledger.
LEMMA NextOverstates ==
    ASSUME IInv, AbsentIsEmpty, ReadingsHold, NeverOverstated, [Next]_vars
    PROVE  NeverOverstated'
<1>0. TypeOK /\ TypeOK' /\ HandlersOK
  BY NextType DEF IInv, CoreInv
<1> SUFFICES ASSUME NEW i \in Invoices
             PROVE  invoices'[i].amountPaid <= Ledger(i)'
  BY DEF NeverOverstated
<1>1. /\ invoices[i].amountPaid \in Nat /\ Ledger(i) \in Nat /\ Ledger(i)' \in Nat
      /\ invoices[i].amountPaid <= Ledger(i)
  <2>1. Ledger(i)' \in Nat
    <3> DEFINE new == [q \in Refs |-> payments'[q].allocations[i]]
    <3>1. IsFiniteSet(Refs) /\ \A q \in Refs : new[q] \in Nat
      BY <1>0, LedgerIsSum DEF TypeOK, Payment, Allocation
    <3>2. Ledger(i)' = SumFunctionOnSet(new, Refs)
      BY DEF Ledger, SumFunction
    <3> HIDE DEF new
    <3> QED BY <3>1, <3>2, SumNat
  <2> QED BY <1>0, <2>1, LedgerIsSum DEF NeverOverstated, TypeOK, Invoice
<1>2. CASE /\ payments' = payments
           /\ \/ invoices'[i] = invoices[i]
              \/ ~ Exists(i) /\ invoices'[i].amountPaid = 0
  <2>1. Ledger(i)' = Ledger(i)
    BY <1>2 DEF Ledger
  <2> QED BY <1>1, <1>2, <2>1
<1>3. ASSUME NEW r \in Refs, NEW amount \in Nat, NEW T \in SUBSET Invoices,
             LogPayment(r, amount, T)
      PROVE  invoices'[i].amountPaid <= Ledger(i)'
  <2>1. CASE payments[r].status # "none"
    BY <1>2, <1>3, <2>1 DEF LogPayment, ReceiptExists
  <2>2. CASE payments[r].status = "none"
    <3>1. /\ payments'[r].allocations = Applied(amount, T)
          /\ invoices'[i].amountPaid = invoices[i].amountPaid + Applied(amount, T)[i]
      BY <1>0, <1>3, <2>2, LogPaymentMoney
    <3>2. \A q \in Refs : q # r => payments'[q] = payments[q]
      BY <1>0, <1>3, LogPaymentReceipts
    <3>3. payments[r].allocations[i] = 0
      BY <2>2 DEF AbsentIsEmpty, NoPaymentRow, NothingAllocated
    <3>4. Ledger(i)' = (Ledger(i) - payments[r].allocations[i]) + payments'[r].allocations[i]
      BY <1>0, <3>2, LedgerMoves
    <3>5. Applied(amount, T)[i] \in Nat
      BY <1>0, AppliedType DEF Allocation
    <3> QED BY <1>1, <3>1, <3>3, <3>4, <3>5
  <2> QED BY <2>1, <2>2
<1>4. ASSUME NEW h \in Handlers, ReversePayment(h)
      PROVE  invoices'[i].amountPaid <= Ledger(i)'
  <2> DEFINE r == handlers[h].ref
             given == handlers[h].allocations[i]
             share == payments[r].allocations[i]
             paid == invoices[i].amountPaid
             left == GivenBack(paid, given)
  <2>1. /\ r \in Refs
        /\ \/ payments[r].status = "completed" /\ share = given
           \/ payments[r].status = "reversed"
    BY <1>0, <1>4 DEF ReversePayment, At, ReadingsHold, HandlersOK, HandlerOK
  <2>2. given \in Nat /\ share \in Nat /\ share <= Ledger(i)
    <3>1. Shares(i)[r] <= SumFunctionOnSet(Shares(i), Refs)
      BY <1>0, <2>1, LedgerIsSum, SumTerm
    <3>2. Shares(i)[r] = share
      BY <2>1 DEF Shares
    <3>3. Shares(i)[r] \in Nat /\ Ledger(i) = SumFunctionOnSet(Shares(i), Refs)
      BY <1>0, <2>1, LedgerIsSum
    <3>4. given \in Nat
      BY <1>0 DEF TypeOK, Handler, Allocation
    <3> QED BY <3>1, <3>2, <3>3, <3>4
  <2>3. payments'[r].allocations[i] = 0 /\ \A q \in Refs : q # r => payments'[q] = payments[q]
    <3>1. payments[r] \in Payment
      BY <1>0, <2>1 DEF TypeOK
    <3>2. payments' = [payments EXCEPT ![r] =
             [@ EXCEPT !.status = "reversed", !.amountUnallocated = 0,
                       !.allocations = NothingAllocated]]
      BY <1>4 DEF ReversePayment
    <3>3. payments'[r].allocations = NothingAllocated
      BY <1>0, <2>1, <3>1, <3>2 DEF TypeOK, Payment
    <3> QED BY <1>0, <3>2, <3>3 DEF TypeOK, NothingAllocated
  <2>4. Ledger(i)' = (Ledger(i) - share) + 0
    BY <1>0, <2>1, <2>3, LedgerMoves
  <2>5. payments[r].status = "reversed" => share = 0
    BY <2>1 DEF IInv, CoreInv, ReversedIsEmpty, NothingAllocated
  <2>6. left \in 0 .. paid /\ (given > 0 => left = LeftOf(paid, given))
    BY <1>1, <2>2 DEF GivenBack, LeftOf
  <2>7. \/ invoices'[i].amountPaid = left
        \/ invoices'[i].amountPaid = paid /\ (given = 0 \/ paid = 0)
    <3>1. invoices'[i] =
            IF given > 0 /\ Exists(i)
              THEN [invoices[i] EXCEPT !.amountPaid = left,
                                       !.status = RestoredStatus(invoices[i].amount, left)]
              ELSE invoices[i]
      BY <1>4 DEF ReversePayment
    <3>2. ~ Exists(i) => paid = 0
      BY DEF IInv, CoreInv, RowsOK, NoInvoiceRow
    <3>3. invoices[i] \in Invoice
      BY <1>0 DEF TypeOK
    <3>4. CASE given > 0 /\ Exists(i)
      <4> HIDE DEF left, given
      <4> QED BY <3>1, <3>3, <3>4 DEF Invoice
    <3>5. CASE ~ (given > 0 /\ Exists(i))
      BY <2>2, <3>1, <3>2, <3>5
    <3> QED BY <3>4, <3>5
  <2>8. CASE payments[r].status = "reversed"
    BY <1>1, <2>2, <2>4, <2>5, <2>6, <2>7, <2>8
  <2>9. CASE share = given
    <3>1. left <= Ledger(i) - share
      BY <1>1, <2>2, <2>9 DEF GivenBack, LeftOf
    <3> HIDE DEF left, paid, share, given
    <3> QED BY <1>1, <2>2, <2>4, <2>7, <2>9, <3>1 DEF paid
  <2> QED BY <2>1, <2>8, <2>9
<1> QED BY <1>2, <1>3, <1>4, LedgerSteps DEF IInv, CoreInv

\* However many requests reverse payments together, amountPaid of an invoice is
\* at most the sum of its allocations at any time, whatever is interrupted.
THEOREM CacheIsBacked == Spec => []NeverOverstated
<1>1. Init => CacheInv
  <2> SUFFICES ASSUME Init PROVE CacheInv
    OBVIOUS
  <2>1. ReadingsHold
    BY DEF Init, ReadingsHold, At, Idle
  <2>2. TypeOK
    BY InitType
  <2>3. ASSUME NEW i \in Invoices PROVE invoices[i].amountPaid <= Ledger(i)
    <3>1. Ledger(i) \in Nat
      BY <2>2, LedgerIsSum
    <3> QED BY <3>1 DEF Init, NoInvoiceRow
  <2> QED BY <2>1, <2>3 DEF CacheInv, NeverOverstated
<1>2. IInv /\ LedgerInv /\ CacheInv /\ [Next]_vars => CacheInv'
  BY NextReadings, NextOverstates DEF CacheInv, LedgerInv
<1>3. CacheInv => NeverOverstated
  BY DEF CacheInv
<1> QED BY <1>1, <1>2, <1>3, Invariance, LedgerInvariance, PTL DEF Spec

-----------------------------------------------------------------------------
(* The ledger backfill, on any number of servers, beside any traffic. *)

\* The legacy payments of an invoice.
LegacyOf(i) == {r \in Legacy : payments[r].invoiceId = i}

\* What legacy payments brought is a number, and positive where there are any.
LEMMA LegacyPaidType ==
    ASSUME NEW i
    PROVE  /\ LegacyPaid(i) \in Nat
           /\ \A r \in LegacyOf(i) : LegacyPaid(i) > 0
           /\ IsFiniteSet(LegacyOf(i))
<1>1. IsFiniteSet(Legacy) /\ Legacy \subseteq Refs
  BY PaymentsAssumption, BackfillAssumption, FS_Subset DEF Refs
<1>2. IsFiniteSet(LegacyOf(i))
  BY <1>1, FS_Subset DEF LegacyOf
<1>3. LegacyPaid(i) = SumFunctionOnSet(LegacyAmount, LegacyOf(i))
  BY DEF LegacyPaid, LegacyOf
<1>4. \A r \in LegacyOf(i) : LegacyAmount[r] \in Nat /\ LegacyAmount[r] > 0
  BY BackfillAssumption DEF LegacyOf
<1>5. LegacyPaid(i) \in Nat
  BY <1>2, <1>3, <1>4, SumNat
<1>6. ASSUME NEW r \in LegacyOf(i) PROVE LegacyPaid(i) > 0
  <2>1. LegacyAmount[r] <= LegacyPaid(i)
    BY <1>2, <1>3, <1>4, SumTerm
  <2> QED BY <1>4, <1>5, <2>1
<1> QED BY <1>2, <1>5, <1>6

\* What a request does to a receipt, whatever the backfill has written on it:
\* it writes a missing one within its amount, or empties one.
RequestStep(r) ==
    \/ payments'[r] = payments[r]
    \/ /\ payments[r].status = "none" /\ payments'[r].status = "completed"
       /\ SumFunction(payments'[r].allocations) <= payments'[r].amount
    \/ /\ payments[r].status # "none" /\ payments'[r].status = "reversed"
       /\ payments'[r].amount = payments[r].amount
       /\ payments'[r].invoiceId = payments[r].invoiceId
       /\ payments'[r].allocations = NothingAllocated

LEMMA NextRequest ==
    ASSUME CoreInv, [Next]_vars
    PROVE  \A r \in Refs : RequestStep(r)
<1>0. TypeOK /\ HandlersOK
  BY DEF CoreInv
<1>1. CASE payments' = payments
  BY <1>1 DEF RequestStep
<1>2. ASSUME NEW q \in Refs, NEW amount \in Nat, NEW T \in SUBSET Invoices, LogPayment(q, amount, T)
      PROVE  \A r \in Refs : RequestStep(r)
  <2>1. /\ \A r \in Refs : r # q => payments'[r] = payments[r]
        /\ payments[q].status # "none" => payments'[q] = payments[q]
    BY <1>0, <1>2, LogPaymentReceipts
  <2>2. payments[q].status = "none" =>
          /\ payments'[q].status = "completed"
          /\ SumFunction(payments'[q].allocations) <= payments'[q].amount
    <3> SUFFICES ASSUME payments[q].status = "none"
                 PROVE  /\ payments'[q].status = "completed"
                        /\ SumFunction(payments'[q].allocations) <= payments'[q].amount
      OBVIOUS
    <3>1. /\ payments'[q].status = "completed" /\ payments'[q].amount = amount
          /\ payments'[q].allocations = Applied(amount, T)
      BY <1>0, <1>2, LogPaymentMoney
    <3>2. SumFunction(Applied(amount, T)) <= amount
      BY <1>0, AppliedSum, AppliedType, AllocationSum
    <3> QED BY <3>1, <3>2
  <2> QED BY <2>1, <2>2 DEF RequestStep
<1>3. ASSUME NEW h \in Handlers, ReversePayment(h) PROVE \A r \in Refs : RequestStep(r)
  <2> DEFINE q == handlers[h].ref
             undone == [payments[q] EXCEPT !.status = "reversed", !.amountUnallocated = 0,
                                           !.allocations = NothingAllocated]
  <2>1. q \in Refs /\ payments[q] \in Payment /\ payments[q].status # "none"
    BY <1>0, <1>3 DEF ReversePayment, At, HandlersOK, HandlerOK, TypeOK
  <2>2. /\ undone.status = "reversed" /\ undone.amount = payments[q].amount
        /\ undone.invoiceId = payments[q].invoiceId
        /\ undone.allocations = NothingAllocated
    BY <2>1 DEF Payment
  <2>3. payments' = [payments EXCEPT ![q] = undone]
    BY <1>3 DEF ReversePayment
  <2> HIDE DEF undone, q
  <2>4. payments'[q] = undone /\ \A r \in Refs : r # q => payments'[r] = payments[r]
    BY <1>0, <2>1, <2>3 DEF TypeOK
  <2> QED BY <2>1, <2>2, <2>4 DEF RequestStep
<1> QED BY <1>1, <1>2, <1>3, LedgerSteps

\* The sum of an allocation that is all on one invoice.
LEMMA OneShareSums ==
    ASSUME NEW a \in Allocation, NEW i \in Invoices, \A j \in Invoices \ {i} : a[j] = 0
    PROVE  SumFunction(a) = a[i]
<1>1. SumFunction(a) = SumFunctionOnSet(a, Invoices) /\ IsFiniteSet(Invoices)
  BY AllocationSum, PaymentsAssumption
<1>2. /\ \A j \in Invoices : a[j] \in Int /\ NothingAllocated[j] \in Int
      /\ \A j \in Invoices \ {i} : NothingAllocated[j] = a[j]
      /\ a[i] \in Int /\ NothingAllocated[i] = 0
  BY DEF Allocation, NothingAllocated
<1>3. SumFunctionOnSet(NothingAllocated, Invoices) = 0
  BY <1>1, SumZero DEF NothingAllocated
<1>4. SumFunctionOnSet(a, Invoices) =
          (SumFunctionOnSet(NothingAllocated, Invoices) - NothingAllocated[i]) + a[i]
  BY <1>1, <1>2, SumUpdate
<1> QED BY <1>1, <1>2, <1>3, <1>4

\* What matters of the record of a run.
RunIs(run, step, todo) == run \in Run /\ run.step = step /\ run.todo = todo

\* What the steps write into it.
LEMMA RunEdits ==
    ASSUME NEW run \in Run, NEW step \in {"idle", "allocate", "recompute", "write"},
           NEW todo \in SUBSET Refs, NEW touched \in SUBSET Invoices,
           NEW invoice \in Invoices \cup {NoInvoice}, NEW sum \in Nat
    PROVE  /\ RunIs([run EXCEPT !.step = step, !.todo = todo], step, todo)
           /\ RunIs([run EXCEPT !.todo = todo], run.step, todo)
           /\ RunIs([run EXCEPT !.todo = todo, !.touched = touched], run.step, todo)
           /\ RunIs([run EXCEPT !.step = step, !.invoice = invoice, !.sum = sum,
                                !.touched = touched], step, run.todo)
           /\ RunIs([run EXCEPT !.step = step, !.invoice = invoice, !.sum = sum],
                    step, run.todo)
           /\ RunIs(NoRun, "idle", {})
BY DEF Run, RunIs, NoRun

\* When the first run begins nothing has an allocation.
LEMMA MigrationStarts == MigrationInit => MigrationInv
<1> SUFFICES ASSUME MigrationInit PROVE MigrationInv
  OBVIOUS
<1>1. PICK owner \in [Legacy -> Invoices] :
         payments = [r \in Refs |->
            IF r \in Legacy THEN LegacyReceipt(r, owner[r], NothingAllocated)
            ELSE NoPaymentRow]
  BY DEF MigrationInit
<1>2. \A i \in Invoices : LegacyPaid(i) \in Nat /\ Price[i] \in Nat
  BY LegacyPaidType, PaymentsAssumption
<1>3. invoices \in [Invoices -> Invoice]
  BY <1>2 DEF MigrationInit, LegacyBill, NoInvoiceRow, SettledStatus, Invoice, InvoiceStatuses
<1>4. payments \in [Refs -> Payment]
  <2> SUFFICES ASSUME NEW r \in Refs PROVE payments[r] \in Payment
    BY <1>1
  <2>1. r \in Legacy => LegacyAmount[r] \in Nat
    BY BackfillAssumption
  <2> QED BY <1>1, <2>1, IdleType DEF LegacyReceipt, NoPaymentRow, Payment, PaymentStatuses
<1>5. /\ intents \in [Intents -> Intent] /\ coverage \in [Intents -> Nat]
      /\ gateway \in [Intents -> GatewayStatuses] /\ handlers \in [Handlers -> Handler]
  BY IdleType DEF MigrationInit, Intent, NoIntentRow, IntentStatuses, IntentKinds, GatewayStatuses
<1>6. TypeOK
  BY <1>3, <1>4, <1>5, PaymentsAssumption DEF MigrationInit, TypeOK
<1>7. HandlersOK /\ PaystackOK
  BY DEF MigrationInit, Idle, HandlersOK, HandlerOK, PaystackOK
<1>8. backfill \in [Servers -> Run] /\ SelectedOK /\ LeavesNoneBehind
  BY RunEdits DEF MigrationInit, SelectedOK, LeavesNoneBehind, NoRun, Run
<1>9. LegacyStays
  BY <1>1, BackfillAssumption DEF LegacyStays, LegacyReceipt, Refs
<1>10. NeverAllocatedTwice
  <2> SUFFICES ASSUME NEW r \in Refs
               PROVE  SumFunction(payments[r].allocations) <= payments[r].amount
    BY DEF NeverAllocatedTwice
  <2>1. payments[r].allocations = NothingAllocated
    BY <1>1 DEF LegacyReceipt, NoPaymentRow
  <2>2. payments[r].amount \in Nat
    BY <1>4 DEF Payment
  <2> QED BY <2>1, <2>2, NothingSums
<1> QED BY <1>6, <1>7, <1>8, <1>9, <1>10 DEF MigrationInv, CoreInv

\* Requests keep what the runs rely on.
LEMMA RequestsKeep ==
    ASSUME MigrationInv, [Next]_vars, UNCHANGED backfill
    PROVE  MigrationInv'
<1>0. CoreInv /\ TypeOK
  BY DEF MigrationInv, CoreInv
<1>1. CoreInv'
  BY <1>0, NextType, NextHandlers, NextPaystack DEF CoreInv
<1>2. \A r \in Refs : RequestStep(r)
  BY <1>0, NextRequest
<1>3. Legacy \subseteq Refs /\ \A s \in Servers : backfill[s].todo \subseteq Refs
  BY BackfillAssumption DEF Refs, MigrationInv, Run
<1>4. SelectedOK'
  <2> SUFFICES ASSUME NEW s \in Servers, NEW r \in backfill[s].todo
               PROVE  /\ payments'[r].status # "none" /\ payments'[r].invoiceId \in Invoices
                      /\ \A i \in Invoices \ {payments'[r].invoiceId} :
                            payments'[r].allocations[i] = 0
    BY DEF SelectedOK
  <2>1. r \in Refs /\ RequestStep(r)
    BY <1>2, <1>3
  <2> QED BY <2>1 DEF MigrationInv, SelectedOK, RequestStep, NothingAllocated
<1>5. LegacyStays'
  BY <1>2, <1>3 DEF MigrationInv, LegacyStays, RequestStep
<1>6. NeverAllocatedTwice'
  <2> SUFFICES ASSUME NEW r \in Refs
               PROVE  SumFunction(payments'[r].allocations) <= payments'[r].amount
    BY DEF NeverAllocatedTwice
  <2>1. RequestStep(r)
    BY <1>2
  <2>2. payments[r].amount \in Nat
    BY <1>0 DEF TypeOK, Payment
  <2> QED BY <2>1, <2>2, NothingSums DEF MigrationInv, NeverAllocatedTwice, RequestStep
<1>7. LeavesNoneBehind'
  BY <1>2, <1>3 DEF MigrationInv, LegacyStays, LeavesNoneBehind, RequestStep
<1> QED BY <1>1, <1>4, <1>5, <1>6, <1>7 DEF MigrationInv

\* A step of a run that leaves the payments and the requests alone.
LEMMA RunsKeep ==
    ASSUME MigrationInv, NEW s \in Servers, NEW run \in Run,
           backfill' = [backfill EXCEPT ![s] = run], payments' = payments, CoreInv',
           \A r \in run.todo : r \in backfill[s].todo \/ r \in Unallocated,
           run.step \in {"recompute", "write"} =>
              backfill[s].step \in {"recompute", "write"} \/ Unallocated = {}
    PROVE  MigrationInv'
<1>1. backfill \in [Servers -> Run] /\ backfill' \in [Servers -> Run]
  BY DEF MigrationInv
<1>2. backfill'[s] = run /\ \A t \in Servers : t # s => backfill'[t] = backfill[t]
  BY <1>1
<1>3. \A r \in Unallocated :
         /\ payments[r].status # "none" /\ payments[r].invoiceId \in Invoices
         /\ \A i \in Invoices : payments[r].allocations[i] = 0
  BY DEF Unallocated, MigrationInv, CoreInv, TypeOK, Payment, NothingAllocated
<1>4. SelectedOK'
  BY <1>2, <1>3 DEF MigrationInv, SelectedOK
<1>5. Unallocated = {} =>
         \A r \in Legacy : payments[r].status = "completed" => payments[r].allocations # NothingAllocated
  BY BackfillAssumption, PaymentsAssumption DEF Unallocated, MigrationInv, LegacyStays, Refs
<1>6. LeavesNoneBehind'
  BY <1>2, <1>5 DEF MigrationInv, LeavesNoneBehind
<1> QED BY <1>1, <1>4, <1>6 DEF MigrationInv, LegacyStays, NeverAllocatedTwice

\* The insert of an allocation: the payment has none on its invoice, and nothing
\* elsewhere.
LEMMA AllocateKeeps ==
    ASSUME MigrationInv, NEW s \in Servers, NEW r \in Refs, Allocate(s, r)
    PROVE  MigrationInv'
<1> USE DEF ledgerVars, gatewayVars, faultVars
<1> DEFINE i == payments[r].invoiceId
           todo == backfill[s].todo \ {r}
<1>0. /\ TypeOK /\ backfill \in [Servers -> Run] /\ backfill[s] \in Run /\ r \in backfill[s].todo
      /\ payments[r] \in Payment /\ backfill[s].step = "allocate"
  BY DEF MigrationInv, CoreInv, TypeOK, Allocate, Migrating
<1>1. todo \in SUBSET Refs /\ i \in Invoices /\ payments[r].status # "none"
      /\ \A j \in Invoices \ {i} : payments[r].allocations[j] = 0
  BY <1>0 DEF Run, MigrationInv, SelectedOK
<1>2. CASE /\ backfill' = [backfill EXCEPT ![s].todo = @ \ {r}]
           /\ UNCHANGED payments
  <2> DEFINE run == [backfill[s] EXCEPT !.todo = todo]
  <2>1. RunIs(run, "allocate", todo)
    <3> HIDE DEF todo
    <3> QED BY <1>0, <1>1, RunEdits
  <2>2. CoreInv'
    BY <1>2 DEF Allocate, MigrationInv, CoreInv, TypeOK, HandlersOK, HandlerOK, PaystackOK, Charged
  <2>3. backfill' = [backfill EXCEPT ![s] = run]
    BY <1>2
  <2> HIDE DEF run
  <2> QED BY <1>0, <1>2, <2>1, <2>2, <2>3, RunsKeep DEF RunIs
<1>3. CASE /\ ~ AllocationExists(r, i)
           /\ payments' = [payments EXCEPT ![r].allocations[i] = @ + payments[r].amount]
           /\ backfill' = [backfill EXCEPT ![s].todo = @ \ {r}, ![s].touched = @ \cup {i}]
  <2> DEFINE old == payments[r]
             a == [old.allocations EXCEPT ![i] = @ + old.amount]
             new == [old EXCEPT !.allocations = a]
             run == [backfill[s] EXCEPT !.todo = todo, !.touched = backfill[s].touched \cup {i}]
  <2>1. old.allocations \in Allocation /\ old.amount \in Nat /\ old.allocations[i] = 0
    BY <1>0, <1>1, <1>3 DEF AllocationExists, Payment, Allocation
  <2>2. a \in Allocation /\ a[i] = old.amount /\ \A j \in Invoices \ {i} : a[j] = 0
    BY <1>1, <2>1 DEF Allocation
  <2>3. SumFunction(a) = old.amount
    <3> HIDE DEF a, i
    <3> QED BY <1>1, <2>2, OneShareSums
  <2>4. /\ new \in Payment /\ new.allocations = a /\ new.amount = old.amount
        /\ new.status = old.status /\ new.invoiceId = i
    <3> HIDE DEF a
    <3> QED BY <1>0, <2>2 DEF Payment
  <2>5. payments' = [payments EXCEPT ![r] = new]
    BY <1>3
  <2>6. payments'[r] = new /\ \A q \in Refs : q # r => payments'[q] = payments[q]
    <3> HIDE DEF new
    <3> QED BY <1>0, <2>5 DEF TypeOK
  <2>7. payments' \in [Refs -> Payment]
    <3> HIDE DEF new
    <3> QED BY <1>0, <2>4, <2>5 DEF TypeOK
  <2>8. run \in Run /\ run.todo = todo /\ run.step = "allocate"
    <3> DEFINE touched == backfill[s].touched \cup {i}
    <3>1. touched \in SUBSET Invoices
      BY <1>0, <1>1 DEF Run
    <3>2. RunIs([backfill[s] EXCEPT !.todo = todo, !.touched = touched], "allocate", todo)
      <4> HIDE DEF touched, todo
      <4> QED BY <1>0, <1>1, <3>1, RunEdits
    <3> QED BY <3>2 DEF RunIs
  <2>9. backfill' = [backfill EXCEPT ![s] = run]
    BY <1>3
  <2> HIDE DEF run, new, a
  <2>10. /\ backfill' \in [Servers -> Run] /\ backfill'[s] = run
         /\ \A t \in Servers : t # s => backfill'[t] = backfill[t]
    BY <1>0, <2>8, <2>9
  <2>11. CoreInv'
    <3>1. \A q \in Refs : payments[q].status # "none" => payments'[q].status # "none"
      BY <2>4, <2>6
    <3>2. UNCHANGED <<invoices, intents, coverage, gateway, events, acked, handlers, interrupts,
                      interrupted>>
      BY DEF Allocate
    <3>3. TypeOK'
      BY <1>0, <2>7, <3>2 DEF TypeOK
    <3>4. HandlersOK'
      BY <3>1, <3>2 DEF MigrationInv, CoreInv, HandlersOK, HandlerOK, Charged
    <3>5. PaystackOK'
      BY <3>2 DEF MigrationInv, CoreInv, PaystackOK, Charged
    <3> QED BY <3>3, <3>4, <3>5 DEF CoreInv
  <2>12. SelectedOK'
    <3> SUFFICES ASSUME NEW t \in Servers, NEW q \in backfill'[t].todo
                 PROVE  /\ payments'[q].status # "none" /\ payments'[q].invoiceId \in Invoices
                        /\ \A j \in Invoices \ {payments'[q].invoiceId} :
                              payments'[q].allocations[j] = 0
      BY DEF SelectedOK
    <3>1. q \in backfill[t].todo /\ q \in Refs
      BY <1>0, <2>8, <2>10 DEF Run
    <3>2. CASE q = r
      BY <1>1, <2>2, <2>4, <2>6, <3>2
    <3>3. CASE q # r
      BY <2>6, <3>1, <3>3 DEF MigrationInv, SelectedOK
    <3> QED BY <3>2, <3>3
  <2>13. LegacyStays'
    BY <1>1, <2>4, <2>6, BackfillAssumption DEF MigrationInv, LegacyStays, Refs
  <2>14. NeverAllocatedTwice'
    BY <2>1, <2>3, <2>4, <2>6 DEF MigrationInv, NeverAllocatedTwice
  <2>15. LeavesNoneBehind'
    <3> SUFFICES ASSUME NEW t \in Servers, backfill'[t].step \in {"recompute", "write"},
                        NEW q \in Legacy, payments'[q].status = "completed"
                 PROVE  payments'[q].allocations # NothingAllocated
      BY DEF LeavesNoneBehind
    <3>1. t # s /\ backfill[t].step \in {"recompute", "write"} /\ q \in Refs
      BY <2>8, <2>10, BackfillAssumption DEF Refs
    <3>2. CASE q # r
      BY <2>6, <3>1, <3>2 DEF MigrationInv, LeavesNoneBehind
    <3>3. CASE q = r
      <4>1. payments[r].allocations # NothingAllocated
        BY <2>4, <2>6, <3>1, <3>3 DEF MigrationInv, LeavesNoneBehind
      <4>2. payments[r].allocations = NothingAllocated
        BY <1>1, <2>1 DEF NothingAllocated, Allocation
      <4> QED BY <4>1, <4>2
    <3> QED BY <3>2, <3>3
  <2> QED BY <2>10, <2>11, <2>12, <2>13, <2>14, <2>15 DEF MigrationInv
<1> QED BY <1>2, <1>3 DEF Allocate

\* Every step keeps what the runs rely on.
LEMMA NextMigration ==
    ASSUME MigrationInv, [MigrationNext]_<<vars, migrationVars>>
    PROVE  MigrationInv'
<1> USE DEF ledgerVars, gatewayVars, faultVars
<1>0. CoreInv /\ TypeOK /\ HandlersOK /\ backfill \in [Servers -> Run]
  BY DEF MigrationInv, CoreInv
<1>1. ASSUME UNCHANGED <<invoices, payments, intents, coverage, gateway, events, acked, handlers>>,
             interrupts' \in 0 .. MaxInterrupts, UNCHANGED interrupted
      PROVE  CoreInv'
  BY <1>0, <1>1 DEF CoreInv, TypeOK, HandlersOK, HandlerOK, PaystackOK, Charged
<1>2. ASSUME NEW s \in Servers, Begin(s) \/ NextBatch(s) PROVE MigrationInv'
  <2>1. PICK batch \in Batches :
          backfill' = [backfill EXCEPT ![s].step = StepAfter(batch), ![s].todo = batch]
    BY <1>2 DEF Begin, NextBatch
  <2>2. batch \subseteq Unallocated /\ Unallocated \subseteq Refs /\ (batch = {} => Unallocated = {})
    <3>1. Unallocated \subseteq Refs
      BY DEF Unallocated
    <3>2. CASE Unallocated = {}
      BY <2>1, <3>1, <3>2 DEF Batches
    <3>3. CASE Unallocated # {}
      <4>1. Batches = (SUBSET Unallocated) \ {{}}
        BY <3>3 DEF Batches
      <4>2. batch \in Batches
        OBVIOUS
      <4>3. batch \in (SUBSET Unallocated) \ {{}}
        BY <4>1, <4>2
      <4>4. batch \subseteq Unallocated /\ batch # {}
        <5> HIDE DEF Unallocated
        <5> QED BY <4>3
      <4> QED BY <3>1, <4>4
    <3> QED BY <3>2, <3>3
  <2> DEFINE run == [backfill[s] EXCEPT !.step = StepAfter(batch), !.todo = batch]
  <2>3. run \in Run /\ run.step = StepAfter(batch) /\ run.todo = batch
    <3> DEFINE step == StepAfter(batch)
    <3>1. step \in {"idle", "allocate", "recompute", "write"} /\ batch \in SUBSET Refs
      BY <2>2 DEF StepAfter
    <3> HIDE DEF step
    <3>2. RunIs([backfill[s] EXCEPT !.step = step, !.todo = batch], step, batch)
      BY <1>0, <3>1, RunEdits
    <3> QED BY <3>2 DEF RunIs, step
  <2>4. backfill' = [backfill EXCEPT ![s] = run]
    BY <2>1
  <2>5. CoreInv' /\ payments' = payments
    BY <1>0, <1>1, <1>2 DEF Begin, NextBatch, vars, CoreInv, TypeOK
  <2>6. run.step \in {"recompute", "write"} => Unallocated = {}
    BY <2>2, <2>3 DEF StepAfter
  <2> HIDE DEF run
  <2> QED BY <2>2, <2>3, <2>4, <2>5, <2>6, RunsKeep
<1>3. ASSUME NEW s \in Servers, NEW i \in Invoices, Aggregate(s, i) PROVE MigrationInv'
  <2> DEFINE run == [backfill[s] EXCEPT !.step = "write", !.invoice = i, !.sum = Ledger(i),
                                        !.touched = backfill[s].touched \ {i}]
  <2>1. Ledger(i) \in Nat /\ backfill[s].touched \ {i} \in SUBSET Invoices /\ backfill[s] \in Run
    BY <1>0, LedgerIsSum DEF Run
  <2>2. run \in Run /\ run.step = "write" /\ run.todo = backfill[s].todo
    <3> DEFINE sum == Ledger(i)
               touched == backfill[s].touched \ {i}
    <3>1. sum \in Nat /\ touched \in SUBSET Invoices
      BY <2>1
    <3> HIDE DEF sum, touched
    <3>2. RunIs([backfill[s] EXCEPT !.step = "write", !.invoice = i, !.sum = sum,
                                    !.touched = touched], "write", backfill[s].todo)
      BY <2>1, <3>1, RunEdits
    <3> QED BY <3>2 DEF RunIs, sum, touched
  <2>3. backfill' = [backfill EXCEPT ![s] = run]
    BY <1>3 DEF Aggregate, SumOfAllocations
  <2>4. CoreInv' /\ payments' = payments /\ backfill[s].step = "recompute"
    BY <1>0, <1>1, <1>3 DEF Aggregate, Migrating, vars, CoreInv, TypeOK
  <2> HIDE DEF run
  <2> QED BY <2>2, <2>3, <2>4, RunsKeep
<1>4. ASSUME NEW s \in Servers, WriteAmountPaid(s) PROVE MigrationInv'
  <2> DEFINE run == [backfill[s] EXCEPT !.step = "recompute", !.invoice = NoInvoice, !.sum = 0]
             x == backfill[s].invoice
             sum == backfill[s].sum
  <2>1. run \in Run /\ run.step = "recompute" /\ run.todo = backfill[s].todo /\ sum \in Nat
    <3>1. RunIs(run, "recompute", backfill[s].todo)
      BY <1>0, RunEdits
    <3> QED BY <1>0, <3>1 DEF RunIs, Run
  <2>2. backfill' = [backfill EXCEPT ![s] = run] /\ payments' = payments /\ backfill[s].step = "write"
    BY <1>4 DEF WriteAmountPaid, Migrating
  <2>3. invoices' = [invoices EXCEPT ![x].amountPaid = sum]
    BY <1>4 DEF WriteAmountPaid
  <2>4. invoices' \in [Invoices -> Invoice]
    <3>1. \A j \in Invoices : [invoices[j] EXCEPT !.amountPaid = sum] \in Invoice
      BY <1>0, <2>1 DEF TypeOK, Invoice
    <3> HIDE DEF x, sum
    <3> QED BY <1>0, <2>3, <3>1 DEF TypeOK
  <2>5. CoreInv'
    BY <1>0, <1>4, <2>4 DEF WriteAmountPaid, CoreInv, TypeOK, HandlersOK, HandlerOK, PaystackOK,
                            Charged
  <2> HIDE DEF run
  <2> QED BY <2>1, <2>2, <2>5, RunsKeep
<1>5. ASSUME NEW s \in Servers, Finish(s) \/ Fail(s) PROVE MigrationInv'
  <2>1. NoRun \in Run /\ NoRun.step = "idle" /\ NoRun.todo = {}
    BY <1>0, RunEdits DEF Run, NoRun
  <2>2. CoreInv'
    <3>1. interrupts' \in 0 .. MaxInterrupts
      BY <1>0, <1>5, PaymentsAssumption DEF Finish, Fail, vars, TypeOK
    <3> QED BY <1>1, <1>5, <3>1 DEF Finish, Fail, vars
  <2> QED BY <1>5, <2>1, <2>2, RunsKeep DEF Finish, Fail, vars
<1>6. ASSUME NEW s \in Servers, Stop(s) PROVE MigrationInv'
  <2>1. PICK lost \in SUBSET Handlers :
          /\ handlers' = [h \in Handlers |-> IF h \in lost THEN Idle ELSE handlers[h]]
          /\ interrupted' = interrupted \cup
                {x \in Intents : \E h \in lost :
                    handlers[h].ref = x /\ handlers[h].step \in {"materialize", "credit"}}
    BY <1>6 DEF Stop
  <2>2. UNCHANGED <<invoices, payments, coverage, intents, gateway, events, acked, interrupts,
                    backfill, runs>>
    BY <1>6 DEF Stop
  <2>3. handlers' \in [Handlers -> Handler] /\ interrupted' \subseteq Intents
    BY <1>0, <2>1, IdleType DEF TypeOK
  <2>4. TypeOK'
    BY <1>0, <2>2, <2>3 DEF TypeOK
  <2>5. HandlersOK'
    <3>1. \A h \in Handlers : HandlerOK(h) => HandlerOK(h)'
      BY <2>1, <2>2, IdleIsOK DEF HandlerOK, Charged
    <3> QED BY <1>0, <3>1 DEF HandlersOK
  <2>6. PaystackOK'
    BY <1>0, <2>2 DEF CoreInv, PaystackOK, Charged
  <2> QED BY <2>2, <2>4, <2>5, <2>6
          DEF MigrationInv, CoreInv, SelectedOK, LegacyStays, NeverAllocatedTwice, LeavesNoneBehind
<1>7. CASE UNCHANGED <<vars, migrationVars>>
  BY <1>7, RequestsKeep DEF migrationVars
<1>8. CASE up # {} /\ Next /\ UNCHANGED migrationVars
  BY <1>8, RequestsKeep DEF migrationVars
<1> QED BY <1>2, <1>3, <1>4, <1>5, <1>6, <1>7, <1>8, AllocateKeeps DEF MigrationNext, MigrationStep

LEMMA MigrationInvariance == MigrationSpec => []MigrationInv
<1>1. MigrationInit => MigrationInv
  BY MigrationStarts
<1>2. MigrationInv /\ [MigrationNext]_<<vars, migrationVars>> => MigrationInv'
  BY NextMigration
<1> QED BY <1>1, <1>2, PTL DEF MigrationSpec

\* For any servers that boot together, payments they mistake for legacy rows and
\* requests beside them, no payment is allocated beyond what it brought.
THEOREM AllocatedOnce == MigrationSpec => []NeverAllocatedTwice
<1>1. MigrationInv => NeverAllocatedTwice
  BY DEF MigrationInv
<1> QED BY <1>1, MigrationInvariance, PTL

\* For any servers, batches and failures, no run recomputes before every legacy
\* payment has its allocation.
THEOREM NoneIsLeftBehind == MigrationSpec => []LeavesNoneBehind
<1>1. MigrationInv => LeavesNoneBehind
  BY DEF MigrationInv
<1> QED BY <1>1, MigrationInvariance, PTL

=============================================================================
