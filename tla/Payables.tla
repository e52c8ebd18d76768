------------------------------ MODULE Payables ------------------------------
(***************************************************************************)
(* Vendor invoices and their approval (VendorInvoicesService,              *)
(* ApprovalRulesService): a captured invoice is matched with an approval   *)
(* rule, whose roles become its Approval rows; approvers fill the rows;    *)
(* the invoice is approved when the rule is met, rejected, cancelled or    *)
(* paid.                                                                   *)
(*                                                                         *)
(* Every operation is one transaction at read committed: it reads the      *)
(* invoice, and later writes rows by their id. A row it has written stays  *)
(* locked, and its new value unseen by others, until it commits.           *)
(***************************************************************************)
EXTENDS Integers, FiniteSets

CONSTANTS
    VendorInvoices, Users, Rules,
    Calls,        \* requests in flight
    Roles, RoleOf,   \* the role of each user
    InvoiceAmounts,         \* amounts an invoice may have
    RuleForms,       \* what an administrator may write into a rule
    Slots,           \* numbers of the Approval rows of one invoice
    MaxRuleEdits,        \* bound on the edits of rules
    NoUser, NoVendorInvoice, NoRule, NoRole, NoSlot

Modes == {"any", "all", "sequential"}

\* A rule that is absent is inactive, too. roles[s] is the role of row s.
RuleRow == [active : BOOLEAN, minAmount : Int, maxAmount : Int, mode : Modes,
            approverCount : Int, roles : [Slots -> Roles \cup {NoRole}]]

ASSUME PayablesAssumption ==
    /\ Slots \subseteq Nat
    /\ RoleOf \in [Users -> Roles]
    /\ Rules \subseteq Nat      \* in the order of their priority
    /\ InvoiceAmounts \subseteq Int
    /\ IsFiniteSet(Slots)
    /\ RuleForms \subseteq RuleRow
    /\ \A form \in RuleForms :      \* as the DTO and validateRoles demand
          form.approverCount >= 1 /\ \E s \in Slots : form.roles[s] # NoRole
    /\ MaxRuleEdits \in Nat
    /\ NoUser \notin Users /\ NoVendorInvoice \notin VendorInvoices /\ NoRule \notin Rules
    /\ NoRole \notin Roles /\ NoSlot \notin Slots

VARIABLES
    vendorInvoices,    \* the VendorInvoice rows with their Approval rows
    rules,       \* the ApprovalRule rows
    calls,    \* requests in flight
    ruleEdits,       \* how often a rule was edited
    skewed,      \* invoices of which two approvals counted while both were uncommitted
    regoverned,  \* invoices whose rule was edited after they were captured
    crossed,     \* invoices that were written by a request with an old status in hand
    doubled      \* users who had two requests in flight on one invoice

payablesVars == <<vendorInvoices, rules, calls, ruleEdits, skewed, regoverned, crossed, doubled>>
payablesHistory == <<skewed, regoverned, crossed, doubled>>

-----------------------------------------------------------------------------
Decisions == {"absent", "pending", "approved", "rejected"}
Statuses == {"absent", "captured", "pending_approval", "approved", "rejected", "paid",
             "cancelled"}

Approval == [decision : Decisions, requiredRole : Roles \cup {NoRole},
             sequenceIndex : Int, approverUserId : Users \cup {NoUser}]
VendorInvoice == [status : Statuses, amount : Int, capturedBy : Users \cup {NoUser},
            ruleId : Rules \cup {NoRule}, approvals : [Slots -> Approval]]

\* Steps: approve, reject, pay, cancel, update: it has read the invoice;
\* counted: it has written its Approval row and counted the rows.
Request == [step : {"idle", "approve", "counted", "reject", "pay", "cancel", "update"},
            user : Users \cup {NoUser}, invoice : VendorInvoices \cup {NoVendorInvoice},
            status : Statuses,              \* of the invoice as it was read
            slot : Slots \cup {NoSlot}, rule : RuleRow, cleared : BOOLEAN]

NoApproval == [decision |-> "absent", requiredRole |-> NoRole, sequenceIndex |-> 0,
               approverUserId |-> NoUser]
NoVendorRow == [status |-> "absent", amount |-> 0, capturedBy |-> NoUser,
                 ruleId |-> NoRule, approvals |-> [s \in Slots |-> NoApproval]]
NoRuleRow == [active |-> FALSE, minAmount |-> 0, maxAmount |-> 0, mode |-> "any",
              approverCount |-> 1, roles |-> [s \in Slots |-> NoRole]]
IdleCall == [step |-> "idle", user |-> NoUser, invoice |-> NoVendorInvoice, status |-> "absent",
         slot |-> NoSlot, rule |-> NoRuleRow, cleared |-> FALSE]

PayablesInit ==
    /\ vendorInvoices = [i \in VendorInvoices |-> NoVendorRow]
    /\ rules \in [Rules -> RuleForms \cup {NoRuleRow}]
    /\ calls = [q \in Calls |-> IdleCall]
    /\ ruleEdits = 0
    /\ skewed = {} /\ regoverned = {} /\ crossed = {} /\ doubled = {}

-----------------------------------------------------------------------------
(* Rules: create, update and remove write the row without looking at it. *)

EditRule(r, form) ==
    /\ ruleEdits < MaxRuleEdits
    /\ ruleEdits' = ruleEdits + 1
    /\ rules' = [rules EXCEPT ![r] = form]
    /\ regoverned' = regoverned \cup {i \in VendorInvoices : vendorInvoices[i].ruleId = r}
    /\ UNCHANGED <<vendorInvoices, calls, skewed, crossed, doubled>>

\* selectFor: the active rules whose band holds the amount, the first of them.
Matching(amount) ==
    {r \in Rules : /\ rules[r].active
                   /\ rules[r].minAmount <= amount /\ amount <= rules[r].maxAmount}
Selected(r, amount) == r \in Matching(amount) /\ \A o \in Matching(amount) : r <= o

\* One pending row for each role that the rule requires.
ApprovalRows(rule) ==
    [s \in Slots |->
        IF rule.roles[s] = NoRole THEN NoApproval
        ELSE [decision |-> "pending", requiredRole |-> rule.roles[s],
              sequenceIndex |-> IF rule.mode = "sequential" THEN s ELSE 0,
              approverUserId |-> NoUser]]

\* create: without a rule the invoice stays 'captured'.
Capture(i, u, amount) ==
    /\ vendorInvoices[i].status = "absent"
    /\ \/ \E r \in Rules :
            /\ Selected(r, amount)
            /\ vendorInvoices' = [vendorInvoices EXCEPT ![i] =
                  [status |-> "pending_approval", amount |-> amount, capturedBy |-> u,
                   ruleId |-> r, approvals |-> ApprovalRows(rules[r])]]
       \/ /\ Matching(amount) = {}
          /\ vendorInvoices' = [vendorInvoices EXCEPT ![i] =
                [NoVendorRow EXCEPT !.status = "captured", !.amount = amount,
                                     !.capturedBy = u]]
    /\ UNCHANGED <<rules, calls, ruleEdits, payablesHistory>>

-----------------------------------------------------------------------------
(* Requests on an invoice: what they read. *)

CallAt(q, step) == calls[q].step = step
Busy(q, u, i) == calls[q].user = u /\ calls[q].invoice = i

BeginCall(q, step, u, i, s, rule) ==
    /\ CallAt(q, "idle")
    /\ calls' = [calls EXCEPT ![q] =
          [step |-> step, user |-> u, invoice |-> i, status |-> vendorInvoices[i].status,
           slot |-> s, rule |-> rule, cleared |-> FALSE]]
    /\ doubled' = IF \E o \in Calls : Busy(o, u, i) THEN doubled \cup {u} ELSE doubled
    /\ UNCHANGED <<vendorInvoices, rules, ruleEdits, skewed, regoverned, crossed>>

Pending(i) == {s \in Slots : vendorInvoices[i].approvals[s].decision = "pending"}

\* The pending rows of the user's role.
Slotted(i, u) == {s \in Pending(i) : vendorInvoices[i].approvals[s].requiredRole = RoleOf[u]}

Earliest(i, S) ==
    {s \in S : \A o \in S : vendorInvoices[i].approvals[s].sequenceIndex
                              <= vendorInvoices[i].approvals[o].sequenceIndex}

\* Seeded fault: nothing keeps a user from filling a second row.
FreeRowOnly(i, u, s) == s \in Earliest(i, Slotted(i, u))

\* A row this user may fill, who has decided no other row of the invoice.
Fillable(i, u, s) ==
    /\ s \in Earliest(i, Slotted(i, u))
    /\ \A o \in Slots : vendorInvoices[i].approvals[o].approverUserId # u

\* A row whose turn it is has the user's role.
InTurn(i, u) == Earliest(i, Pending(i)) \cap Slotted(i, u) # {}

Open(i) == vendorInvoices[i].status = "pending_approval"

ReadToApprove(q, u, i, s) ==
    LET rule == rules[vendorInvoices[i].ruleId] IN
    /\ Open(i)
    /\ vendorInvoices[i].capturedBy # u
    /\ Fillable(i, u, s)
    /\ rule.mode = "sequential" => InTurn(i, u)
    /\ BeginCall(q, "approve", u, i, s, rule)

\* reject does not ask whose turn it is, nor what the user has decided before.
ReadToReject(q, u, i, s) ==
    /\ Open(i)
    /\ vendorInvoices[i].capturedBy # u
    /\ s \in Slotted(i, u)
    /\ BeginCall(q, "reject", u, i, s, NoRuleRow)

\* Seeded fault: an invoice may be paid before it is approved.
PayableSoon(i) == vendorInvoices[i].status \in {"approved", "pending_approval"}

Payable(i) == vendorInvoices[i].status = "approved"

\* pay; batchPay is one after the other, whatever became of those before.
ReadToPay(q, u, i) == Payable(i) /\ BeginCall(q, "pay", u, i, NoSlot, NoRuleRow)

ReadToCancel(q, u, i) ==
    /\ vendorInvoices[i].status \in {"captured", "pending_approval", "approved", "rejected"}
    /\ BeginCall(q, "cancel", u, i, NoSlot, NoRuleRow)

ReadToUpdate(q, u, i) ==
    /\ vendorInvoices[i].status = "captured"
    /\ BeginCall(q, "update", u, i, NoSlot, NoRuleRow)

-----------------------------------------------------------------------------
(* Requests on an invoice: what they write. *)

Approved(approvals) == {s \in Slots : approvals[s].decision = "approved"}
Present(approvals) == {s \in Slots : approvals[s].decision # "absent"}

\* computeApprovalOutcome = 'approved'.
Met(approvals, rule) ==
    /\ \A s \in Slots : approvals[s].decision # "rejected"
    /\ IF rule.mode = "any"
         THEN Cardinality(Approved(approvals)) >= rule.approverCount
         ELSE Approved(approvals) = Present(approvals)

Decided(approvals, s, u, decision) ==
    [approvals EXCEPT ![s].decision = decision, ![s].approverUserId = u]

\* The Approval row is locked by a request that has written it.
RowLocked(i, s) ==
    \E o \in Calls : CallAt(o, "counted") /\ calls[o].invoice = i /\ calls[o].slot = s

Counting(q) ==
    \E o \in Calls \ {q} : CallAt(o, "counted") /\ calls[o].invoice = calls[q].invoice

\* approve writes its row and counts the rows, of those of others the committed
\* ones.
CountApprovals(q) ==
    LET t == calls[q]
        approvals == vendorInvoices[t.invoice].approvals
    IN
    /\ CallAt(q, "approve")
    /\ ~ RowLocked(t.invoice, t.slot)
    /\ calls' = [calls EXCEPT
          ![q].step = "counted",
          ![q].cleared = Met(Decided(approvals, t.slot, t.user, "approved"), t.rule)]
    /\ skewed' = IF Counting(q) THEN skewed \cup {t.invoice} ELSE skewed
    /\ UNCHANGED <<vendorInvoices, rules, ruleEdits, regoverned, crossed, doubled>>

\* What a request commits; the status is written without a look at it.
CommitCall(q, status, approvals) ==
    LET i == calls[q].invoice IN
    /\ vendorInvoices' = [vendorInvoices EXCEPT ![i].status = status, ![i].approvals = approvals]
    /\ calls' = [calls EXCEPT ![q] = IdleCall]
    /\ crossed' = IF vendorInvoices[i].status # calls[q].status THEN crossed \cup {i} ELSE crossed
    /\ UNCHANGED <<rules, ruleEdits, skewed, regoverned, doubled>>

\* Seeded fault: the request that meets the rule does not move the invoice.
LeftPending(status, cleared) == status

StatusOnceDecided(status, cleared) == IF cleared THEN "approved" ELSE status

CommitApproval(q) ==
    LET t == calls[q]
        row == vendorInvoices[t.invoice]
    IN
    /\ CallAt(q, "counted")
    /\ CommitCall(q, StatusOnceDecided(row.status, t.cleared),
              Decided(row.approvals, t.slot, t.user, "approved"))

CommitRejection(q) ==
    LET t == calls[q] IN
    /\ CallAt(q, "reject")
    /\ ~ RowLocked(t.invoice, t.slot)
    /\ CommitCall(q, "rejected",
              Decided(vendorInvoices[t.invoice].approvals, t.slot, t.user, "rejected"))

CommitPayment(q) ==
    /\ CallAt(q, "pay")
    /\ CommitCall(q, "paid", vendorInvoices[calls[q].invoice].approvals)

CommitCancellation(q) ==
    /\ CallAt(q, "cancel")
    /\ CommitCall(q, "cancelled", vendorInvoices[calls[q].invoice].approvals)

CommitUpdate(q, amount) ==
    LET i == calls[q].invoice IN
    /\ CallAt(q, "update")
    /\ vendorInvoices' = [vendorInvoices EXCEPT ![i].amount = amount]
    /\ calls' = [calls EXCEPT ![q] = IdleCall]
    /\ UNCHANGED <<rules, ruleEdits, payablesHistory>>

\* The transaction fails, or the process dies: nothing of it is kept.
AbortCall(q) ==
    /\ ~ CallAt(q, "idle")
    /\ calls' = [calls EXCEPT ![q] = IdleCall]
    /\ UNCHANGED <<vendorInvoices, rules, ruleEdits, payablesHistory>>

-----------------------------------------------------------------------------
Read(q) ==
    \E u \in Users, i \in VendorInvoices :
        \/ \E s \in Slots : ReadToApprove(q, u, i, s) \/ ReadToReject(q, u, i, s)
        \/ ReadToPay(q, u, i) \/ ReadToCancel(q, u, i) \/ ReadToUpdate(q, u, i)

Write(q) ==
    \/ CountApprovals(q) \/ CommitApproval(q) \/ CommitRejection(q)
    \/ CommitPayment(q) \/ CommitCancellation(q)
    \/ \E amount \in InvoiceAmounts : CommitUpdate(q, amount)

PayablesNext ==
    \/ \E r \in Rules, form \in RuleForms : EditRule(r, form)
    \/ \E i \in VendorInvoices, u \in Users, amount \in InvoiceAmounts : Capture(i, u, amount)
    \/ \E q \in Calls : Read(q) \/ Write(q) \/ AbortCall(q)

PayablesSpec == PayablesInit /\ [][PayablesNext]_payablesVars

-----------------------------------------------------------------------------
(* Properties. *)

Governing(i) == rules[vendorInvoices[i].ruleId]

\* An invoice whose approvals meet its rule does not stay pending, where no
\* approval would ever move it again; unless two approvals counted before
\* either was committed, or the rule was edited meanwhile (approve).
MetIsApproved ==
    \A i \in VendorInvoices :
        vendorInvoices[i].status = "pending_approval" /\ Met(vendorInvoices[i].approvals, Governing(i)) =>
            i \in skewed \cup regoverned

\* The approvals of one invoice come from different users, none of them the one
\* who captured it; unless a user sent two requests at once (approve).
FourEyes ==
    \A i \in VendorInvoices :
        LET approvals == vendorInvoices[i].approvals IN
        \A s \in Approved(approvals) :
            approvals[s].approverUserId \notin doubled =>
                /\ approvals[s].approverUserId # vendorInvoices[i].capturedBy
                /\ \A o \in Approved(approvals) \ {s} :
                      approvals[o].approverUserId # approvals[s].approverUserId

\* What is paid, or about to be, meets the rule it was captured under and nobody
\* has rejected it; unless requests crossed or the rule was edited (approve,
\* reject, pay).
PaidIsMet ==
    \A i \in VendorInvoices :
        vendorInvoices[i].status \in {"approved", "paid"} =>
            Met(vendorInvoices[i].approvals, Governing(i)) \/ i \in crossed \cup regoverned

-----------------------------------------------------------------------------
(* The inductive invariant behind them. *)

PayablesTypeOK ==
    /\ vendorInvoices \in [VendorInvoices -> VendorInvoice]
    /\ rules \in [Rules -> RuleForms \cup {NoRuleRow}]
    /\ calls \in [Calls -> Request]
    /\ ruleEdits \in 0 .. MaxRuleEdits
    /\ skewed \subseteq VendorInvoices /\ regoverned \subseteq VendorInvoices /\ crossed \subseteq VendorInvoices
    /\ doubled \subseteq Users

\* A request carries an invoice that exists, in the status it asked for, and, if
\* it decides on it, a row of it; its user did not capture it. Where the user
\* has sent no second one, nothing else of the invoice is decided by the user.
RequestOK(q) ==
    LET t == calls[q]
        approvals == vendorInvoices[t.invoice].approvals
    IN
    t.step # "idle" =>
        /\ t.user \in Users /\ t.invoice \in VendorInvoices
        /\ vendorInvoices[t.invoice].status # "absent"
        /\ t.step = "pay" => t.status = "approved"
        /\ t.step \in {"approve", "counted", "reject"} =>
              /\ t.status = "pending_approval"
              /\ t.slot \in Slots
              /\ vendorInvoices[t.invoice].ruleId \in Rules
              /\ vendorInvoices[t.invoice].capturedBy # t.user
              /\ approvals[t.slot].decision # "absent"
        /\ t.step \in {"approve", "counted"} /\ t.user \notin doubled =>
              \A s \in Slots : approvals[s].approverUserId # t.user

OnePerUser ==
    \A q, o \in Calls :
        q # o /\ ~ CallAt(q, "idle") /\ ~ CallAt(o, "idle")
          /\ calls[q].user = calls[o].user
          /\ calls[q].invoice = calls[o].invoice =>
            calls[q].user \in doubled

\* What a request has counted is still so when it commits: the row it has
\* written is its own; a second count was recorded as a skew.
CountedOK(q) ==
    LET t == calls[q]
        i == t.invoice
        met == Met(Decided(vendorInvoices[i].approvals, t.slot, t.user, "approved"), Governing(i))
    IN
    /\ t.step \in {"approve", "counted"} /\ i \notin regoverned => t.rule = Governing(i)
    /\ t.step = "counted" /\ i \notin regoverned /\ vendorInvoices[i].status = "pending_approval" =>
          /\ t.cleared => met
          /\ i \notin skewed => (met => t.cleared)

OneCounts ==
    \A q, o \in Calls :
        q # o /\ CallAt(q, "counted") /\ CallAt(o, "counted")
          /\ calls[q].invoice = calls[o].invoice =>
            calls[q].invoice \in skewed /\ calls[q].slot # calls[o].slot

InvoicesOK ==
    \A i \in VendorInvoices :
        /\ vendorInvoices[i].status \in {"pending_approval", "approved", "rejected", "paid"} =>
              vendorInvoices[i].ruleId \in Rules \/ i \in crossed
        /\ vendorInvoices[i].status = "captured" => vendorInvoices[i].ruleId = NoRule
        /\ vendorInvoices[i].status = "pending_approval" => vendorInvoices[i].ruleId \in Rules

PayablesIInv ==
    /\ PayablesTypeOK /\ OnePerUser /\ OneCounts /\ InvoicesOK
    /\ \A q \in Calls : RequestOK(q) /\ CountedOK(q)
    /\ MetIsApproved /\ FourEyes /\ PaidIsMet

=============================================================================
