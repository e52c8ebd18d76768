---------------------------- MODULE PayablesProofs ----------------------------
(* Theorems about Payables, for every rule, every user and every request. *)
EXTENDS Payables, FiniteSetTheorems, TLAPS

-----------------------------------------------------------------------------
(* The decisions of one invoice. *)

\* A rule that is met stays met when more is approved and nothing else changes.
LEMMA MetGrows ==
    ASSUME NEW a \in [Slots -> Approval], NEW b \in [Slots -> Approval],
           NEW rule \in RuleRow, Met(a, rule),
           Approved(a) \subseteq Approved(b), Present(a) = Present(b),
           \A s \in Slots : b[s].decision = "rejected" => a[s].decision = "rejected"
    PROVE  Met(b, rule)
<1>1. IsFiniteSet(Approved(b))
  BY FS_Subset, PayablesAssumption DEF Approved
<1>2. Cardinality(Approved(a)) <= Cardinality(Approved(b))
      /\ Cardinality(Approved(a)) \in Int /\ Cardinality(Approved(b)) \in Int
  BY <1>1, FS_Subset, FS_CardinalityType
<1>3. rule.approverCount \in Int
  BY DEF RuleRow
<1>4. Approved(b) \subseteq Present(b)
  BY DEF Approved, Present
<1>5. \A s \in Slots : b[s].decision # "rejected"
  BY DEF Met
<1>6. CASE rule.mode = "any"
  <2>1. Cardinality(Approved(a)) >= rule.approverCount
    BY <1>6 DEF Met
  <2>2. Cardinality(Approved(b)) >= rule.approverCount
    BY <1>2, <1>3, <2>1
  <2> QED BY <1>5, <1>6, <2>2 DEF Met
<1>7. CASE rule.mode # "any"
  <2>1. Approved(a) = Present(a)
    BY <1>7 DEF Met
  <2>2. Present(b) \subseteq Approved(b)
    BY <2>1
  <2>3. Approved(b) = Present(b)
    BY <1>4, <2>2
  <2> QED BY <1>5, <1>7, <2>3 DEF Met
<1> QED BY <1>6, <1>7

\* The rows that a rule asks for do not meet it while nobody has decided.
LEMMA NewIsUnmet ==
    ASSUME NEW rule \in RuleForms
    PROVE  /\ ApprovalRows(rule) \in [Slots -> Approval]
           /\ Approved(ApprovalRows(rule)) = {}
           /\ ~ Met(ApprovalRows(rule), rule)
<1>1. rule \in RuleRow /\ rule.approverCount >= 1 /\ \E s \in Slots : rule.roles[s] # NoRole
  BY PayablesAssumption
<1>2. /\ ApprovalRows(rule) \in [Slots -> Approval]
      /\ \A s \in Slots : ApprovalRows(rule)[s].decision =
                             IF rule.roles[s] = NoRole THEN "absent" ELSE "pending"
  BY <1>1, PayablesAssumption DEF ApprovalRows, NoApproval, Approval, Decisions, RuleRow
<1>3. Approved(ApprovalRows(rule)) = {} /\ Present(ApprovalRows(rule)) # {}
  BY <1>1, <1>2 DEF Approved, Present
<1>4. rule.approverCount \in Int
  BY <1>1 DEF RuleRow
<1>5. ~ Met(ApprovalRows(rule), rule)
  BY <1>1, <1>3, <1>4, FS_EmptySet DEF Met
<1> QED BY <1>2, <1>3, <1>5

\* A decision fills one row.
LEMMA DecidedRows ==
    ASSUME NEW a \in [Slots -> Approval], NEW s \in Slots, NEW u \in Users,
           NEW decision \in {"approved", "rejected"}
    PROVE  /\ Decided(a, s, u, decision) \in [Slots -> Approval]
           /\ Decided(a, s, u, decision)[s].decision = decision
           /\ Decided(a, s, u, decision)[s].approverUserId = u
           /\ \A o \in Slots \ {s} : Decided(a, s, u, decision)[o] = a[o]
BY DEF Decided, Approval, Decisions

LEMMA ApprovedRows ==
    ASSUME NEW a \in [Slots -> Approval], NEW b \in [Slots -> Approval],
           NEW s \in Slots, NEW u \in Users, b = Decided(a, s, u, "approved")
    PROVE  b[s].decision = "approved" /\ \A o \in Slots \ {s} : b[o] = a[o]
BY DecidedRows

-----------------------------------------------------------------------------
(* What stays when a step leaves most of the state alone. *)

\* The row of an invoice is the same but for its amount.
SameRow(i) ==
    /\ vendorInvoices'[i].status = vendorInvoices[i].status
    /\ vendorInvoices'[i].ruleId = vendorInvoices[i].ruleId
    /\ vendorInvoices'[i].capturedBy = vendorInvoices[i].capturedBy
    /\ vendorInvoices'[i].approvals = vendorInvoices[i].approvals

LEMMA InvoicesKept ==
    ASSUME InvoicesOK, MetIsApproved, FourEyes, PaidIsMet,
           \A i \in VendorInvoices : SameRow(i),
           UNCHANGED <<rules, regoverned, crossed>>,
           skewed \subseteq skewed', doubled \subseteq doubled'
    PROVE  InvoicesOK' /\ MetIsApproved' /\ FourEyes' /\ PaidIsMet'
<1>1. InvoicesOK'
  BY DEF InvoicesOK, SameRow
<1>2. MetIsApproved'
  BY DEF MetIsApproved, SameRow, Governing
<1>3. FourEyes'
  BY DEF FourEyes, SameRow, Approved
<1>4. PaidIsMet'
  BY DEF PaidIsMet, SameRow, Governing
<1> QED BY <1>1, <1>2, <1>3, <1>4

LEMMA RequestKept ==
    ASSUME NEW q \in Calls, RequestOK(q), CountedOK(q), calls'[q] = calls[q],
           calls[q].step # "idle" => SameRow(calls[q].invoice),
           UNCHANGED <<rules, regoverned>>, skewed \subseteq skewed', doubled \subseteq doubled'
    PROVE  RequestOK(q)' /\ CountedOK(q)'
<1>1. RequestOK(q)'
  BY DEF RequestOK, SameRow
<1>2. CountedOK(q)'
  BY DEF CountedOK, SameRow, Governing
<1> QED BY <1>1, <1>2

LEMMA IdleOK ==
    ASSUME NEW q \in Calls, calls'[q] = IdleCall
    PROVE  RequestOK(q)' /\ CountedOK(q)'
BY DEF RequestOK, CountedOK, IdleCall

LEMMA IdleType == NoRuleRow \in RuleRow /\ IdleCall \in Request
BY DEF IdleCall, Request, NoRuleRow, RuleRow, Modes, Statuses

LEMMA NoRowType ==
    /\ NoVendorRow \in VendorInvoice
    /\ NoVendorRow.status = "absent" /\ NoVendorRow.ruleId = NoRule
    /\ \A s \in Slots : NoVendorRow.approvals[s].decision = "absent"
BY DEF NoVendorRow, NoApproval, VendorInvoice, Approval, Statuses, Decisions

\* A request that ends counts no more, and is not a second one of its user.
LEMMA EndEffect ==
    ASSUME PayablesTypeOK, OnePerUser, OneCounts, NEW q \in Calls,
           calls' = [calls EXCEPT ![q] = IdleCall],
           skewed \subseteq skewed', doubled \subseteq doubled'
    PROVE  /\ calls' \in [Calls -> Request]
           /\ calls'[q] = IdleCall /\ \A o \in Calls \ {q} : calls'[o] = calls[o]
           /\ OnePerUser' /\ OneCounts'
<1>1. /\ calls' \in [Calls -> Request]
      /\ calls'[q] = IdleCall /\ \A o \in Calls \ {q} : calls'[o] = calls[o]
  BY IdleType DEF PayablesTypeOK
<1>2. IdleCall.step = "idle"
  BY DEF IdleCall
<1>3. OnePerUser'
  BY <1>1, <1>2 DEF OnePerUser, CallAt
<1>4. OneCounts'
  BY <1>1, <1>2 DEF OneCounts, CallAt
<1> QED BY <1>1, <1>3, <1>4

-----------------------------------------------------------------------------
\* No invoice, any rules: the invariant holds.
LEMMA InitIInv == PayablesInit => PayablesIInv
<1> SUFFICES ASSUME PayablesInit PROVE PayablesIInv
  OBVIOUS
<1>1. /\ NoVendorRow \in VendorInvoice /\ NoVendorRow.status = "absent"
      /\ \A s \in Slots : NoVendorRow.approvals[s].decision = "absent"
  BY NoRowType
<1>2. PayablesTypeOK
  BY <1>1, IdleType, PayablesAssumption DEF PayablesInit, PayablesTypeOK
<1>3. IdleCall.step = "idle"
  BY DEF IdleCall
<1>4. OnePerUser /\ OneCounts /\ \A q \in Calls : RequestOK(q) /\ CountedOK(q)
  BY <1>3 DEF PayablesInit, OnePerUser, OneCounts, CallAt, RequestOK, CountedOK
<1>5. InvoicesOK /\ MetIsApproved /\ PaidIsMet
  BY <1>1 DEF PayablesInit, InvoicesOK, MetIsApproved, PaidIsMet
<1>6. FourEyes
  BY <1>1 DEF PayablesInit, FourEyes, Approved
<1> QED BY <1>2, <1>4, <1>5, <1>6 DEF PayablesIInv

\* An edit of a rule disturbs only the invoices that it governs, which are known.
LEMMA EditIInv ==
    ASSUME PayablesIInv, NEW r \in Rules, NEW form \in RuleForms, EditRule(r, form) PROVE PayablesIInv'
<1>0. /\ PayablesTypeOK /\ OnePerUser /\ OneCounts /\ InvoicesOK /\ MetIsApproved /\ FourEyes /\ PaidIsMet
      /\ \A q \in Calls : RequestOK(q) /\ CountedOK(q)
  BY DEF PayablesIInv
<1>1. /\ rules' = [rules EXCEPT ![r] = form]
      /\ regoverned' = regoverned \cup {i \in VendorInvoices : vendorInvoices[i].ruleId = r}
      /\ UNCHANGED <<vendorInvoices, calls, skewed, crossed, doubled>>
      /\ ruleEdits < MaxRuleEdits /\ ruleEdits' = ruleEdits + 1
  BY DEF EditRule
<1>2. PayablesTypeOK'
  BY <1>0, <1>1, PayablesAssumption DEF PayablesTypeOK
<1>3. \A i \in VendorInvoices : i \notin regoverned' /\ vendorInvoices[i].ruleId \in Rules =>
          i \notin regoverned /\ Governing(i)' = Governing(i)
  BY <1>0, <1>1 DEF PayablesTypeOK, Governing
<1>4. OnePerUser' /\ OneCounts'
  BY <1>0, <1>1 DEF OnePerUser, OneCounts, CallAt
<1>5. InvoicesOK' /\ FourEyes'
  BY <1>0, <1>1 DEF InvoicesOK, FourEyes, Approved
<1>6. MetIsApproved'
  BY <1>0, <1>1, <1>3 DEF MetIsApproved, InvoicesOK
<1>7. PaidIsMet'
  BY <1>0, <1>1, <1>3 DEF PaidIsMet, InvoicesOK
<1>8. ASSUME NEW q \in Calls PROVE RequestOK(q)' /\ CountedOK(q)'
  <2>1. RequestOK(q)'
    BY <1>0, <1>1 DEF RequestOK
  <2>2. calls[q].step \in {"approve", "counted"} =>
           calls[q].invoice \in VendorInvoices /\ vendorInvoices[calls[q].invoice].ruleId \in Rules
    BY <1>0 DEF RequestOK
  <2>3. CountedOK(q)'
    BY <1>0, <1>1, <1>3, <2>2 DEF CountedOK
  <2> QED BY <2>1, <2>3
<1> QED BY <1>2, <1>4, <1>5, <1>6, <1>7, <1>8 DEF PayablesIInv

\* A captured invoice has the rows of its rule, and nobody has decided on them.
LEMMA CaptureIInv ==
    ASSUME PayablesIInv, NEW i \in VendorInvoices, NEW u \in Users, NEW amount \in InvoiceAmounts,
           Capture(i, u, amount)
    PROVE  PayablesIInv'
<1>0. /\ PayablesTypeOK /\ OnePerUser /\ OneCounts /\ InvoicesOK /\ MetIsApproved /\ FourEyes /\ PaidIsMet
      /\ \A q \in Calls : RequestOK(q) /\ CountedOK(q)
  BY DEF PayablesIInv
<1>1. PICK row \in VendorInvoice :
         /\ vendorInvoices' = [vendorInvoices EXCEPT ![i] = row]
         /\ Approved(row.approvals) = {}
         /\ \/ /\ row.status = "pending_approval" /\ row.ruleId \in Rules
               /\ ~ Met(row.approvals, rules[row.ruleId])
            \/ row.status = "captured" /\ row.ruleId = NoRule
  <2>1. CASE Matching(amount) = {}
    <3> DEFINE row == [NoVendorRow EXCEPT !.status = "captured", !.amount = amount,
                                           !.capturedBy = u]
    <3>1. row \in VendorInvoice /\ row.status = "captured" /\ row.ruleId = NoRule
      BY NoRowType, PayablesAssumption DEF VendorInvoice, Statuses
    <3>2. Approved(row.approvals) = {}
      BY NoRowType DEF Approved, VendorInvoice
    <3>3. vendorInvoices' = [vendorInvoices EXCEPT ![i] = row]
      BY <2>1 DEF Capture, Selected
    <3> HIDE DEF row
    <3> QED BY <3>1, <3>2, <3>3
  <2>2. CASE Matching(amount) # {}
    <3>1. PICK r \in Rules :
             /\ Selected(r, amount)
             /\ vendorInvoices' = [vendorInvoices EXCEPT ![i] =
                   [status |-> "pending_approval", amount |-> amount, capturedBy |-> u,
                    ruleId |-> r, approvals |-> ApprovalRows(rules[r])]]
      BY <2>2 DEF Capture
    <3>2. rules[r] \in RuleForms
      BY <1>0, <3>1 DEF Selected, Matching, PayablesTypeOK, NoRuleRow
    <3> DEFINE row == [status |-> "pending_approval", amount |-> amount, capturedBy |-> u,
                       ruleId |-> r, approvals |-> ApprovalRows(rules[r])]
    <3>3. row \in VendorInvoice
      BY <3>2, NewIsUnmet, PayablesAssumption DEF VendorInvoice, Statuses
    <3>4. /\ row.status = "pending_approval" /\ row.ruleId = r
          /\ row.approvals = ApprovalRows(rules[r])
      OBVIOUS
    <3>5. vendorInvoices' = [vendorInvoices EXCEPT ![i] = row]
      BY <3>1
    <3> HIDE DEF row
    <3> QED BY <3>2, <3>3, <3>4, <3>5, NewIsUnmet
  <2> QED BY <2>1, <2>2
<1>2. /\ vendorInvoices[i].status = "absent"
      /\ UNCHANGED <<rules, calls, ruleEdits, skewed, regoverned, crossed, doubled>>
  BY DEF Capture, payablesHistory
<1>3. PayablesTypeOK'
  BY <1>0, <1>1, <1>2 DEF PayablesTypeOK
<1>4. vendorInvoices'[i] = row /\ \A j \in VendorInvoices \ {i} : vendorInvoices'[j] = vendorInvoices[j]
  BY <1>0, <1>1 DEF PayablesTypeOK
<1>5. OnePerUser' /\ OneCounts'
  BY <1>0, <1>2 DEF OnePerUser, OneCounts, CallAt
<1>6. InvoicesOK'
  BY <1>0, <1>1, <1>2, <1>4 DEF InvoicesOK
<1>7. MetIsApproved'
  BY <1>0, <1>1, <1>2, <1>4 DEF MetIsApproved, Governing
<1>8. FourEyes'
  BY <1>0, <1>1, <1>2, <1>4 DEF FourEyes, Approved
<1>9. PaidIsMet'
  BY <1>0, <1>1, <1>2, <1>4 DEF PaidIsMet, Governing
<1>10. ASSUME NEW q \in Calls PROVE RequestOK(q)' /\ CountedOK(q)'
  <2>1. calls[q].step # "idle" => calls[q].invoice \in VendorInvoices \ {i}
    BY <1>0, <1>2 DEF RequestOK
  <2> QED BY <1>0, <1>2, <1>4, <2>1, RequestKept DEF SameRow
<1> QED BY <1>3, <1>5, <1>6, <1>7, <1>8, <1>9, <1>10 DEF PayablesIInv

\* A request that has just read the invoice knows its row, and is a second one of
\* its user only if that is recorded.
LEMMA BeginIInv ==
    ASSUME PayablesIInv, NEW q \in Calls, NEW step \in {"approve", "reject", "pay", "cancel", "update"},
           NEW u \in Users, NEW i \in VendorInvoices, NEW s \in Slots \cup {NoSlot}, NEW rule \in RuleRow,
           BeginCall(q, step, u, i, s, rule),
           vendorInvoices[i].status # "absent",
           step = "pay" => vendorInvoices[i].status = "approved",
           step \in {"approve", "reject"} =>
              /\ Open(i) /\ s \in Slots /\ vendorInvoices[i].capturedBy # u
              /\ vendorInvoices[i].approvals[s].decision # "absent",
           step = "approve" =>
              /\ rule = Governing(i)
              /\ \A o \in Slots : vendorInvoices[i].approvals[o].approverUserId # u
    PROVE  PayablesIInv'
<1>0. /\ PayablesTypeOK /\ OnePerUser /\ OneCounts /\ InvoicesOK /\ MetIsApproved /\ FourEyes /\ PaidIsMet
      /\ \A r \in Calls : RequestOK(r) /\ CountedOK(r)
  BY DEF PayablesIInv
<1> DEFINE t == [step |-> step, user |-> u, invoice |-> i, status |-> vendorInvoices[i].status,
                 slot |-> s, rule |-> rule, cleared |-> FALSE]
<1>1. /\ t \in Request
      /\ t.step = step /\ t.user = u /\ t.invoice = i /\ t.status = vendorInvoices[i].status
      /\ t.slot = s /\ t.rule = rule
  BY <1>0 DEF PayablesTypeOK, Request, VendorInvoice
<1>2. /\ calls' = [calls EXCEPT ![q] = t] /\ CallAt(q, "idle")
      /\ doubled' = IF \E o \in Calls : Busy(o, u, i) THEN doubled \cup {u} ELSE doubled
      /\ UNCHANGED <<vendorInvoices, rules, ruleEdits, skewed, regoverned, crossed>>
  BY DEF BeginCall
<1> HIDE DEF t
<1>3. calls'[q] = t /\ \A r \in Calls \ {q} : calls'[r] = calls[r]
  BY <1>0, <1>2 DEF PayablesTypeOK
<1>4. doubled \subseteq doubled'
  BY <1>2
<1>5. PayablesTypeOK'
  BY <1>0, <1>1, <1>2 DEF PayablesTypeOK
<1>6. InvoicesOK' /\ MetIsApproved' /\ FourEyes' /\ PaidIsMet'
  BY <1>0, <1>2, <1>4, InvoicesKept DEF SameRow
<1>7. OnePerUser'
  BY <1>0, <1>1, <1>2, <1>3 DEF OnePerUser, CallAt, Busy
<1>8. OneCounts'
  BY <1>0, <1>1, <1>2, <1>3 DEF OneCounts, CallAt
<1>9. ASSUME NEW r \in Calls PROVE RequestOK(r)' /\ CountedOK(r)'
  <2>1. CASE r # q
    BY <1>0, <1>2, <1>3, <1>4, <2>1, RequestKept DEF SameRow
  <2>2. CASE r = q
    <3>1. RequestOK(r)'
      BY <1>0, <1>1, <1>2, <1>3, <2>2 DEF RequestOK, InvoicesOK, Open
    <3>2. CountedOK(r)'
      BY <1>1, <1>2, <1>3, <2>2 DEF CountedOK, Governing
    <3> QED BY <3>1, <3>2
  <2> QED BY <2>1, <2>2
<1> QED BY <1>5, <1>6, <1>7, <1>8, <1>9 DEF PayablesIInv

LEMMA ReadIInv == ASSUME PayablesIInv, NEW q \in Calls, Read(q) PROVE PayablesIInv'
<1>0. /\ PayablesTypeOK /\ InvoicesOK
  BY DEF PayablesIInv
<1>1. PICK u \in Users, i \in VendorInvoices :
         \/ \E s \in Slots : ReadToApprove(q, u, i, s) \/ ReadToReject(q, u, i, s)
         \/ ReadToPay(q, u, i) \/ ReadToCancel(q, u, i) \/ ReadToUpdate(q, u, i)
  BY DEF Read
<1>2. ASSUME NEW s \in Slots, ReadToApprove(q, u, i, s) PROVE PayablesIInv'
  <2>1. Open(i) /\ vendorInvoices[i].ruleId \in Rules
    BY <1>0, <1>2 DEF ReadToApprove, InvoicesOK, Open
  <2>2. PICK rule \in RuleRow : rule = Governing(i)
    BY <1>0, <2>1, IdleType, PayablesAssumption DEF PayablesTypeOK, Governing
  <2>3. BeginCall(q, "approve", u, i, s, rule)
    BY <1>2, <2>2 DEF ReadToApprove, Governing
  <2>4. /\ vendorInvoices[i].capturedBy # u
        /\ vendorInvoices[i].approvals[s].decision # "absent"
        /\ \A o \in Slots : vendorInvoices[i].approvals[o].approverUserId # u
    BY <1>2 DEF ReadToApprove, Fillable, Earliest, Slotted, Pending
  <2>5. vendorInvoices[i].status # "absent"
    BY <2>1 DEF Open
  <2> QED BY <2>1, <2>2, <2>3, <2>4, <2>5, BeginIInv
<1>3. ASSUME NEW s \in Slots, ReadToReject(q, u, i, s) PROVE PayablesIInv'
  <2>1. /\ Open(i) /\ BeginCall(q, "reject", u, i, s, NoRuleRow)
        /\ vendorInvoices[i].capturedBy # u /\ vendorInvoices[i].approvals[s].decision # "absent"
    BY <1>3 DEF ReadToReject, Slotted, Pending
  <2>2. vendorInvoices[i].status # "absent"
    BY <2>1 DEF Open
  <2> QED BY <2>1, <2>2, BeginIInv, IdleType
<1>4. ASSUME ReadToPay(q, u, i) PROVE PayablesIInv'
  BY <1>4, BeginIInv, IdleType DEF ReadToPay, Payable
<1>5. ASSUME ReadToCancel(q, u, i) PROVE PayablesIInv'
  BY <1>5, BeginIInv, IdleType DEF ReadToCancel
<1>6. ASSUME ReadToUpdate(q, u, i) PROVE PayablesIInv'
  BY <1>6, BeginIInv, IdleType DEF ReadToUpdate
<1> QED BY <1>1, <1>2, <1>3, <1>4, <1>5, <1>6

\* A request counts what is committed, and its own row; a second one that counts
\* meanwhile is recorded, and has another row.
LEMMA CountIInv == ASSUME PayablesIInv, NEW q \in Calls, CountApprovals(q) PROVE PayablesIInv'
<1>0. /\ PayablesTypeOK /\ OnePerUser /\ OneCounts /\ InvoicesOK /\ MetIsApproved /\ FourEyes /\ PaidIsMet
      /\ \A r \in Calls : RequestOK(r) /\ CountedOK(r)
  BY DEF PayablesIInv
<1>1. PICK i \in VendorInvoices : i = calls[q].invoice
  BY <1>0 DEF CountApprovals, CallAt, RequestOK
<1>2. PICK met \in BOOLEAN :
         met = Met(Decided(vendorInvoices[i].approvals, calls[q].slot, calls[q].user, "approved"),
                   calls[q].rule)
  BY DEF Met
<1>3. /\ calls[q].step = "approve" /\ ~ RowLocked(i, calls[q].slot)
      /\ calls' = [calls EXCEPT ![q].step = "counted", ![q].cleared = met]
      /\ skewed' = IF Counting(q) THEN skewed \cup {i} ELSE skewed
      /\ UNCHANGED <<vendorInvoices, rules, ruleEdits, regoverned, crossed, doubled>>
  BY <1>1, <1>2 DEF CountApprovals, CallAt
<1> DEFINE t == [calls[q] EXCEPT !.step = "counted", !.cleared = met]
<1>t. /\ t \in Request
      /\ t.step = "counted" /\ t.cleared = met
      /\ t.user = calls[q].user /\ t.invoice = i /\ t.rule = calls[q].rule
      /\ t.slot = calls[q].slot /\ t.status = calls[q].status
  <2>1. calls[q] \in Request
    BY <1>0 DEF PayablesTypeOK
  <2> QED BY <1>1, <2>1 DEF Request
<1>r. calls' = [calls EXCEPT ![q] = t]
  BY <1>0, <1>3 DEF PayablesTypeOK
<1>p. PICK new : new = t
  OBVIOUS
<1>4. /\ calls'[q] = new
      /\ \A r \in Calls \ {q} : calls'[r] = calls[r]
      /\ calls' \in [Calls -> Request]
  BY <1>0, <1>t, <1>r, <1>p DEF PayablesTypeOK
<1>5. /\ calls'[q].step = "counted" /\ calls'[q].cleared = met
      /\ calls'[q].user = calls[q].user /\ calls'[q].invoice = i
      /\ calls'[q].slot = calls[q].slot /\ calls'[q].status = calls[q].status
      /\ calls'[q].rule = calls[q].rule
  BY <1>t, <1>p, <1>4
<1> HIDE DEF t
<1>6. PayablesTypeOK'
  BY <1>0, <1>3, <1>4 DEF PayablesTypeOK
<1>7. InvoicesOK' /\ MetIsApproved' /\ FourEyes' /\ PaidIsMet'
  BY <1>0, <1>3, InvoicesKept DEF SameRow
<1>8. OnePerUser'
  BY <1>0, <1>1, <1>3, <1>4, <1>5 DEF OnePerUser, CallAt
<1>9. OneCounts'
  BY <1>0, <1>1, <1>3, <1>4, <1>5 DEF OneCounts, CallAt, RowLocked, Counting
<1>10. ASSUME NEW r \in Calls PROVE RequestOK(r)' /\ CountedOK(r)'
  <2>1. CASE r # q
    BY <1>0, <1>3, <1>4, <2>1, RequestKept DEF SameRow
  <2>2. CASE r = q
    <3>0. /\ calls[q].user \in Users /\ vendorInvoices[i].status # "absent"
          /\ calls[q].status = "pending_approval" /\ calls[q].slot \in Slots
          /\ vendorInvoices[i].ruleId \in Rules /\ vendorInvoices[i].capturedBy # calls[q].user
          /\ vendorInvoices[i].approvals[calls[q].slot].decision # "absent"
          /\ calls[q].user \notin doubled =>
                \A s \in Slots : vendorInvoices[i].approvals[s].approverUserId # calls[q].user
      BY <1>0, <1>1, <1>3 DEF RequestOK
    <3>1. UNCHANGED <<vendorInvoices, doubled>>
      BY <1>3
    <3>2. RequestOK(q)'
      BY <1>5, <3>0, <3>1 DEF RequestOK
    <3>3. CountedOK(r)'
      BY <1>0, <1>1, <1>2, <1>3, <1>5, <2>2 DEF CountedOK, Governing
    <3> QED BY <2>2, <3>2, <3>3
  <2> QED BY <2>1, <2>2
<1> QED BY <1>6, <1>7, <1>8, <1>9, <1>10 DEF PayablesIInv

-----------------------------------------------------------------------------
(* What a request commits. *)

\* The request ends, and of all invoices only its own changes.
LEMMA CommitEffect ==
    ASSUME PayablesIInv, NEW q \in Calls, NEW i \in VendorInvoices, i = calls[q].invoice,
           NEW status \in Statuses, NEW approvals \in [Slots -> Approval],
           CommitCall(q, status, approvals)
    PROVE  /\ PayablesTypeOK' /\ OnePerUser' /\ OneCounts'
           /\ vendorInvoices'[i].status = status /\ vendorInvoices'[i].approvals = approvals
           /\ vendorInvoices'[i].ruleId = vendorInvoices[i].ruleId
           /\ vendorInvoices'[i].capturedBy = vendorInvoices[i].capturedBy
           /\ \A j \in VendorInvoices \ {i} : vendorInvoices'[j] = vendorInvoices[j]
           /\ calls'[q] = IdleCall /\ \A r \in Calls \ {q} : calls'[r] = calls[r]
           /\ UNCHANGED <<rules, skewed, regoverned, doubled>>
           /\ crossed \subseteq crossed'
           /\ vendorInvoices[i].status # calls[q].status => i \in crossed'
<1>1. PayablesTypeOK /\ OnePerUser /\ OneCounts
  BY DEF PayablesIInv
<1>2. /\ vendorInvoices' = [vendorInvoices EXCEPT ![i].status = status, ![i].approvals = approvals]
      /\ calls' = [calls EXCEPT ![q] = IdleCall]
      /\ crossed' = IF vendorInvoices[i].status # calls[q].status THEN crossed \cup {i} ELSE crossed
      /\ UNCHANGED <<rules, ruleEdits, skewed, regoverned, doubled>>
  BY DEF CommitCall
<1> DEFINE row == [vendorInvoices[i] EXCEPT !.status = status, !.approvals = approvals]
<1>3. /\ row \in VendorInvoice /\ row.status = status /\ row.approvals = approvals
      /\ row.ruleId = vendorInvoices[i].ruleId /\ row.capturedBy = vendorInvoices[i].capturedBy
  <2>1. vendorInvoices[i] \in VendorInvoice
    BY <1>1 DEF PayablesTypeOK
  <2> QED BY <2>1 DEF VendorInvoice
<1>4. vendorInvoices' = [vendorInvoices EXCEPT ![i] = row]
  BY <1>1, <1>2 DEF PayablesTypeOK
<1>5. PICK new : new = row
  OBVIOUS
<1> HIDE DEF row
<1>6. /\ vendorInvoices' \in [VendorInvoices -> VendorInvoice]
      /\ vendorInvoices'[i] = new /\ \A j \in VendorInvoices \ {i} : vendorInvoices'[j] = vendorInvoices[j]
  BY <1>1, <1>3, <1>4, <1>5 DEF PayablesTypeOK
<1>7. /\ calls' \in [Calls -> Request]
      /\ calls'[q] = IdleCall /\ \A r \in Calls \ {q} : calls'[r] = calls[r]
      /\ OnePerUser' /\ OneCounts'
  BY <1>1, <1>2, EndEffect
<1>8. PayablesTypeOK'
  BY <1>1, <1>2, <1>6, <1>7 DEF PayablesTypeOK
<1> QED BY <1>2, <1>3, <1>5, <1>6, <1>7, <1>8

\* What a decision or a payment commits keeps the invariant, if an invoice that
\* it approves or pays is met, and one that it leaves pending is not.
LEMMA CommitIInv ==
    ASSUME PayablesIInv, NEW q \in Calls, ~ CallAt(q, "idle"), NEW i \in VendorInvoices,
           i = calls[q].invoice, NEW u \in Users, u = calls[q].user,
           NEW status \in Statuses \ {"absent", "captured"},
           NEW approvals \in [Slots -> Approval], CommitCall(q, status, approvals),
           NEW s, NEW decision \in {"approved", "rejected"},
           \/ approvals = vendorInvoices[i].approvals
           \/ /\ s \in Slots
              /\ approvals = Decided(vendorInvoices[i].approvals, s, u, decision)
              /\ vendorInvoices[i].capturedBy # u
              /\ vendorInvoices[i].approvals[s].decision # "absent"
              /\ decision = "approved" /\ u \notin doubled =>
                    \A o \in Slots : vendorInvoices[i].approvals[o].approverUserId # u,
           status = "cancelled" \/ vendorInvoices[i].ruleId \in Rules \/ i \in crossed',
           status \in {"approved", "paid"} =>
              Met(approvals, Governing(i)) \/ i \in crossed' \cup regoverned,
           status = "pending_approval" =>
              /\ CallAt(q, "counted") /\ decision = "approved"
              /\ vendorInvoices[i].status = "pending_approval"
              /\ Met(approvals, Governing(i)) => i \in skewed \cup regoverned
    PROVE  PayablesIInv'
<1>0. /\ PayablesTypeOK /\ OnePerUser /\ OneCounts /\ InvoicesOK /\ MetIsApproved /\ FourEyes /\ PaidIsMet
      /\ \A r \in Calls : RequestOK(r) /\ CountedOK(r)
  BY DEF PayablesIInv
<1>1. /\ PayablesTypeOK' /\ OnePerUser' /\ OneCounts'
      /\ vendorInvoices'[i].status = status /\ vendorInvoices'[i].approvals = approvals
      /\ vendorInvoices'[i].ruleId = vendorInvoices[i].ruleId
      /\ vendorInvoices'[i].capturedBy = vendorInvoices[i].capturedBy
      /\ \A j \in VendorInvoices \ {i} : vendorInvoices'[j] = vendorInvoices[j]
      /\ calls'[q] = IdleCall /\ \A r \in Calls \ {q} : calls'[r] = calls[r]
      /\ UNCHANGED <<rules, skewed, regoverned, doubled>>
      /\ crossed \subseteq crossed'
      /\ vendorInvoices[i].status # calls[q].status => i \in crossed'
  BY CommitEffect
<1>2. Governing(i)' = Governing(i)
  BY <1>1 DEF Governing
<1>3. vendorInvoices[i].approvals \in [Slots -> Approval]
  BY <1>0 DEF PayablesTypeOK, VendorInvoice
<1>d. approvals # vendorInvoices[i].approvals =>
         /\ approvals[s].decision = decision /\ approvals[s].approverUserId = u
         /\ \A o \in Slots \ {s} : approvals[o] = vendorInvoices[i].approvals[o]
         /\ vendorInvoices[i].approvals[s].decision # "absent"
  <2>1. CASE approvals = Decided(vendorInvoices[i].approvals, s, u, decision)
    <3>1. s \in Slots \/ approvals = vendorInvoices[i].approvals
      OBVIOUS
    <3>2. CASE s \in Slots
      BY <1>3, <2>1, <3>2 DEF Decided, Approval
    <3> QED BY <3>1, <3>2
  <2>2. CASE approvals = vendorInvoices[i].approvals
    BY <2>2
  <2> QED BY <2>1, <2>2
<1>4. InvoicesOK'
  BY <1>0, <1>1 DEF InvoicesOK
<1>5. MetIsApproved'
  BY <1>0, <1>1, <1>2 DEF MetIsApproved, Governing
<1>6. PaidIsMet'
  BY <1>0, <1>1, <1>2 DEF PaidIsMet, Governing
<1>7. FourEyes'
  <2> SUFFICES ASSUME NEW j \in VendorInvoices, NEW x \in Slots, NEW y \in Slots,
                      vendorInvoices'[j].approvals[x].decision = "approved",
                      vendorInvoices'[j].approvals[x].approverUserId \notin doubled
               PROVE  /\ vendorInvoices'[j].approvals[x].approverUserId # vendorInvoices'[j].capturedBy
                      /\ y # x /\ vendorInvoices'[j].approvals[y].decision = "approved" =>
                            vendorInvoices'[j].approvals[y].approverUserId
                               # vendorInvoices'[j].approvals[x].approverUserId
    BY <1>1 DEF FourEyes, Approved
  <2>1. CASE j # i \/ approvals = vendorInvoices[i].approvals
    BY <1>0, <1>1, <2>1 DEF FourEyes, Approved
  <2>2. CASE j = i /\ approvals # vendorInvoices[i].approvals
    <3>1. /\ approvals[s].decision = decision /\ approvals[s].approverUserId = u
          /\ \A o \in Slots \ {s} : approvals[o] = vendorInvoices[i].approvals[o]
          /\ vendorInvoices[i].capturedBy # u
      <4>1. /\ s \in Slots /\ approvals = Decided(vendorInvoices[i].approvals, s, u, decision)
            /\ vendorInvoices[i].capturedBy # u
        BY <2>2
      <4>2. PICK a \in [Slots -> Approval] : a = vendorInvoices[i].approvals
        BY <1>3
      <4>3. /\ Decided(a, s, u, decision)[s].decision = decision
            /\ Decided(a, s, u, decision)[s].approverUserId = u
            /\ \A o \in Slots \ {s} : Decided(a, s, u, decision)[o] = a[o]
        BY <4>1, DecidedRows
      <4> QED BY <4>1, <4>2, <4>3
    <3>2. CASE x = s
      BY <1>1, <2>2, <3>1, <3>2
    <3>3. CASE x # s /\ y = s
      BY <1>0, <1>1, <2>2, <3>1, <3>3 DEF FourEyes, Approved
    <3>4. CASE x # s /\ y # s
      BY <1>0, <1>1, <2>2, <3>1, <3>4 DEF FourEyes, Approved
    <3> QED BY <3>2, <3>3, <3>4
  <2> QED BY <2>1, <2>2
<1>8. ASSUME NEW r \in Calls PROVE RequestOK(r)' /\ CountedOK(r)'
  <2>1. CASE r = q
    BY <1>1, <2>1, IdleOK
  <2>2. CASE r # q /\ (calls[r].step = "idle" \/ calls[r].invoice # i)
    <3>1. calls[r].step # "idle" => calls[r].invoice \in VendorInvoices \ {i}
      BY <1>0, <2>2 DEF RequestOK
    <3> QED BY <1>0, <1>1, <2>2, <3>1, RequestKept DEF SameRow
  <2>3. CASE r # q /\ calls[r].step # "idle" /\ calls[r].invoice = i
    <3>1. PICK t : t = calls[r]
      OBVIOUS
    <3>2. t \in Request /\ calls'[r] = t
      BY <1>0, <1>1, <2>3, <3>1 DEF PayablesTypeOK
    <3>3. t.user = u => u \in doubled
      BY <1>0, <2>3, <3>1 DEF OnePerUser, CallAt
    <3>4. \A o \in Slots :
             /\ vendorInvoices[i].approvals[o].decision # "absent" => approvals[o].decision # "absent"
             /\ approvals[o].approverUserId \in {vendorInvoices[i].approvals[o].approverUserId, u}
      BY <1>d
    <3>5. RequestOK(r)'
      <4>1. /\ t.user \in Users /\ vendorInvoices[i].status # "absent"
            /\ t.step = "pay" => t.status = "approved"
            /\ t.step \in {"approve", "counted", "reject"} =>
                  /\ t.status = "pending_approval"
                  /\ t.slot \in Slots
                  /\ vendorInvoices[i].ruleId \in Rules
                  /\ vendorInvoices[i].capturedBy # t.user
                  /\ vendorInvoices[i].approvals[t.slot].decision # "absent"
            /\ t.step \in {"approve", "counted"} /\ t.user \notin doubled =>
                  \A o \in Slots : vendorInvoices[i].approvals[o].approverUserId # t.user
        BY <1>0, <2>3, <3>1 DEF RequestOK
      <4>2. t.step \in {"approve", "counted"} /\ t.user \notin doubled =>
               \A o \in Slots : approvals[o].approverUserId # t.user
        BY <3>3, <3>4, <4>1
      <4>3. t.invoice = i /\ doubled' = doubled
        BY <1>1, <2>3, <3>1
      <4> QED BY <1>1, <3>2, <3>4, <4>1, <4>2, <4>3 DEF RequestOK
    <3>6. CountedOK(r)'
      <4>1. t.step \in {"approve", "counted"} /\ i \notin regoverned => t.rule = Governing(i)
        BY <1>0, <2>3, <3>1 DEF CountedOK
      <4>2. ASSUME t.step = "counted", i \notin regoverned, status = "pending_approval"
            PROVE  /\ t.cleared => Met(Decided(approvals, t.slot, t.user, "approved"), Governing(i))
                   /\ i \in skewed
        <5>1. i \in skewed
          BY <1>0, <2>3, <3>1, <4>2 DEF OneCounts, CallAt
        <5>2. /\ t.slot \in Slots /\ t.user \in Users /\ vendorInvoices[i].ruleId \in Rules
              /\ vendorInvoices[i].approvals[t.slot].decision # "absent"
          BY <1>0, <2>3, <3>1, <4>2 DEF RequestOK
        <5>3. t.cleared => Met(Decided(vendorInvoices[i].approvals, t.slot, t.user, "approved"),
                               Governing(i))
          BY <1>0, <2>3, <3>1, <4>2 DEF CountedOK
        <5>4. Governing(i) \in RuleRow
          BY <1>0, <5>2, IdleType, PayablesAssumption DEF PayablesTypeOK, Governing
        <5>5. PICK a \in [Slots -> Approval] :
                 a = Decided(vendorInvoices[i].approvals, t.slot, t.user, "approved")
          BY <1>3, <5>2, DecidedRows
        <5>6. PICK b \in [Slots -> Approval] :
                 b = Decided(approvals, t.slot, t.user, "approved")
          BY <5>2, DecidedRows
        <5>7. /\ a[t.slot].decision = "approved" /\ b[t.slot].decision = "approved"
              /\ \A o \in Slots \ {t.slot} : a[o] = vendorInvoices[i].approvals[o] /\ b[o] = approvals[o]
          <6>1. a[t.slot].decision = "approved"
                /\ \A o \in Slots \ {t.slot} : a[o] = vendorInvoices[i].approvals[o]
            BY <1>3, <5>2, <5>5, ApprovedRows
          <6>2. b[t.slot].decision = "approved"
                /\ \A o \in Slots \ {t.slot} : b[o] = approvals[o]
            BY <5>2, <5>6, ApprovedRows
          <6> QED BY <6>1, <6>2
        <5>8. \A o \in Slots : /\ approvals[o] = vendorInvoices[i].approvals[o]
                                  \/ /\ approvals[o].decision = "approved"
                                     /\ vendorInvoices[i].approvals[o].decision # "absent"
          BY <1>d, <4>2
        <5>9. \A o \in Slots :
                 /\ a[o].decision = "approved" => b[o].decision = "approved"
                 /\ b[o].decision = "absent" <=> a[o].decision = "absent"
                 /\ b[o].decision = "rejected" => a[o].decision = "rejected"
          BY <5>7, <5>8
        <5>10. Approved(a) \subseteq Approved(b) /\ Present(a) = Present(b)
          BY <5>9 DEF Approved, Present
        <5>11. Met(a, Governing(i)) => Met(b, Governing(i))
          BY <5>4, <5>9, <5>10, MetGrows
        <5> QED BY <5>1, <5>3, <5>5, <5>6, <5>11
      <4>3. t.invoice = i /\ UNCHANGED <<regoverned, skewed>>
        BY <1>1, <2>3, <3>1
      <4> QED BY <1>1, <1>2, <3>2, <4>1, <4>2, <4>3 DEF CountedOK
    <3> QED BY <3>5, <3>6
  <2> QED BY <2>1, <2>2, <2>3
<1> QED BY <1>1, <1>4, <1>5, <1>6, <1>7, <1>8 DEF PayablesIInv

\* The request that meets the rule moves the invoice, and one that does not leaves it.
LEMMA CommitApprovalIInv == ASSUME PayablesIInv, NEW q \in Calls, CommitApproval(q) PROVE PayablesIInv'
<1>0. PayablesTypeOK /\ InvoicesOK /\ RequestOK(q) /\ CountedOK(q)
  BY DEF PayablesIInv
<1>1. PICK i \in VendorInvoices, u \in Users, s \in Slots :
         i = calls[q].invoice /\ u = calls[q].user /\ s = calls[q].slot
  BY <1>0 DEF CommitApproval, CallAt, RequestOK
<1>2. PICK approvals \in [Slots -> Approval] :
         approvals = Decided(vendorInvoices[i].approvals, s, u, "approved")
  <2>1. vendorInvoices[i].approvals \in [Slots -> Approval]
    BY <1>0 DEF PayablesTypeOK, VendorInvoice
  <2> QED BY <2>1, DecidedRows
<1>3. PICK status : status = StatusOnceDecided(vendorInvoices[i].status, calls[q].cleared)
  OBVIOUS
<1>4. CommitCall(q, status, approvals) /\ CallAt(q, "counted")
  BY <1>1, <1>2, <1>3 DEF CommitApproval
<1>5. /\ vendorInvoices[i].status \in Statuses \ {"absent"} /\ vendorInvoices[i].ruleId \in Rules
      /\ vendorInvoices[i].capturedBy # u /\ vendorInvoices[i].approvals[s].decision # "absent"
      /\ calls[q].status = "pending_approval"
      /\ u \notin doubled => \A o \in Slots : vendorInvoices[i].approvals[o].approverUserId # u
  BY <1>0, <1>1, <1>4 DEF RequestOK, CallAt, PayablesTypeOK, VendorInvoice
<1>6. status \in Statuses \ {"absent", "captured"}
  BY <1>0, <1>3, <1>5, PayablesAssumption DEF StatusOnceDecided, InvoicesOK, Statuses
<1>7. i \notin regoverned /\ vendorInvoices[i].status = "pending_approval" =>
         /\ calls[q].cleared => Met(approvals, Governing(i))
         /\ i \notin skewed => (Met(approvals, Governing(i)) => calls[q].cleared)
  BY <1>0, <1>1, <1>2, <1>4 DEF CountedOK, CallAt
<1>8. i \notin crossed' => vendorInvoices[i].status = "pending_approval"
  BY <1>1, <1>4, <1>5 DEF CommitCall
<1>9. status \in {"approved", "paid"} =>
         Met(approvals, Governing(i)) \/ i \in crossed' \cup regoverned
  BY <1>3, <1>7, <1>8 DEF StatusOnceDecided
<1>10. status = "pending_approval" =>
          /\ vendorInvoices[i].status = "pending_approval"
          /\ Met(approvals, Governing(i)) => i \in skewed \cup regoverned
  BY <1>3, <1>7 DEF StatusOnceDecided
<1>11. ~ CallAt(q, "idle")
  BY <1>4 DEF CallAt
<1> QED BY <1>1, <1>2, <1>4, <1>5, <1>6, <1>9, <1>10, <1>11, CommitIInv

LEMMA CommitRejectionIInv == ASSUME PayablesIInv, NEW q \in Calls, CommitRejection(q) PROVE PayablesIInv'
<1>0. PayablesTypeOK /\ RequestOK(q)
  BY DEF PayablesIInv
<1>1. PICK i \in VendorInvoices, u \in Users, s \in Slots :
         i = calls[q].invoice /\ u = calls[q].user /\ s = calls[q].slot
  BY <1>0 DEF CommitRejection, CallAt, RequestOK
<1>2. PICK approvals \in [Slots -> Approval] :
         approvals = Decided(vendorInvoices[i].approvals, s, u, "rejected")
  <2>1. vendorInvoices[i].approvals \in [Slots -> Approval]
    BY <1>0 DEF PayablesTypeOK, VendorInvoice
  <2> QED BY <2>1, DecidedRows
<1>3. CommitCall(q, "rejected", approvals) /\ ~ CallAt(q, "idle")
  BY <1>1, <1>2 DEF CommitRejection, CallAt
<1>4. /\ vendorInvoices[i].ruleId \in Rules /\ vendorInvoices[i].capturedBy # u
      /\ vendorInvoices[i].approvals[s].decision # "absent"
  BY <1>0, <1>1 DEF CommitRejection, RequestOK, CallAt
<1>5. "rejected" \in Statuses \ {"absent", "captured"}
  BY DEF Statuses
<1> QED BY <1>1, <1>2, <1>3, <1>4, <1>5, CommitIInv

\* What was approved when it was read is paid; if it is not any more, that is recorded.
LEMMA CommitPaymentIInv == ASSUME PayablesIInv, NEW q \in Calls, CommitPayment(q) PROVE PayablesIInv'
<1>0. PayablesTypeOK /\ InvoicesOK /\ PaidIsMet /\ RequestOK(q)
  BY DEF PayablesIInv
<1>1. PICK i \in VendorInvoices, u \in Users : i = calls[q].invoice /\ u = calls[q].user
  BY <1>0 DEF CommitPayment, CallAt, RequestOK
<1>2. PICK approvals \in [Slots -> Approval] : approvals = vendorInvoices[i].approvals
  BY <1>0 DEF PayablesTypeOK, VendorInvoice
<1>3. CommitCall(q, "paid", approvals) /\ ~ CallAt(q, "idle") /\ calls[q].status = "approved"
  BY <1>0, <1>1, <1>2 DEF CommitPayment, CallAt, RequestOK
<1>4. vendorInvoices[i].status = "approved" \/ i \in crossed'
  BY <1>1, <1>3 DEF CommitCall
<1>5. crossed \subseteq crossed'
  BY <1>3 DEF CommitCall
<1>6. vendorInvoices[i].ruleId \in Rules \/ i \in crossed'
  BY <1>0, <1>4, <1>5 DEF InvoicesOK
<1>7. Met(approvals, Governing(i)) \/ i \in crossed' \cup regoverned
  BY <1>0, <1>2, <1>4, <1>5 DEF PaidIsMet
<1>8. "paid" \in Statuses \ {"absent", "captured"}
  BY DEF Statuses
<1>9. PICK s : s = NoSlot
  OBVIOUS
<1> QED BY <1>1, <1>2, <1>3, <1>6, <1>7, <1>8, <1>9, CommitIInv

LEMMA CommitCancellationIInv == ASSUME PayablesIInv, NEW q \in Calls, CommitCancellation(q) PROVE PayablesIInv'
<1>0. PayablesTypeOK /\ RequestOK(q)
  BY DEF PayablesIInv
<1>1. PICK i \in VendorInvoices, u \in Users : i = calls[q].invoice /\ u = calls[q].user
  BY <1>0 DEF CommitCancellation, CallAt, RequestOK
<1>2. PICK approvals \in [Slots -> Approval] : approvals = vendorInvoices[i].approvals
  BY <1>0 DEF PayablesTypeOK, VendorInvoice
<1>3. CommitCall(q, "cancelled", approvals) /\ ~ CallAt(q, "idle")
  BY <1>1, <1>2 DEF CommitCancellation, CallAt
<1>4. "cancelled" \in Statuses \ {"absent", "captured"}
  BY DEF Statuses
<1>5. PICK s : s = NoSlot
  OBVIOUS
<1> QED BY <1>1, <1>2, <1>3, <1>4, <1>5, CommitIInv

\* A request that ends with nothing decided, or with another amount.
LEMMA EndIInv ==
    ASSUME PayablesIInv, NEW q \in Calls,
           AbortCall(q) \/ \E amount \in InvoiceAmounts : CommitUpdate(q, amount)
    PROVE  PayablesIInv'
<1>0. /\ PayablesTypeOK /\ OnePerUser /\ OneCounts /\ InvoicesOK /\ MetIsApproved /\ FourEyes /\ PaidIsMet
      /\ \A r \in Calls : RequestOK(r) /\ CountedOK(r)
  BY DEF PayablesIInv
<1>1. /\ calls' = [calls EXCEPT ![q] = IdleCall]
      /\ UNCHANGED <<rules, ruleEdits, skewed, regoverned, crossed, doubled>>
  BY DEF AbortCall, CommitUpdate, payablesHistory
<1>2. /\ vendorInvoices' \in [VendorInvoices -> VendorInvoice]
      /\ \A j \in VendorInvoices : SameRow(j)
  <2>1. CASE AbortCall(q)
    BY <1>0, <2>1 DEF AbortCall, SameRow, PayablesTypeOK
  <2>2. CASE \E amount \in InvoiceAmounts : CommitUpdate(q, amount)
    <3>1. PICK amount \in InvoiceAmounts :
             vendorInvoices' = [vendorInvoices EXCEPT ![calls[q].invoice].amount = amount]
      BY <2>2 DEF CommitUpdate
    <3>2. calls[q].invoice \in VendorInvoices /\ amount \in Int
      BY <1>0, <2>2, PayablesAssumption DEF CommitUpdate, CallAt, RequestOK
    <3> QED BY <1>0, <3>1, <3>2 DEF SameRow, PayablesTypeOK, VendorInvoice
  <2> QED BY <2>1, <2>2
<1>3. /\ calls' \in [Calls -> Request]
      /\ calls'[q] = IdleCall /\ \A o \in Calls \ {q} : calls'[o] = calls[o]
      /\ OnePerUser' /\ OneCounts'
  BY <1>0, <1>1, EndEffect
<1>4. PayablesTypeOK'
  BY <1>0, <1>1, <1>2, <1>3 DEF PayablesTypeOK
<1>5. InvoicesOK' /\ MetIsApproved' /\ FourEyes' /\ PaidIsMet'
  BY <1>0, <1>1, <1>2, InvoicesKept
<1>6. ASSUME NEW r \in Calls PROVE RequestOK(r)' /\ CountedOK(r)'
  <2>1. CASE r = q
    BY <1>3, <2>1, IdleOK
  <2>2. CASE r # q
    <3>1. calls[r].step # "idle" => calls[r].invoice \in VendorInvoices
      BY <1>0 DEF RequestOK
    <3> QED BY <1>0, <1>1, <1>2, <1>3, <2>2, <3>1, RequestKept
  <2> QED BY <2>1, <2>2
<1> QED BY <1>3, <1>4, <1>5, <1>6 DEF PayablesIInv

\* Every step keeps the invariant.
LEMMA NextIInv == PayablesIInv /\ [PayablesNext]_payablesVars => PayablesIInv'
<1> SUFFICES ASSUME PayablesIInv, [PayablesNext]_payablesVars PROVE PayablesIInv'
  OBVIOUS
<1>1. CASE UNCHANGED payablesVars
  BY <1>1 DEF payablesVars, PayablesIInv, PayablesTypeOK, OnePerUser, OneCounts, CallAt, InvoicesOK, RequestOK, CountedOK,
              Governing, MetIsApproved, FourEyes, PaidIsMet, Approved
<1>2. ASSUME NEW q \in Calls, Write(q) PROVE PayablesIInv'
  BY <1>2, CountIInv, CommitApprovalIInv, CommitRejectionIInv, CommitPaymentIInv,
     CommitCancellationIInv, EndIInv DEF Write
<1> QED BY <1>1, <1>2, EditIInv, CaptureIInv, ReadIInv, EndIInv DEF PayablesNext

-----------------------------------------------------------------------------
\* However many approve, reject, pay and edit at once, an invoice whose approvals
\* meet its rule stays pending only when two approvals counted before either was
\* committed, or its rule was edited (approve).
THEOREM NoMetInvoiceWaits == PayablesSpec => []MetIsApproved
<1>1. PayablesIInv => MetIsApproved
  BY DEF PayablesIInv
<1> QED BY InitIInv, NextIInv, <1>1, PTL DEF PayablesSpec

\* The approvals of an invoice come from different users, none of them who captured
\* it, but for those of a user who sent two requests at once (approve).
THEOREM ManyEyes == PayablesSpec => []FourEyes
<1>1. PayablesIInv => FourEyes
  BY DEF PayablesIInv
<1> QED BY InitIInv, NextIInv, <1>1, PTL DEF PayablesSpec

\* What is approved or paid meets its rule, unless requests crossed on it or the
\* rule was edited (approve, reject, pay).
THEOREM NothingPaidUnmet == PayablesSpec => []PaidIsMet
<1>1. PayablesIInv => PaidIsMet
  BY DEF PayablesIInv
<1> QED BY InitIInv, NextIInv, <1>1, PTL DEF PayablesSpec

=============================================================================
