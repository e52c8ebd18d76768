\* Upgrade: two servers boot, serve, stop and boot again; a run or a request may
\* fail. Payables: three users of two roles, rules of three kinds, two calls in
\* flight. Webhooks: two deliveries, three attempts each, two workers, one
\* interruption, on the schema of the repository and on the one its raw UPDATE was
\* written for. When all is settled nothing is left to do.
CONSTANTS
    i1 = i1
    i2 = i2
    m0 = m0
    m1 = m1
    m2 = m2
    Invoices = {i1, i2}
    Periods = {}
    Price <- TwoPrice
    RateRise = 0
    DueDate <- DueInOrder
    Intents = {}
    ManualRefs = {m0, m1, m2}
    ManualAmounts = {2}
    Handlers = {h1}
    RefundHandlers = {h1}
    MaxInterrupts = 1
    NoInvoice = NoInvoice
    NoRef = NoRef
    Legacy = {m0, m2}
    LegacyAmount <- OneAndTwo
    Servers = {q1, q2}
    MaxRuns = 3
    clerk = clerk
    ann = ann
    ben = ben
    finance = finance
    exco = exco
    VendorInvoices = {v1}
    Users = {clerk, ann, ben}
    Roles = {finance, exco}
    RoleOf <- RoleTable
    Rules = {1}
    RuleForms <- Forms
    Calls = {q1, q2}
    InvoiceAmounts = {1, 2}
    Slots = {1, 2}
    MaxRuleEdits = 1
    NoUser = NoUser
    NoVendorInvoice = NoVendorInvoice
    NoRule = NoRule
    NoRole = NoRole
    NoSlot = NoSlot
    Deliveries = {d1, d2}
    Workers = {q1, q2}
    MaxAttempts = 3
    DisableAfter = 2
    MaxWorkerInterrupts = 1
    Schemas = {TRUE, FALSE}
    NoDelivery = NoDelivery
SYMMETRY Symmetry
SPECIFICATION OfficeSpec
CHECK_DEADLOCK FALSE
INVARIANTS
    NeverAllocatedTwice
    
    MetIsApproved
    FourEyes
    PaidIsMet
    OneSender
    ActiveBelowLimit
PROPERTIES
    VerdictIsFinal
