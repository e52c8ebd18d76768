\* One server boots, a payment is all surplus, and the administrator runs the
\* backfill again; nothing fails.
CONSTANTS
    i1 = i1
    i2 = i2
    m0 = m0
    m1 = m1
    m2 = m2
    Invoices = {i1, i2}
    Periods = {}
    Price <- TwoPrice
    RateRise = 0
    DueDate <- DueInOrder
    Intents = {}
    ManualRefs = {m0, m1, m2}
    ManualAmounts = {2}
    Handlers = {h1}
    RefundHandlers = {h1}
    MaxInterrupts = 0
    NoInvoice = NoInvoice
    NoRef = NoRef
    Legacy = {m0, m2}
    LegacyAmount <- OneAndTwo
    Servers = {s1}
    MaxRuns = 2
SPECIFICATION MigrationSpec
CHECK_DEADLOCK FALSE
PROPERTIES
    TouchesLegacyOnly
