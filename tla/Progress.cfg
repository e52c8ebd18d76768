\* Ledger: an invoice and a period to prepay, one checkout, two handlers that both may
\* reverse, no crash; Paystack retries until it sees a 2xx. Mail: one mail, three
\* attempts, three workers, sent again by staff once, one interruption. A mail that
\* has failed for good and cannot be sent again stays.
CONSTANTS
    i1 = i1
    i2 = i2
    Invoices = {i1, i2}
    Periods = {i2}
    Price <- TwoPrice
    RateRise = 0
    DueDate <- DueInOrder
    Intents = {x1}
    ManualRefs = {}
    ManualAmounts = {1}
    Handlers = {h1, h2}
    RefundHandlers = {h1, h2}
    MaxInterrupts = 0
    NoInvoice = NoInvoice
    NoRef = NoRef
    Mails = {e1}
    Workers = {w1, w2, w3}
    MaxAttempts = 3
    MaxResets = 1
    MaxMailInterrupts = 1
    NoMail = NoMail
SPECIFICATION ProgressSpec
CHECK_DEADLOCK FALSE
INVARIANTS
    SentOnce
    AcceptedIsDone
PROPERTIES
    Settles
    MailSettles
