\* A handler is interrupted once; Paystack retries until it sees a 2xx.
CONSTANTS
    i1 = i1
    i2 = i2
    Invoices = {i1}
    Periods = {}
    Price <- TwoPrice
    RateRise = 0
    DueDate <- DueInOrder
    Intents = {x1}
    ManualRefs = {}
    ManualAmounts = {1, 3}
    Handlers = {h1}
    RefundHandlers = {}
    MaxInterrupts = 1
    NoInvoice = NoInvoice
    NoRef = NoRef
SPECIFICATION FairSpec
PROPERTIES
    ChargeIsCredited
