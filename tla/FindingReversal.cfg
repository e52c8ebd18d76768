\* Two requests reverse one of two payments together.
CONSTANTS
    i1 = i1
    i2 = i2
    Invoices = {i1}
    Periods = {}
    Price <- TwoPrice
    RateRise = 0
    DueDate <- DueInOrder
    Intents = {}
    ManualRefs = {m1, m2}
    ManualAmounts = {1}
    Handlers = {h1, h2}
    RefundHandlers = {h1, h2}
    MaxInterrupts = 0
    NoInvoice = NoInvoice
    NoRef = NoRef
SPECIFICATION Spec
PROPERTIES
    SecondReverseIsNoOp
