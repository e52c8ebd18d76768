\* One invoice to create, one period to bill or prepay, one checkout,
\* one cash payment, two requests in flight, one crash.
CONSTANTS
    i1 = i1
    i2 = i2
    Invoices = {i1, i2}
    Periods = {i2}
    Price <- TwoPrice
    RateRise = 1
    DueDate <- DueInOrder
    Intents = {x1}
    ManualRefs = {m1}
    ManualAmounts = {1, 3}
    Handlers = {h1, h2}
    RefundHandlers = {h1, h2}
    MaxInterrupts = 1
    NoInvoice = NoInvoice
    NoRef = NoRef
SYMMETRY HandlerSymmetry
SPECIFICATION Spec
INVARIANTS
    NeverOverpaid
    StatusAgrees
    MoneyConserved
    NeverOverstated
    SuccessIsCredited
    CoveredOnce
PROPERTIES
    SettlesOnce
