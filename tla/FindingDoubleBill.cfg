\* One unit over three months; terms of one and of two months; one request at a time.
CONSTANTS
    Requests = {q1}
    MaxBegun = 4
    Units = {u1}
    Frequencies = {1, 2}
    BaseTerms = {1, 2}
    LastMonth = 3
    Principal = 200
    Amounts = {60, 1000}
    LastDay = 3
    MaxEvents = 3
    GraceDays = 0
    NoTier = NoTier
    Policies <- OnePolicy
SPECIFICATION BillingSpec
CHECK_DEADLOCK FALSE
INVARIANTS
    NeverDoubleBilled
