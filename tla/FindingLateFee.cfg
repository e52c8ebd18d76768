\* An invoice of 200 over four days under a policy of two tiers.
CONSTANTS
    Requests = {q1}
    MaxBegun = 3
    Units = {u1}
    Frequencies = {1, 2}
    BaseTerms = {1, 2}
    LastMonth = 3
    Principal = 200
    Amounts = {60, 1000}
    LastDay = 3
    MaxEvents = 3
    GraceDays = 0
    NoTier = NoTier
    Policies <- OnePolicy
SPECIFICATION BillingSpec
CHECK_DEADLOCK FALSE
INVARIANTS
    FeesDoNotStack
