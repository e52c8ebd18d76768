\* Desk: an invoice of 3, two plans of two installments, one edit by the office.
\* Charges: one unit over four months, terms of one and of two months. Late fees:
\* an invoice of 200 over four days, three policies. Two requests in flight. When
\* all is paid nothing is left to do.
CONSTANTS
    Sources = {s1}
    Price <- OddPrice
    Plans = {p1, p2}
    Count = 2
    Tasks = {q1, q2}
    MaxEdits = 1
    Nobody = Nobody
    Requests = {q1, q2}
    MaxBegun = 3
    Units = {u1}
    Frequencies = {1, 2}
    BaseTerms = {1, 2}
    LastMonth = 4
    Principal = 200
    Amounts = {60, 1000}
    LastDay = 3
    MaxEvents = 3
    GraceDays = 0
    NoTier = NoTier
    Policies <- SomePolicies
SYMMETRY Symmetry
SPECIFICATION ReceivablesSpec
CHECK_DEADLOCK FALSE
INVARIANTS
    OnPlanHasPlan
    CompletedIsPaid
    InstallmentsTie
    OneBillPerKey
    FeeOfOneTier
    PaidWithFees
PROPERTIES
    NoPeriodSkipped
