\* Two vendors, an event pass for two, two appeals, two lines of a statement, two
\* requests for erasure, two recipients, two voters of a quorum of both, two
\* invitations, a call with one retry, made twice; three requests in flight.
CONSTANTS
    Requests = {q1, q2, q3}
    BegunByStaff = 7
    Items = {i1, i2}
    None = None
    EventUses = 2
    Options = {"yes", "no"}
    OptionLists <- TwoLists
    Picks <- SomePicks
    QuorumPercents = {51}
    PassPercents = {50, 75}
    RoundsUp <- RoundedUp
    BegunByVoters = 4
    BegunByUsers = 5
    BegunByClient = 4
    MaxBegun = 3
    MaxRetries = 1
    Recipients = {i1, i2}
SYMMETRY Symmetry
SPECIFICATION CaseSpec
CHECK_DEADLOCK FALSE
INVARIANTS
    AwardDecidesBids
    OneExcoVote
    EntriesWithinUses
    AppealTies
    LockedPeriodTies
    ErasedAsAsked
    MailedAsAsked
    OneBallotEach
    OutcomeCounts
    RetriesAreSafe
    InviteTies
PROPERTIES
    FollowsTable
