SPECIFICATION FairSpec
CONSTANTS
    w1 = w1
    w2 = w2
    c1 = c1
    c2 = c2
    k1 = k1
    k2 = k2
    Workers = {w1, w2}
    Members = {1}
    Manual = {}
    MemberOf <- SoloMemberOf
    CampaignOf <- SoloCampaignOf
    CandidateOf <- SoloCandidateOf
    HourlyLimit <- Many
    DailyLimit <- Many
    MinInterval <- Nought
    StartAt <- Nought
    EndAt <- Many
    HOUR = 2
    DAY = 4
    DEFER = 1
    MaxTime = 1
    MaxSends = 1
    Operations = {"outbound", "campaign"}
    CandidateEdits = {}
    MemberEdits = {}
    CountEdits = {}
    AdminStatuses = {}
    AddedStatuses = {}
    Entries = {}
    Crashable = {}
    Answers = {"SEND", "HUMAN_REVIEW", "SKIP", "ERROR", "CONFIRMED", "REFUSED"}
INVARIANTS
    StopsAreAudited
    InFlightIsHeld
PROPERTIES
    PauseDrains
    InFlightResolves
