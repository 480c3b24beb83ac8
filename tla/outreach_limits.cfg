SPECIFICATION Spec
CONSTANTS
    w1 = w1
    w2 = w2
    c1 = c1
    c2 = c2
    k1 = k1
    k2 = k2
    Workers = {w1, w2}
    Members = {1, 2}
    Manual = {3}
    MemberOf <- TeamMemberOf
    CampaignOf <- TeamCampaignOf
    CandidateOf <- TeamCandidateOf
    HourlyLimit <- One
    DailyLimit <- One
    MinInterval <- Nought
    StartAt <- Nought
    EndAt <- Many
    HOUR = 1
    DAY = 3
    DEFER = 1
    MaxTime = 3
    MaxSends = 1
    Operations = {}
    CandidateEdits = {}
    MemberEdits = {}
    CountEdits = {}
    AdminStatuses = {}
    AddedStatuses = {"READY"}
    Entries <- EntriesMC
    Crashable = {}
    Answers = {"SEND", "CONFIRMED"}
SYMMETRY Symmetry
VIEW Observed
INVARIANTS
    HourlyBound
    DailyBound
