SPECIFICATION FairSpec
CONSTANTS
    w1 = w1
    w2 = w2
    c1 = c1
    c2 = c2
    k1 = k1
    k2 = k2
    Workers = {w1}
    Members = {1, 2}
    Manual = {}
    MemberOf <- PairMemberOf
    CampaignOf <- DualCampaignOf
    CandidateOf <- TeamCandidateOf
    HourlyLimit <- Many
    DailyLimit <- Many
    MinInterval <- Nought
    StartAt <- Nought
    EndAt <- Many
    HOUR = 2
    DAY = 4
    DEFER = 1
    MaxTime = 2
    MaxSends = 1
    Operations = {"outbound", "campaign"}
    CandidateEdits = {}
    MemberEdits = {}
    CountEdits = {}
    AdminStatuses = {}
    AddedStatuses = {}
    Entries = {}
    Crashable = {}
    Answers = {"SEND", "CONFIRMED"}
PROPERTY
    DueIsHandled
