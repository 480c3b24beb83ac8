SPECIFICATION FormsSpec
CONSTANTS
    c1 = c1
    k1 = k1
    Workers = {w1, w2}
    Members = {1}
    Manual = {}
    MemberOf <- SoloMemberOf
    CampaignOf <- SoloCampaignOf
    CandidateOf <- SoloCandidateOf
    HourlyLimit <- Many
    DailyLimit <- Many
    MinInterval <- Nought
    StartAt <- Nought
    EndAt <- Many
    HOUR = 2
    DAY = 4
    DEFER = 1
    MaxTime = 0
    MaxSends = 2
    Operations = {"outbound"}
    CandidateEdits = {}
    MemberEdits = {}
    CountEdits <- CountEditsMC
    AdminStatuses = {"READY"}
    AddedStatuses = {}
    Entries = {}
    Crashable = {}
    Answers = {"SEND", "CONFIRMED"}
    Operators = {o1}
    Forms = {"message", "member", "candidate", "campaign", "system"}
    CampaignEdits = {}
    MaxResets = 1
SYMMETRY Symmetry
INVARIANTS
    FormsTypeOK
    SendsAreAccounted
    SwitchIsAudited
