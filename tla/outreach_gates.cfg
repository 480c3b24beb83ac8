SPECIFICATION GatesSpec
CONSTANTS
    w1 = w1
    c1 = c1
    k1 = k1
    Workers = {w1}
    Members = {1}
    Manual = {2}
    MemberOf <- MCMemberOf
    CampaignOf <- MCCampaignOf
    CandidateOf <- MCCandidateOf
    HourlyLimit <- Often
    DailyLimit <- Often
    MinInterval <- Once
    StartAt <- AtOnce
    EndAt <- Often
    HOUR = 2
    DAY = 4
    DEFER = 1
    MaxTime = 1
    MaxSends = 1
    Operations = {"outbound", "campaign", "opt_out"}
    CandidateEdits <- MCCandidateEdits
    MemberEdits <- MCMemberEdits
    CountEdits = {}
    AdminStatuses = {}
    AddedStatuses = {"PENDING", "READY", "SENT"}
    Entries <- MCEntries
    Crashable = {}
    Answers = {"SEND", "CONFIRMED"}
VIEW Observed
INVARIANTS
    GatesOpenSinceClaim
    GatesOpenSinceSelection
    IntervalBound
PROPERTY
    SentIsFinal
