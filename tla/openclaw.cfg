SPECIFICATION Spec
CONSTANTS
    Workers = {w1, w2}
    Messages = {m1, m2}
    MaxAttempts = 2
    Endpoints <- EndpointsMC
    Agents = {"template", "openclaw", "custom"}
    Proposals <- Varied
    Responses <- ResponsesMC
    Answers <- AnswersMC
    AdminStatuses = {"READY"}
    KeyEdits <- KeyEditsMC
SYMMETRY Symmetry
INVARIANTS
    TypeOK
    SentIsDelivered
    DeliveredOnce
PROPERTIES
    ActsOnContract
    ImplementsDelivery
