SPECIFICATION AgentsSpec
CONSTANTS
    e1 = e1
    e2 = e2
    e3 = e3
    p1 = p1
    Requests <- MCRequests
    Roles <- MCRoles
    RoleOf <- MCRoleOf
    PerRoleCap <- MCPerRoleCap
    GlobalCap = 2
    QueueCapacity = 2
    Issues = {"issue"}
    Callers = {"handler", "sink"}
    NoCall = NoCall
    SwarmRoles = {"planner", "executor", "reviewer"}
    Escalate <- ExecutorAlone
    Items = {"item_0"}
    MaxSends = 2
    MaxRaw = 3
    MaxInterrupts = 2
    TailRuns = {a, b, c}
    Watched = a
    TailSeqs = 2
    tailBatchSize = 2
CHECK_DEADLOCK FALSE
INVARIANTS
    LimitsRespected
    NoIdleWaiter
    OpenOnlyAfterAbort
PROPERTIES
    LimiterServes
    AtMostOneWake
    BareOnlyByOverlap
    ConvergesAlone
    SwarmSound
    StreamSound
    TailSound
