SPECIFICATION HostSpec
CONSTANTS
    ca = ca
    cb = cb
    cc = cc
    w1 = w1
    w2 = w2
    w3 = w3
    Children <- TwoChildren
    InitialSpecs <- SpecsAorAB
    Strategy <- MCStrategy
    Intensity <- LowIntensity
    Workers = {w1, w2}
    NoWorker = NoWorker
    TaskIds = {1, 2}
    NoTask = NoTask
    NoChild = NoChild
    CmdRuns = {1, 2}
    VendorSessions = {"s1", "s2"}
    NoOwner = NoOwner
    NoSession = NoSession
    MailAgents = {"planner", "executor"}
    SharedAgents = {"planner"}
    MailProcs = {1, 2}
    MaxMail = 2
    MaxMs = 1
    MaxRandom = 1
    NoFile = NoFile
    Torn = Torn
    AuditProcs = {1, 2}
    AuditSecrets = {"s1", "s2"}
    Actions = {"spawn", "merge"}
    MaxRows = 3
    NoSecret = "none"
    DbProcs = {1, 2}
    MaxFlowRows = 2
    CostRuns = {1, 2}
    MaxCostEvents = 2
    NoVendor = "null"
CHECK_DEADLOCK FALSE
PROPERTIES
    SupervisorSound
    SupervisorProgress
    RunsSound
    RecordsSound
