SPECIFICATION DaemonSpec
CONSTANTS
    r1 = r1
    r2 = r2
    r3 = r3
    i1 = i1
    i2 = i2
    Runs = {r1, r2, r3}
    Issues = {i1, i2}
    IssueOf <- TwoAndOne
    GlobalCap = 2
    ExecutorCap = 1
    QueueCapacity = 1
    MaxEscalations = 1
    MaxFailures = 0
    NoCall = NoCall
    NoIssue = NoIssue
    NoRun = NoRun
    p1 = p1
    p2 = p2
    g1 = g1
    g2 = g2
    LeaseRuns = {r1, r2}
    Agents = {"planner", "executor"}
    AgentOf <- AgentOfRun
    Paths = {p1, p2}
    Globs = {g1, g2}
    Covers <- OnePathEach
    Overlap <- OnlyWithItself
    LeaseIds = {1, 2}
    TTL = 1
    MaxClock = 1
    NoRow = NoRow
    Idle = Idle
    Letters = {"a", "X"}
    MaxSegment = 2
    MaxSegments = 2
    MaxHooks = 3
    Unread = {2}
    MaxEntries = 2
    WindowMs = 2
    SkewMs = 1
    MaxTime = 4
    MaxPosts = 4
    Calls = {1, 2}
    LabelNames = {"a", "b"}
    MaxChanges = 3
    Edits <- EditCalls
CHECK_DEADLOCK FALSE
INVARIANTS
    HookSound
    LinearSound
    LiveDisjoint
    WorkKeepsRow
    NoRaceOnWholeStars
PROPERTIES
    RuntimeSound
    NoLiveStolen
