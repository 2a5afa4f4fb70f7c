SPECIFICATION EdgesSpec
CONSTANTS
    r1 = r1
    r2 = r2
    r3 = r3
    i1 = i1
    Runs = {r1, r2, r3}
    Issues = {i1}
    IssueOf <- AllSame
    GlobalCap = 2
    ExecutorCap = 1
    QueueCapacity = 2
    MaxEscalations = 0
    MaxFailures = 1
    NoCall = NoCall
    NoIssue = NoIssue
    NoRun = NoRun
    MaxRequests = 2
    MaxServer = 1
    MaxChunks = 3
    A2aCalls = {"call"}
    MaxUpdates = 2
    MaxSeconds = 4
    TokenTtl = 2
    RotateWithin = 1
    ClockSkew = 0
    SigningKeys = {"k1", "k2"}
    Texts = {"t1", "t2"}
    MaxBytes = 3
    Alphabet = {"a", "A", "x", ".", ":", "[", "]", "1", "0"}
    MaxText = 5
    MaxPort = 10
    Conns = {"c1", "c2"}
    BrokerPolicy <- MCPolicy
    AskedTargets <- MCTargets
    MaxCalls = 3
CHECK_DEADLOCK FALSE
INVARIANTS
    CardsSound
PROPERTIES
    StopsComplete
    RpcSound
    A2aServed
    EgressSound
