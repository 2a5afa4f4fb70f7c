SPECIFICATION PartsSpec
CONSTANTS
    Definitions <- MCDefinitions
    Inputs <- MCInputs
    MaxPasses = 2
    MaxFaults = 1
    NoNode = NoNode
    NoOutput = NoOutput
    NoRow = NoRow
    NoOutcome = NoOutcome
    LagFloor = 1
    MinSample = 1
    NoWriteAfter = 1
    LoopThreshold = 2
    CostMultiplier = 1
    MinPeers = 2
    PeerCosts <- MCPeerCosts
    AgreementWindow = 1
    TripThreshold = 2
    DogTime = 3
    MaxEvents = 4
    TreeRuns = {1}
    MaxAge = 1
    TreeTime = 1
    MaxTasks = 3
    MaxIterations = 2
    MaxWalks = 2
    MaxMessages = 1
    Gates = {1, 2}
    MaxJobs = 2
    MaxLog = 5
    MaxLines = 2
    Sizes = {1, 3}
    MaxTokens = 9
    MaxContainerCalls = 4
    MaxDockerFaults = 2
    MaxLogText = 4
CHECK_DEADLOCK FALSE
INVARIANTS
    WatchdogSound
    WorktreeSound
    ReviewSound
    GateSound
    ContainerSound
    TextsSound
PROPERTIES
    FlowSound
    PassEnds
