SPECIFICATION AdaptersSpec
CONSTANTS
    Vendors = {"gemini", "cursor", "pi", "amp", "opencode", "claude"}
    Tools = {1}
    MaxSends = 2
    MaxRaw = 2
    MaxInterrupts = 2
    Spawners = {"gemini", "cursor", "pi", "amp", "opencode", "claude", "codex"}
    MaxNumber = 2
    MaxPath = 4
    MaxTokens = 3
    Names <- MCNames
    Directories <- MCDirectories
    Links <- MCLinks
    Roots <- MCRoots
CHECK_DEADLOCK FALSE
INVARIANTS
    InputsSound
    GatesSound
    NoOrphan
PROPERTIES
    TurnsSound
    ReleaseSound
    AdaptersProgress
