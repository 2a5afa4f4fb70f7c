SPECIFICATION AdaptersSpec
CONSTANTS
    Vendors = {"opencode"}
    Tools = {1}
    MaxSends = 2
    MaxRaw = 2
    MaxInterrupts = 1
    Spawners = {}
    MaxNumber = 0
    MaxPath = 0
    MaxTokens = 0
    Names <- MCNames
    Directories <- MCDirectories
    Links <- MCLinks
    Roots <- MCRoots
PROPERTIES WatchdogReleases
CHECK_DEADLOCK FALSE
