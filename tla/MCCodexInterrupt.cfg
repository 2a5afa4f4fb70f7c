SPECIFICATION FairCodexSpec
CONSTANTS
    Items = {"item_0"}
    MaxSends = 1
    MaxRaw = 1
    MaxInterrupts = 1
PROPERTY InterruptAnswered
CHECK_DEADLOCK FALSE
