CONSTANTS
    ca = ca
    cb = cb
    cc = cc
    w1 = w1
    w2 = w2
    w3 = w3
    Children <- MCChildren
    InitialSpecs <- SpecsABC
    Strategy <- MCStrategy
    Intensity <- MCIntensity
    Workers = {w1, w2, w3}
    NoWorker = NoWorker
    TaskIds = {1, 2}
    NoTask = NoTask
    NoChild = NoChild
SPECIFICATION SupervisorSpec
CHECK_DEADLOCK FALSE
PROPERTIES
    RemovesOnlyRequested
