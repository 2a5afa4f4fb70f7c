SPECIFICATION Spec
CONSTANTS
    Definitions <- MCDefinitions
    Inputs <- MCInputs
    MaxPasses = 2
    MaxFaults = 1
    NoNode = NoNode
    NoOutput = NoOutput
    NoRow = NoRow
    NoOutcome = NoOutcome
PROPERTY DeathKeepsWork
CHECK_DEADLOCK FALSE
