SPECIFICATION GlobSpec
CONSTANTS
    Letters = {"a", "X"}
    MaxSegment = 2
    MaxSegments = 2
INVARIANT NoFalseDisjoint
CHECK_DEADLOCK FALSE
