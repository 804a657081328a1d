SPECIFICATION Spec
CONSTANTS
    Tasks = {a, b}
    Agents = {a}
    Scheduled = {}
    Limit = 0
    MaxOps = 1
    MaxTroubles = 1
INVARIANT MessageOpensTurn
CHECK_DEADLOCK FALSE
