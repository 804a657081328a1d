SPECIFICATION TasksSpec
CONSTANTS
    Tasks = {a}
    Agents = {a}
    Scheduled = {}
    Limit = 1
    MaxOps = 0
    MaxTroubles = 0
    Conversations = {"t"}
    Edits = TRUE
    MostSaves = 0
    MostFaults = 0
INVARIANT WhatIsShownIsStored
CHECK_DEADLOCK FALSE
