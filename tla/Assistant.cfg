SPECIFICATION AssistantSpec
CONSTANTS
    Parts = {"turns", "requests", "streams", "tools", "skills", "mcp", "runner"}
    Questions <- TwoAtATime
    MaxIterations = 2
    MaxRuns = 2
    MaxMessages = 2
    MaxSummaries = 1
    w = w
    v = v
    Paths <- Files
    ToolTurns <- Menu
    ToolRuns = 1
    TurnsOfARun = 1
    Workdirs = {"x", "y"}
    Places = {"x", "y", "home"}
    SkillFiles <- SameNames
    Transports = {"stdio", "http"}
    McpCalls = {1, 2}
    Obeys = TRUE
    MaxClients = 2
    MaxFaults = 2
    Owners = {"task", "tool", "client"}
    MaxOutput = 1
INVARIANT AssistantTypeOK
INVARIANT OneRequestAtATime
INVARIANT RequestsAreTaken
PROPERTY EveryMessageIsAnswered
PROPERTY ToolsHoldNoTurn
INVARIANT WhatWasSeenStillHolds
INVARIANT ProcessesAreSeenToTheirEnd
CHECK_DEADLOCK FALSE
