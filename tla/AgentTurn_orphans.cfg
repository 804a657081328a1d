SPECIFICATION AssistantSpec
CONSTANTS
    Parts = {"turns"}
    Questions <- ReadsAlone
    MaxIterations = 3
    MaxRuns = 1
    MaxMessages = 1
    MaxSummaries = 1
    w = w
    v = v
    Paths <- Files
    ToolTurns <- Menu
    ToolRuns = 1
    TurnsOfARun = 1
    Workdirs = {"x", "y"}
    Places = {"x", "y", "home"}
    SkillFiles <- SameNames
    Transports = {"stdio", "http"}
    McpCalls = {1, 2}
    Obeys = TRUE
    MaxClients = 2
    MaxFaults = 2
    Owners = {"task", "tool", "client"}
    MaxOutput = 1
INVARIANT ResultsKeepTheirTurn
CHECK_DEADLOCK FALSE
