SPECIFICATION HostSpec
CONSTANTS
    Data = {d0, d1, d2}
    Initial = d0
    Torn = Torn
    NoFile = NoFile
    MaxSchema = 2
    MaxFaults = 2
    Faulty <- AllButReplaceLog
    Servers = {"a", "b"}
    Terminals = {"t"}
    Ports = {80}
    MaxRuntimes = 2
    MaxWrites = 2
    MaxRefusals = 1
    Builds <- ThreeBuilds
    Absent = Absent
    Clients = {1, 2}
    MaxConnections = 1
    FileSizes = {0, 6}
    HeaderSize = 1
    ChunkSize = 2
    MaxBuffered = 4
    LogCapacity = 1
    MaxBatch = 1
    MaxClears = 1
    MaxRows = 2
    MaxEnds = 2
    HostPlugins <- AiLogsTerminal
    HostDependsOn <- NeedLogs
    MaxStartFaults = 2
    PageTabs = {"t", "u"}
    BookmarkGroups = {"g", "h"}
    Bookmarks = {"m"}
    PageAddresses = {"x", "y"}
    NoGroup = "none"
    MaxBrowserFaults = 1
    MaxChanges = 3
INVARIANT HostTypeOK
INVARIANT ConfigurationWhole
PROPERTY ImportIsAtomic
INVARIANT OnlyTornLogsAreLost
PROPERTY PluginsComeAndGoInOrder
INVARIANT StopIsKept
PROPERTY ConnectionsEndWhole
CHECK_DEADLOCK FALSE
