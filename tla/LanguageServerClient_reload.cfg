SPECIFICATION ServerSpec
CONSTANTS
    FileContents = {a, b}
    Words = {"typed"}
    Sync = "incremental"
    OpenClose = TRUE
    MaxRestarts = 1
    MaxCrashes = 1
    MaxIds = 4
    MaxVersions = 2
    MaxQueue = 2
INVARIANT ReloadsReachTheServer
CHECK_DEADLOCK FALSE
