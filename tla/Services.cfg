SPECIFICATION ServicesSpec
CONSTANTS
    Owners = {"slotdeck", "browser"}
    Counting = {"slotdeck"}
    Loud = {"browser"}
    MaxSaves = 3
    MaxTroubles = 2
    MaxStarts = 2
    Plugins = {"ai", "browser"}
    DependsOn <- AiNeedsBrowser
    Requests = {1, 2}
    Contexts = {"page", "task"}
    Providers = {p1}
    p1 = p1
    c1 = c1
    c2 = c2
    Clients = {c1, c2}
    r1 = r1
    r2 = r2
    r3 = r3
    r4 = r4
    Asks = {r1, r2, r3, r4}
    MaxRetries = 1
    a = a
    b = b
    Contents = {a, b}
    Edits = {"word", "blanks"}
    Blank = {"blanks"}
    MaxEvents = 2
    MaxJobs = 2
    Panes = {t1, t2}
    Shells = {s1, s2}
    NoShell = NoShell
    FileContents = {a, b}
    Words = {"word"}
    Sync = "incremental"
    OpenClose = TRUE
    MaxRestarts = 1
    MaxCrashes = 1
    MaxIds = 4
    MaxVersions = 2
    MaxQueue = 2
SYMMETRY Interchangeable
INVARIANT ServicesTypeOK
INVARIANT CommittedIsStored
INVARIANT NoRequestIsForgotten
PROPERTY RequestsAreSettledOnce
PROPERTY TypedTextIsKept
INVARIANT DocumentIsStored
INVARIANT VersionsAgree
INVARIANT AnswersFitTheEditor
PROPERTY LayoutKeepsItsSessions
CHECK_DEADLOCK FALSE
