SPECIFICATION TerminalSpec
CONSTANTS
    Processes = {a, b}
    NoProcess = NoProcess
    Sizes = {s, t}
    FirstSize = s
    ChunkSize = 2
    PauseSize = 5
    ResumeSize = 2
    BatchSize = 2
    InputSize = 2
    KernelSize = 4
    MaxErrors = 1
    Buttons = {"left", "right"}
    Careful = TRUE
    MaxPanes = 2
    MaxTurns = 2
    GridSizes = {1, 2}
    Themes = {"dark", "light"}
    ViewRows = 1
    MaxLines = 2
    MaxMatches = 2
    MaxChanges = 3
    MaxMishaps = 1
    Terminals = {"t", "u"}
    MaxSettings = 3
    MaxStarts = 2
    MaxFaults = 2
    MaxShells = 2
    MaxTyped = 2
    MaxOutput = 1
INVARIANT TerminalTypeOK
INVARIANT OutputKeepsFlowing
PROPERTY NoProcessLeftBehind
PROPERTY NothingStopsForGood
INVARIANT ScreenIsCurrent
INVARIANT ThreadsKeepTheirConsole
INVARIANT OnlyWhileAllowed
CHECK_DEADLOCK FALSE
