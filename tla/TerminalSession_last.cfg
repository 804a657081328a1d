SPECIFICATION Spec
CONSTANTS
    Processes = {a, b}
    NoProcess = NoProcess
    Sizes = {s}
    FirstSize = s
    ChunkSize = 2
    PauseSize = 4
    ResumeSize = 2
    BatchSize = 1
    InputSize = 1
    KernelSize = 2
    MaxErrors = 0
INVARIANT LastOutputIsRead
CHECK_DEADLOCK FALSE
