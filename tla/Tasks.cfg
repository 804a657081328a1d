SPECIFICATION TasksSpec
CONSTANTS
    Tasks = {a, b}
    Agents = {a}
    Scheduled = {b}
    Limit = 1
    MaxOps = 2
    MaxTroubles = 1
    Conversations = {"t"}
    Edits = FALSE
    MostSaves = 2
    MostFaults = 1
INVARIANT SettlesToStorage
INVARIANT RunsEndWhole
PROPERTY StartsWhatWasAsked
PROPERTY QueueMoves
PROPERTY TasksAreInOrder
CHECK_DEADLOCK FALSE
