SPECIFICATION FairSpec
CONSTANTS
    Steps <- MCSteps
    Root = "root"
    Kind <- MCKind
    Parts <- MCParts
    Task <- MCTask
    MaxConcurrency = 1
    Attempts = {1, 2}
    None = 0
    MaxUpsets = 1
INVARIANT WorkflowTypeOK
INVARIANT JournalClosed
INVARIANT NothingOutlivesRun
INVARIANT RedoneOnlyIfStale
PROPERTY RunSettles
CHECK_DEADLOCK FALSE
