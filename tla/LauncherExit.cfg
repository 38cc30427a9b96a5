SPECIFICATION Spec
CONSTANTS
    Roots = {local}
    DefaultRoot = local
    AppFolders = {game}
    None = None
    MaxLaunches = 2
    Mode = "installed"
INVARIANT StagingRemovedBeforeExit
CHECK_DEADLOCK FALSE
