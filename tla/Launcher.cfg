SPECIFICATION Spec
CONSTANTS
    Roots = {local, other}
    DefaultRoot = local
    AppFolders = {game, tool}
    None = None
    MaxLaunches = 2
    Mode = "installed"
INVARIANTS TypeOK SettingSurvives SetupAlone OneBackend ConnectedIsLive
PROPERTIES UsesWhatWasChecked ReadyKept
CHECK_DEADLOCK FALSE
