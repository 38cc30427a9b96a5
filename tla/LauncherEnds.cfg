SPECIFICATION FairSpec
CONSTANTS
    Roots = {local}
    DefaultRoot = local
    AppFolders = {game}
    None = None
    MaxLaunches = 2
    Mode = "installed"
PROPERTIES WaitsEnd RecoversFromFailedInstall
CHECK_DEADLOCK FALSE
