SPECIFICATION InstallationSpec
CONSTANTS
    \* ServiceLauncher
    Commands = {c1, c2}
    Pids = {p1, p2}
    MaxBorn = 2
    None = None
    \* SecretBootstrap
    Runs = {c1, c2, b3}
    NSecrets = 3
    Gone = Gone
    \* DatabaseOperations
    Head = 2
    MaxWrites = 2
    Nothing = Nothing
    \* ProviderConfig
    Contents = {c1, c2}
    Formats = {f1, f2}
    MaxEdits = 3
    Missing = Missing
    \* PreUpstreamAdapter
    Calls = {c1, c2}
    Models = {p1, p2}
SYMMETRY Symmetry
INVARIANTS InstallationTypeOK LauncherKeepsTrack SecretsAreSound DatabaseOfOnePiece AdaptersAreSafe
PROPERTY NothingIsDestroyed
CHECK_DEADLOCK FALSE
