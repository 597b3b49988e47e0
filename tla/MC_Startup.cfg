SPECIFICATION Spec
CONSTANTS
    Configs <- MCConfigs
    MaxChanges = 2
    None = None
INVARIANTS
    TypeOK
    ListeningIsReady
    KeyStaysOut
CHECK_DEADLOCK FALSE
