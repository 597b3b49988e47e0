SPECIFICATION Spec
CONSTANTS
    Configs <- MCConfigs
    MaxChanges = 0
    None = None
INVARIANTS
    ValidityIsConfigured
CHECK_DEADLOCK FALSE
