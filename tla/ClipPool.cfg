CONSTANTS
    MaxClips = 3
    Clips0 = 2
    MaxIds = 3
    MaxCalls = 3
SPECIFICATION FairSpec
INVARIANTS PoolInStep MarkProtects
PROPERTIES SwitchesToNext CallsReturn
CHECK_DEADLOCK FALSE
