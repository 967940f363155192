CONSTANTS
    NTracks = 2
    QueueSize = 2
    MaxIds = 3
    MaxPos = 2
    MaxFrames = 3
    MaxEvents = 1
    MaxSeeks = 1
SPECIFICATION Spec
CHECK_DEADLOCK FALSE
INVARIANTS DeletedIsLeft
