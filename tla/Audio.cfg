CONSTANTS
    NTracks = 2
    QueueSize = 2
    MaxIds = 3
    MaxPos = 2
    MaxFrames = 3
    MaxEvents = 1
    MaxSeeks = 1
SPECIFICATION FairSpec
INVARIANTS TracksInStep NoOldSound
PROPERTIES PlaysInOrder SeekHandled StopReturns
CHECK_DEADLOCK FALSE
