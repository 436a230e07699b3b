\* The engine exits: the system really stops.
CONSTANT
    MaxMessages = 3
SPECIFICATION FairSpec
CHECK_DEADLOCK FALSE
INVARIANTS TypeOK NoSilentEnd ShutdownIsQuiet ReleasedAfterLoop
PROPERTY EngineExits
