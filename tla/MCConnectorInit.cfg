\* A failed process leaves peers that wait for it: the system may stop.
CONSTANTS
    Deployments <- UpToFour
SPECIFICATION FairSpec
CHECK_DEADLOCK FALSE
INVARIANTS
    TypeOK
    GroupsSound
    ReadyTogether
PROPERTIES
    AllReady
