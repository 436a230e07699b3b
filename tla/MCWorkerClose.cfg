CONSTANT
    MaxMessages = 1
SPECIFICATION FairSpec
CHECK_DEADLOCK FALSE
PROPERTY CloseReleasesLoop
