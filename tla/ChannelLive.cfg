SPECIFICATION FairSpec
CONSTANTS
    URL = {"u1", "u2"}
    MaxService = 2
    MaxRetryForDead = 2
    Client = {"c1"}
    Evicting = {TRUE, FALSE}
    Nodes = {"u1", "u2"}
    SameServerRetry = 1
    NORMAL_NUMBER_OF_ENDPOINT = 2
    MaxCalls = 1
    MaxDown = 1
    Endless = TRUE
    MaxQueued = 1
    MaxDelays = 0
    MaxRetryQueue = 4
    MaxRequests = 2
    MaxOwnerCalls = 0
PROPERTIES WaitEnds OfflineEnds
CHECK_DEADLOCK FALSE
