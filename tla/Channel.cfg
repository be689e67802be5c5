SPECIFICATION Spec
CONSTANTS
    URL = {"u1", "u2"}
    MaxService = 3
    MaxRetryForDead = 2
    Client = {c1, c2}
    Evicting = {TRUE, FALSE}
    Nodes = {"u1", "u2"}
    SameServerRetry = 0
    NORMAL_NUMBER_OF_ENDPOINT = 2
    MaxCalls = 1
    MaxDown = 1
    Endless = FALSE
    MaxQueued = 0
    MaxDelays = 1
    MaxRetryQueue = 2
    MaxRequests = 2
    MaxOwnerCalls = 2
SYMMETRY Symmetry
INVARIANTS TypeOK NoServerForgotten AnswerIsOwn
CHECK_DEADLOCK FALSE
