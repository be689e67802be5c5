SPECIFICATION FairSpec
CONSTANTS
    MaxCmd = 2
    Profiles <- MCStack
    HandlerOutcome = {0, 2}
    Operations = {}
    MaxKill = 0
PROPERTIES
    QueuedStartsUnlessLost
    EndedLeavesUnlessLost
    StopReturnsUnlessLost
