SPECIFICATION FairSpec
CONSTANTS
    MaxCmd = 1
    Profiles <- MCOne
    HandlerOutcome = {2}
    Operations = {}
    MaxKill = 0
PROPERTIES
    QueuedStarts
