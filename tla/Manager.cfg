SPECIFICATION FairSpec
CONSTANTS
    Unit = {u1, u2}
    Resend = 2
    MaxLoads = 2
INVARIANTS
    TypeOK
    ActionsFollowMaps
PROPERTIES
    SubmittedSettles
    UnloadEnds
    PublishedStarts
CHECK_DEADLOCK FALSE
