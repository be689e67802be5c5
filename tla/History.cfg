SPECIFICATION FairSpec
CONSTANTS
    Channel = {1}
    MaxCmd = 3
    MaxSize = 1
INVARIANTS
    TypeOK
    LiveIsKnown
    QueueAndMapAgree
    WaitIsTruthful
PROPERTIES
    HistoryShrinks
    WaitReturns
