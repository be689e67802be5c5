SPECIFICATION FairSpec
CONSTANTS
    Msg = {m1, m2}
    Action = {echo, checkDomain}
    Checking = {checkDomain}
    MAX_ELEMENT_IN_QUEUE = 0
    MaxOwnerCalls = 4
INVARIANTS
    TypeOK
    CalledWhileEnabled
    QueuedHasAWorker
PROPERTIES
    AcceptedIsServed
    OwnerReturns
CHECK_DEADLOCK FALSE
