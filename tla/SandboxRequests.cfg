SPECIFICATION Spec
CONSTANTS
    MaxCmd = 1
    Profiles <- MCOne
    HandlerOutcome = {0, 2, 3}
    Operations = {"sticky", "clear", "features"}
    MaxKill = 1
INVARIANTS
    TypeOK
    PlaceMatchesEvent
    StepOnLiveCommand
