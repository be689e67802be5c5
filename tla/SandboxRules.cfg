SPECIFICATION Spec
CONSTANTS
    MaxCmd = 2
    Profiles <- MCRules
    HandlerOutcome = {0, 2, 4}
    Operations = {}
    MaxKill = 0
INVARIANTS
    PlaceMatchesEvent
    NoneStranded
    NoDanglingFunctor
    StepOnLiveCommand
    RetiresEnded
