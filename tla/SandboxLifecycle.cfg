SPECIFICATION Spec
CONSTANTS
    MaxCmd = 3
    Profiles <- MCStack
    HandlerOutcome = {2}
    Operations = {}
    MaxKill = 0
PROPERTIES
    ImplementsLifecycle
    EventsFollow
