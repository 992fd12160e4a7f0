SPECIFICATION Spec
CONSTANTS
    BaseDelay = 1000
    MaxDelay = 5000
    WordBits = 32
    MaxFailures = 250
    Messages = {m, n}
    MaxPayload = 4
    MaxTotal = 5
INVARIANT FragmentTypeOK
INVARIANT HandledWhole
PROPERTY BackoffMonotone
PROPERTY PassedOnOnce
