SPECIFICATION Spec
CONSTANTS
    Hosts = {a, b}
    MaxDevices = 2
    MaxSubscribed = 2
    MaxAvailable = 2
    MaxRequests = 2
SYMMETRY Symmetry
PROPERTIES
    ResetForgetsBroker
