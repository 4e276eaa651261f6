SPECIFICATION Spec
CONSTANTS
    Identity = {alice, bob}
    MaxAlbum = 2
    MaxPhoto = 1
    SHARED = SHARED
    Switching = FALSE
    MaxEvents = 3
    MaxFaults = 1
    MaxSwitches = 1
    NULL = NULL
INVARIANTS TypeOK NothingSkipped
PROPERTY DeletionsHeard
