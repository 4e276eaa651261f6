SPECIFICATION Spec
CONSTANTS
    Key = {k1, k2}
    Content = {c1}
    MaxPhoto = 2
    MaxFaults = 1
    MaxEvents = 4
    Overlap = FALSE
    NULL = NULL
INVARIANTS TypeOK ClaimedKept
PROPERTIES  QueueKept DeletesArrive ItemsBackedUp
