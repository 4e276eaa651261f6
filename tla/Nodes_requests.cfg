SPECIFICATION Spec
CONSTANTS
    Request = {r1, r2, r3}
    Nodes = 3
    Refusing = {2}
    MAX_CONCURRENT_REQUESTS = 2
    MaxFaults = 2
    NULL = NULL
INVARIANTS TypeOK RestartUnnoticed CarriedOutOnce
PROPERTY GetsAnswer
