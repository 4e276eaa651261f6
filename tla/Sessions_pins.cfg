SPECIFICATION Spec
CONSTANTS
    Identity = {ann, bob}
    PIN = {p1, p2}
    Token = {t1, t2, t3}
    Conn = {c1, c2, c3}
    NULL = NULL
    MaxChanges = 2
SYMMETRY Symmetry
INVARIANTS
    TypeOK
    OldSessionsDropped
PROPERTIES
    OthersStayLoggedIn
