SPECIFICATION Spec
CONSTANTS
    Photo = {p1}
    Ext = {jpg, png}
    Host = {h1}
    EveryHost = any
    Port = {n1, n2}
    DefaultPort = n1
    MaxFaults = 2
    MaxEdits = 1
    NULL = NULL
INVARIANTS TypeOK TokenKept  ExtKept Reachable
 
