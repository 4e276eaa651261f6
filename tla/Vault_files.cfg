SPECIFICATION Spec
CONSTANTS
    h1 = h1
    h2 = h2
    Hash <- MCHash
    Image <- MCImage
    Job = {j1, j2, j3}
    NULL = NULL
    MaxRows = 2
SYMMETRY Symmetry
INVARIANTS
    TypeOK
    BytesKept
    ThumbKept
    NoLeak
