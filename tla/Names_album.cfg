SPECIFICATION Spec
CONSTANTS
    Album = {scatter, trip, mine}
    Scatter = scatter
    Shared = {scatter, trip}
    Hash = {h1, h2}
    Stem <- MCStem
    Lower <- MCLower
    MaxAsset = 3
    MaxNameAttempts = 3
    MaxNumbers = 2
    MaxRequests = 6
    NULL = NULL
SYMMETRY Symmetric
INVARIANT TypeOK
PROPERTIES NoNewClash NamesStay NameRestored
