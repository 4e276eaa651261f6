SPECIFICATION Spec
CONSTANTS
    Identity = {alice}
    Hash = {h1, h2}
    UserName = {trip}
    NULL = NULL
    MaxAlbum = 6
    MaxAsset = 2
    MaxCopies = 2
    MaxHomes = 1
    MaxUploads = 1
    Nesting = FALSE
    Patching = FALSE
    Legacy = FALSE
SYMMETRY Symmetric
INVARIANTS RefCountExact
