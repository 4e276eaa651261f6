SPECIFICATION Spec
CONSTANTS
    Identity = {alice}
    Hash = {h1}
    UserName = {trip}
    NULL = NULL
    MaxAlbum = 8
    MaxAsset = 1
    MaxCopies = 1
    MaxHomes = 2
    MaxUploads = 1
    Nesting = TRUE
    Patching = FALSE
    Legacy = FALSE
INVARIANTS Acyclic ForeignKeys
PROPERTIES  RestoredIsFiled
