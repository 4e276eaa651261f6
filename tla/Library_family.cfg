SPECIFICATION Spec
CONSTANTS
    Identity = {alice, bob}
    Hash = {h1}
    UserName = {trip}
    NULL = NULL
    MaxAlbum = 10
    MaxAsset = 1
    MaxCopies = 1
    MaxHomes = 2
    MaxUploads = 1
    Nesting = FALSE
    Patching = FALSE
    Legacy = TRUE
SYMMETRY Symmetric
INVARIANTS TypeOK OwnedByTrunk TrunksKept TrashReachable
PROPERTIES NoSilentExposure
