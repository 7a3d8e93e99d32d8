SPECIFICATION KeysSpec
CONSTANTS
    Width = 4
    Octet = 2
    DefaultBits = 2
    MaxPerKey = 2
    MaxBytes = 4
    Instances = {a, b}
    Meshes <- MCMeshes
    Writers = {p1, p2}
    MaxKeys = 4
    None = None
    Unknown = Unknown
    Serial = TRUE
    MayCrash = TRUE
INVARIANTS KeysTypeOK OneSpec KeysStayInMesh PtrReachesMesh
