CONSTANTS
    p1 = p1
    p2 = p2
    Process = {p1, p2}
    Requests <- AnyRequest
    DefaultRequest <- Default
    EditWhileBuilding = FALSE
    MaxVersion = 2
    MaxTasks = 4
    MaxCrashes = 1
    NoFile = NoFile
    NoVersion = NoVersion
SYMMETRY ProcessSymmetry
SPECIFICATION Spec
INVARIANTS
    TypeOK
    AcceptedIsConsistent
    ManifestDescribesItsCases
PROPERTY RefusedForCause
