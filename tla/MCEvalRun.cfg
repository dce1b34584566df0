CONSTANTS
    c1 = c1
    c2 = c2
    c3 = c3
    Selected <- ThreeCases
    CheckpointEvery = 2
    Values = {v1, v2}
    ReferenceSpec = "reference"
    TargetSpec = "reference"
    Faults = {"error", "transport", "kill"}
    NoCase = NoCase
    NoValue = NoValue
    NoObservation = NoObservation
    NoDocument = NoDocument
SYMMETRY ValueSymmetry
SPECIFICATION Spec
INVARIANTS
    TypeOK
    JournalFollowsProtocol
    ActiveCaseIdentified
    PassesAreBacked
    ReportComplete
    PartialLagBounded
    StateFileHonest
PROPERTIES
    HistoryKept
    ImplementsLedger
