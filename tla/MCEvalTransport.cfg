CONSTANTS
    c1 = c1
    c2 = c2
    c3 = c3
    Selected <- TwoCases
    CheckpointEvery = 2
    Values = {v1, v2}
    ReferenceSpec = "reference"
    TargetSpec = "image"
    Faults = {"transport"}
    NoCase = NoCase
    NoValue = NoValue
    NoObservation = NoObservation
    NoDocument = NoDocument
SPECIFICATION FairSpec
INVARIANT TargetsReleased
PROPERTIES
    EndsUnlessProbeHangs
    FailureReported
