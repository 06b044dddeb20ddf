CONSTANTS
    Manifests <- SomeManifests
    NaN = NaN
    SignalingNaN = SignalingNaN
    Programs <- SomePrograms
    MaxPrograms = 4
    Environs <- SomeEnvirons
    BaseFile <- SomeBaseFile
    SpecificFiles <- SomeSpecificFiles
    Assignments <- SomeAssignments
    MaxAssignments = 2
SPECIFICATION Spec
CHECK_DEADLOCK FALSE
INVARIANT CircularOnlyIfCyclic
INVARIANT CachedIsCurrent
INVARIANT PlansAreRight
INVARIANT ComponentsStandAlone
INVARIANT SharedAndComplete
INVARIANT ConfigurationIsGuarded
