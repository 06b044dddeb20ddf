CONSTANTS
    Manifests <- SomeManifests
    NaN = NaN
    SignalingNaN = SignalingNaN
    Programs <- SomePrograms
    MaxPrograms = 4
    Environs <- AppEnvirons
    BaseFile <- NoFiles
    SpecificFiles <- NoFiles
    Assignments <- SomeAssignments
    MaxAssignments = 2
SPECIFICATION Spec
CHECK_DEADLOCK FALSE
PROPERTY SettingsFollowAppEnv
