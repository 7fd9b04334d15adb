SPECIFICATION Spec
CONSTANTS
    Cameras <- TwoCameras
    Natives <- TwoNatives
    MinObservations = 2
    MaxLost = 1
    MaxFrame = 3
    MaxUpdates = 5
    OldFrames = TRUE
    RepeatedIds = TRUE
    c1 = c1
    c2 = c2
    n1 = n1
    n2 = n2
SYMMETRY TrackSymmetry
INVARIANTS
    IdentitiesAreUnique
    MappingFollowsTracks
    TracksAreAccounted
    AgeIsAbsence
PROPERTIES
    ObservationsGoForward
