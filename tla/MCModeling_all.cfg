INIT Init
NEXT Next
CONSTANTS
    FeatureId = {0, 1, 2}
    Kinds = {"Extrude", "Loft", "Sweep", "Boolean", "Fillet"}
    Configs <- SomeConfigs
    Sketches <- SomeSketches
    Paths <- SomePaths
    Grid = 3
    MaxSteps = 3
    Profiles <- SomeProfiles
    MaxSplits = 2
    Bodies <- SomeBodies
    EdgeBudget = 3
    TriangleBudget = 2
    Growth = {1, 3}
    VertexId = {1, 2, 3, 4}
    Dragged = {4}
    Places <- SomePlaces
    Constraints <- SomeConstraints
    MaxIters = 3
    PartId = {1, 2, 3}
    Mates <- SomeMates
    Ranges <- SomeRanges
    MaxSolves = 2
CONSTRAINT Bounds
INVARIANTS
    EvaluationIsSound
    DesignIsKept
    BooleansAreSets
    MeshesCloseUp
    RoundedOnce
    SolvedUnlessTurned
    MatesHold
CHECK_DEADLOCK FALSE
