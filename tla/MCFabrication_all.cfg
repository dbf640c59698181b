INIT Init
NEXT Next
CONSTANTS
    LayerHeights = {1, 2, 3}
    MaxHeight = 3
    Solids <- SomeSolids
    Parts <- SomeParts
    Columns = {1, 2, 3, 4, 5, 6, 7, 8, 9}
    Allowance = 1
    Gaps = {0, 1, 2}
    MergeDistance = 2
    SplitDistance = 4
    Width = 20
    SampleSpacing = 40
    Jobs <- SomeJobs
    Printers <- SomePrinters
    Presets <- SomePresets
    Shells <- SomeShells
    Cell = 8
    Tried <- Origin
    MaxLevels = 3
    Bodies <- SomeBodies
    Drives <- SomeDrives
    Meshes <- SomeMeshes
    Offsets <- SomeOffsets
    Pairs <- SomePairs
    Trials <- SomeTrials
    LoadCount = 2
    MaxIter = 3
    Yield = 8192
    Shear3 = 3
    Hardening = 1
    Models <- SomeModels
    Sheets <- SomeSheets
    Holes <- SomeHoles
    Diameter = 8
    StepOvers = {50, 25}
    Extents <- SomeExtents
    Shifts <- SomeShifts
    Cursors <- SomeCursors
    Near = 1
    Far = 12
    Views = {4, 8}
    MaxStray = 4
    Heat = {1, 3}
    Ambient = 1
    Limit = 3
    Setpoint = 2
    Widths = {0, 170, 175, 180, 400}
    Nominal = 175
    Total = 2
    MaxLog = 2
CONSTRAINT Bounds
INVARIANTS
    ContoursClose
    OverhangsAreHeld
    PrintedAsPlanned
    MeshConforms
    ContactsAreExact
    ContactsAreInside
    LoadIsCarried
    RereadIsTheSame
    WorkIsCovered
    SceneIsShown
    PrintersAreWatched
CHECK_DEADLOCK FALSE
