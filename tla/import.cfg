SPECIFICATION FairSpec
CONSTANTS
    Inputs <- MCInputs
    Repeated <- MCRepeated
    PoolSize <- MCPoolSize
    BORDER_COLOR = black
    MaxJobs = 2
CHECK_DEADLOCK FALSE
INVARIANTS
    ShapesAreRegions
    ImportIsWhole
    ProvincesFitMap
    NothingLeftBehind
PROPERTIES
    JobsEnd
