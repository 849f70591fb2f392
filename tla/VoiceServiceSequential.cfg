SPECIFICATION Spec
CONSTANTS
    File <- MCAllFiles
    InBytes <- MCAllInBytes
    OutBytes <- MCAllOutBytes
    Null = Null
    Task = {t1}
    DefaultType = "float32"
    SwitchTypes = {"float32", "float16", "int8"}
    SetTypes = {}
    Libraries = 3
    Samples = 2
    IoFailures = TRUE
    Disposable = TRUE
    MaxInits = 1
    MaxTimers = 2
    MaxPending = 2
INVARIANTS
    TimerHandle
    FileOutlivesModel
    LoadedIsSelected
    SwitchAnswers
    DisposeReleases
PROPERTIES
    ResultLabel
    ServiceRefinement
