SPECIFICATION AppSpec
CONSTANTS
    File <- MCFile
    InBytes <- MCInBytes
    OutBytes <- MCOutBytes
    Null = Null
    Task = {t1}
    DefaultType = "float32"
    SwitchTypes = {"float32", "int8"}
    SetTypes = {"int8"}
    Libraries = 2
    Samples = 2
    Commands = 1
    IoFailures = FALSE
    Disposable = FALSE
    MaxInits = 1
    MaxTimers = 2
    MaxPending = 1
INVARIANTS
    StopSilences
