SPECIFICATION Spec
CONSTANTS
    File <- MCFile
    InBytes <- MCInBytes
    OutBytes <- MCOutBytes
    Null = Null
    Task = {t1, t2}
    DefaultType = "float32"
    SwitchTypes = {"float32", "int8"}
    SetTypes = {"int8", "tiny"}
    Libraries = 2
    Samples = 2
    IoFailures = TRUE
    Disposable = TRUE
    MaxInits = 1
    MaxTimers = 0
    MaxPending = 0
INVARIANTS
    TypeOK
    ServiceBacked
    TrackedMapping
PROPERTIES
    CallsReturn
