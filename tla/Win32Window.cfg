SPECIFICATION Spec
CONSTANTS
    Message <- MessageVal
    MaxQueue = 3
INVARIANTS
    HandleTruth
    DispatchReady
    ClassTruth
    EndsClean
PROPERTY
    CloseQuits
CHECK_DEADLOCK FALSE
