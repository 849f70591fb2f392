SPECIFICATION Spec
CONSTANTS
    Tensor <- TensorVal
    NumNodes = 4
    Bytes = {20, 100}
    Graphs <- GraphsVal
    Alignment = 64
    ScalarBytes = 4
INVARIANTS
    NoOverlap
    Tracked
    OperandsIntact
    ResultIntact
    PointersCurrent
