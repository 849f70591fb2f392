SPECIFICATION Spec
CONSTANTS
    Tensor <- TensorVal
    NumNodes = 5
    Bytes = {40}
    Graphs <- AliasGraphs
    Alignment = 64
    ScalarBytes = 4
INVARIANT
    OperandsIntact
