SPECIFICATION Spec
CONSTANTS
    File <- MCFile
    InBytes <- MCInBytes
    OutBytes <- MCOutBytes
    Length <- MCLength
    Score <- MCScore
    Addr = {a1, a2, a3, a4}
    Null = Null
    NaN = NaN
INVARIANTS
    AllocatedBeforeUse
