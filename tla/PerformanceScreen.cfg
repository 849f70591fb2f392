SPECIFICATION Spec
CONSTANTS
    InferenceTimes <- MCInferenceTimes
    TimerId <- MCTimerId
    Capacity = 3
    ChartSize = 2
    MaxClock = 6
    Null = Null
INVARIANTS
    SingleTimer
    Window
    Chart
