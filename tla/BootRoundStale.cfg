\* Two rounds without commands: what alog holds from the first.
SPECIFICATION Spec
CONSTANTS
    NPhases = 2
    MaxPasses = 2
    Window = 2
    Settle = 3
    Pulse = 1
    DrainMax = 1
    ProbeMax = 1
    AlogTotal = 1
    MaxRounds = 2
    MaxResets = 0
INVARIANT NoScanRepeated
