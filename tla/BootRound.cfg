\* Two rounds of up to two passes, no RESET command.
SPECIFICATION Spec
CONSTANTS
    NPhases = 2
    MaxPasses = 2
    Window = 2
    Settle = 3
    Pulse = 1
    DrainMax = 1
    ProbeMax = 1
    AlogTotal = 1
    MaxRounds = 2
    MaxResets = 0
INVARIANTS
    TypeOK
    DetectorOwned
    FreshVerdict
    NothingOverlooked
    NothingInvented
    FrozenIsFinal
