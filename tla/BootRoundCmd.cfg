\* Two commands at any time, once the capture hardware is claimed.
SPECIFICATION SpecCmd
CONSTANTS
    NPhases = 2
    MaxPasses = 2
    Window = 2
    Settle = 3
    Pulse = 1
    DrainMax = 1
    ProbeMax = 1
    AlogTotal = 0
    MaxRounds = 1
    MaxResets = 2
INVARIANT EveryPassRepaired
PROPERTY ImplementsRoundService
