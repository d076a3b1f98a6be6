\* Two passes and up to three reads, of which two are enough to judge by; the
\* widths of the buses and the sizes of the buffers are those of the firmware.
SPECIFICATION Spec
CONSTANTS
    MIN_READS = 2
    MIN_ADDR_BITS = 6
    MaxPasses = 2
    NPhases = 9
    Program <- MCProgram
    Faults <- MCFaults
    Probes <- MCProbes
    Progress <- MCProgress
    MaxReads = 3
    CausesSize = 400
    ReportSize = 800
    RingLines = 31
    LineSize = 80
INVARIANTS
    LinesJudged
    AnomaliesJudged
    EveryFindingHinted
    OnlyPhasesAreCut
