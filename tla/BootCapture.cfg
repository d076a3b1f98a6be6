\* Four bus cycles of ten kinds, an alog that holds three words.
SPECIFICATION Spec
CONSTANTS
    Cycles <- MCCycles
    AlogTotal = 3
    MaxCycles = 4
INVARIANTS
    TypeOK
    NeverAhead
    OrderDoesNotMatter
PROPERTY EveryPhaseIsFed
