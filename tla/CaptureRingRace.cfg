\* RESET commands while Core 1 keeps its cadence.
SPECIFICATION SpecCmd
CONSTANTS
    RingLen = 4
    CounterMod = 16
    MaxLag = 3
    MaxEntries = 6
    MaxArmings = 3
INVARIANT FlushedStaysFlushed
CHECK_DEADLOCK FALSE
