\* Core 1 keeps its cadence: it is never a whole ring behind.
SPECIFICATION Spec
CONSTANTS
    RingLen = 4
    CounterMod = 16
    MaxLag = 3
    MaxEntries = 9
    MaxArmings = 3
INVARIANTS
    TypeOK
    FedInOrder
PROPERTY ImplementsBusStream
\* every bound reached and the last window closed
CHECK_DEADLOCK FALSE
