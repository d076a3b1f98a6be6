\* Three usable lines of output, two of commands; a response fills the ring or overflows it.
SPECIFICATION Spec
CONSTANTS
    OUT_LINES = 4
    CMD_LINES = 3
    LineLen = 2
    TxSize = 3
    LineSize = 2
    Words = {"BOOT", "UPDATE"}
    ResponseLines = {0, 3, 5}
    MaxTyped = 6
    MaxSessions = 2
INVARIANTS
    TypeOK
    ResponsesFit
    CommandsAreLines
PROPERTIES
    CommandsAreQueued
    OutputIsQueued
    HostSeesPrefixes
