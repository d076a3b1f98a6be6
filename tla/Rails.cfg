\* A 7-bit converter and an average over four samples, so that the averages take
\* several samples to settle and stop below them; the dividers and thresholds
\* are those of the firmware.
SPECIFICATION Spec
CONSTANTS
    AdcMax = 127
    Weight = 4
    Supplies <- MCSupplies
    PollTurns = 46
    Left <- MCLeft
    ChangeAt = {0, 16}
INVARIANT
    OnlyLastingFaultsShow
PROPERTIES
    AveragesSettle
    FaultFollowsSupply
