\* Thresholds in the order of the code's, polls on time and much too late.
SPECIFICATION Spec
CONSTANTS
    DEBOUNCE = 2
    COMBO_WINDOW = 3
    SELECT_HOLD = 4
    ComboHold = 5
    Gaps = {1, 3}
INVARIANTS
    TypeOK
    OncePerPress
    ComboStealsShorts
    HeldLongEnough
    NoPressLost
    PressNeedsRelease
