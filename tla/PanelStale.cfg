\* A second round, started while the phase is still DONE from the first.
SPECIFICATION Spec
CONSTANTS
    N_PAGES = 5
    N_DIAG_PAGES = 6
PROPERTY ButtonsIgnored
