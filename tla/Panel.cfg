\* The pages of the code.
SPECIFICATION Spec
CONSTANTS
    N_PAGES = 5
    N_DIAG_PAGES = 6
INVARIANTS
    TypeOK
    LevelMatchesPage
    ResultsAreFrozen
    FirstRoundShown
PROPERTY ProgressEnds
