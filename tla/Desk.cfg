SPECIFICATION Spec
CONSTANTS
    q1 = q1
    q2 = q2
    t1 = t1
    blank = blank
    torn = torn
    Windows <- MCWindows
    Tk <- MCTk
    Forms <- MCForms
    Job <- MCJob
    Specials <- MCSpecials
    Corrections <- MCCorrections
    DefaultConfig <- MCDefault
    Overlap <- MCOverlap
    Rates = {1, 5}
    Issues <- MCIssues
    Paths <- MCPaths
    ProviderForms <- MCProviderForms
    Providers = {"a", "b"}
    Blank = blank
    Torn = torn
    HistoryLimit = 2
    RecentLimit = 2
    MaxOps = 4
    MaxWorkOps = 3
SYMMETRY DeskSymmetry
INVARIANTS
    TypeOK
    HistoryBacked
    HistoryInStep
    KeysBeforeRows
    RecentsInStep
    RatingsPullTheirWay
    LowRatingsHoldBack
