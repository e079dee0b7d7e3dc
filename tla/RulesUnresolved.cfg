\* Texts of up to two phrases.
CONSTANTS
    MaxShape = 3
    LastDay = 6
    Ranks = 4
    Rows = 3
    SplitRows = 48
    Targets <- MCTargets
    MostRows = 3
    MostTokens = 5
    MostPhrases = 3
    TextPhrases = 2
    SpecDays = 4
SPECIFICATION Spec
INVARIANT UnresolvedIsUnresolved
