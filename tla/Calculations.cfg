\* Every input of every calculation within the bounds.
CONSTANTS
    MaxShape = 3
    LastDay = 6
    Ranks = 4
    Rows = 3
    SplitRows = 48
    Targets <- MCTargets
    MostRows = 3
    MostTokens = 5
    MostPhrases = 3
    TextPhrases = 2
    SpecDays = 4
SPECIFICATION Spec
INVARIANTS
    TrendsAreSound SamplesAreBalanced LabelsAreScorable ScoresAreStandard
    ResultsAreConsistent ImportIsAccounted RedactionIsComplete DecisionsAreRouted GeneratedIsConsistent
