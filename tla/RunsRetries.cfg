\* Two loops, one dataset of one record, two runs, two attempts.
CONSTANTS
    w1 = w1  w2 = w2  r1 = r1  r2 = r2  s1 = s1  s2 = s2
    None = None
    Workers = {w1, w2}
    Datasets = {s1}
    Records = {r1}
    Sample = {r1}
    MaxRuns = 2
    MaxAttempts = 2
SPECIFICATION FairSpec
INVARIANTS OneHolder ResultsMatchSuccess
PROPERTIES ImplementsRunContract RunsStop
