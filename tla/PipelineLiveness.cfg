\* Two workers, one job, one eligible decision, three attempts each.
CONSTANTS
    w1 = w1  w2 = w2  j1 = j1  j2 = j2  d1 = d1  d2 = d2  f1 = f1  c1 = c1  c2 = c2
    None = None
    Workers = {w1, w2}
    Jobs = {j1}
    Feedback = {f1}
    Contents = {c1}
    Decisions = {d1}
    FeedbackOf <- FeedbackOfBoth
    DecisionsOf <- DecisionsOfOne
    Eligible = {d1}
    MaxJobAttempts = 3
    MaxEventAttempts = 3
SPECIFICATION FairSpec
PROPERTIES EverythingSettles
