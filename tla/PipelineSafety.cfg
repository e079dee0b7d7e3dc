\* Two workers, two jobs about one record that may reach the same decision.
CONSTANTS
    w1 = w1  w2 = w2  j1 = j1  j2 = j2  d1 = d1  d2 = d2  f1 = f1  c1 = c1  c2 = c2
    None = None
    Workers = {w1, w2}
    Jobs = {j1, j2}
    Feedback = {f1}
    Contents = {c1, c2}
    Decisions = {d1, d2}
    FeedbackOf <- FeedbackOfBoth
    DecisionsOf <- DecisionsOfBoth
    Eligible = {d2}
    MaxJobAttempts = 2
    MaxEventAttempts = 2
SPECIFICATION Spec
SYMMETRY WorkerSymmetry
INVARIANTS TypeOK OneCurrentOwner DeadOnlyWhenExhausted SuccessIsBacked LedgerIsTruthful
PROPERTIES ImplementsContract
