CONSTANTS
    d1 = d1
    d2 = d2
    e1 = e1
    e2 = e2
    e3 = e3
    Datasets = {d1}
    Events = {e1}
    DatasetOf <- MCDatasetOf
    BatchSize = 2
    MaxAttempts = 2
    SlowServer = TRUE
    None = None
SPECIFICATION Spec
INVARIANTS
    ErasureIsComplete
