\* Two datasets with one event each, batches of two, two attempts.
CONSTANTS
    d1 = d1
    d2 = d2
    e1 = e1
    e2 = e2
    e3 = e3
    Datasets = {d1, d2}
    Events = {e1, e3}
    DatasetOf <- MCDatasetOf
    BatchSize = 2
    MaxAttempts = 2
    SlowServer = FALSE
    None = None
SPECIFICATION FairSpec
INVARIANTS ErasureIsComplete PublishedIsProjected
PROPERTIES DeletionCompletes EventsSettle
