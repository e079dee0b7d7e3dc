\* Two generations of a dataset, two models, three records.
CONSTANTS
    Generations = {g1, g2}
    Models = {m1, m2}
    Count = 3
    Absent = Absent
    Idle = Idle
SPECIFICATION Spec
INVARIANTS SampleIsOfOneDataset OutputIsOneRun
