\* The fair specification, without symmetry: crashes and lost leases included.
CONSTANTS
    j1 = j1
    w1 = w1
    w2 = w2
    NoWorker = NoWorker
    NoJob = NoJob
    Jobs = {j1}
    Workers = {w1, w2}
    MaxAttempts = 2
    LeaseDuration = 2
    RetryDelay = 1
    MaxLag = 1
    Batches = 1
    MaxStray = 1
SPECIFICATION FairSpec
PROPERTIES
    JobsAreDecided
