\* The retry endpoint against a job that has used its attempts.
CONSTANTS
    j1 = j1
    w1 = w1
    w2 = w2
    NoWorker = NoWorker
    NoJob = NoJob
    Jobs = {j1}
    Workers = {w1, w2}
    MaxAttempts = 2
    LeaseDuration = 2
    RetryDelay = 1
    MaxLag = 1
    Batches = 1
    MaxStray = 0
SPECIFICATION FairSpec
PROPERTIES
    RequeuedIsAttempted
