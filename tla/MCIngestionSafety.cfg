\* One document, two workers and two rebuild commands: with three attempts a worker can
\* be a zombie of an attempt given up long ago, while late ingestion writes and both
\* rebuilds meet in the index.
CONSTANTS
    j1 = j1
    w1 = w1
    w2 = w2
    r1 = r1
    r2 = r2
    NoWorker = NoWorker
    NoJob = NoJob
    NoRebuilder = NoRebuilder
    Jobs = {j1}
    Workers = {w1, w2}
    Rebuilders = {r1, r2}
    MaxAttempts = 3
    LeaseDuration = 2
    RetryDelay = 1
    MaxLag = 1
    Batches = 2
    MaxStray = 1
SYMMETRY Symmetry
SPECIFICATION RSpec
INVARIANTS
    RowsAgree
    OwnerRunsCurrentAttempt
    CompletedChunksAreCurrent
    CompletedIndexIsWhole
    RebuildOnlyWhereIngestionIsOver
    RebuildResultNamesLosses
PROPERTIES
    CompletedIsFinal
    ChunksOfCurrentAttemptOnly
    ImplementsLifecycle
