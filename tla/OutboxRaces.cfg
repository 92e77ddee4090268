\* One webhook row: two tries at once, of the dispatch pool or of two overlapping retry runs, a requeue, a purge and a rule change.
CONSTANTS
    Rows = {r1}
    Emails = {}
    Workers = {w1, w2}
    Runs = {k1, k2}
    MaxAttempts = 2
    Lease = 4
    RunTime = 2
    Base = 2
    MaxBackoff = 3
    MaxRequeues = 1
    MaxCrashes = 0
    MaxEdits = 1
    None = None
SPECIFICATION Spec
SYMMETRY Interchangeable
INVARIANT TypeOK
INVARIANT AttemptsNumbered
INVARIANT StatusFollowsLastAttempt
INVARIANT LeaseExclusive
PROPERTY FinishedStays
PROPERTY PurgeOnlyFinished
