\* Two processes that run the job, also beyond the expiry of the lock, a death or an error.
CONSTANTS
    Procs = {p1, p2}
    Rows = {r1, r2}
    TTL = 2
    Overdue = 3
    MaxWork = 3
    MaxFaults = 1
    None = None
SPECIFICATION FairSpec
INVARIANT LockExclusive
INVARIANT CountedOnce
INVARIANT HealthTruthful
PROPERTY DeadRunsClosed
