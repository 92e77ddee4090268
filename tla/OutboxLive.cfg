\* One email row, two threads, one retry run at a time, a container death and a lost API key, under fairness.
CONSTANTS
    Rows = {e1}
    Emails = {e1}
    Workers = {w1, w2}
    Runs = {k1}
    MaxAttempts = 3
    Lease = 4
    RunTime = 2
    Base = 2
    MaxBackoff = 3
    MaxRequeues = 0
    MaxCrashes = 1
    MaxEdits = 1
    None = None
SPECIFICATION FairSpec
PROPERTY RowsFinish
