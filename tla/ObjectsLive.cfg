\* Multi-object deletes against uploads, deadlocks included, under fairness.
CONSTANTS
    Procs = {p1, p2}
    Users = {u1}
    Names = {n1, n2}
    Ids = {i1, i2}
    c1 = c1
    c2 = c2
    Contents = {c2}
    SizeOf <- OnlyTwoBytes
    Ops = {"upload", "delete"}
    Backend = "s3"
    InitMax = 0
    InitPerUser = 0
    Caps <- NoCaps
    UserCaps = {}
    MaxPaths = 2
    MaxVersion = 2
    MaxFaults = 0
    None = None
    Same = Same
SPECIFICATION FairSpec
PROPERTY RequestsEnd
