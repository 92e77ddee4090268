\* Two users overwrite and delete each other's object while an administrator introduces caps per user.
CONSTANTS
    Procs = {p1, p2}
    Users = {u1, u2}
    Names = {n1}
    Ids = {i1, i2}
    c1 = c1
    c2 = c2
    Contents = {c1, c2}
    SizeOf <- TwoSizes
    Ops = {"upload", "delete", "admin", "admin_user"}
    Backend = "s3"
    InitMax = 3
    InitPerUser = 0
    Caps <- OneCap
    UserCaps = {2}
    MaxPaths = 1
    MaxVersion = 2
    MaxFaults = 0
    None = None
    Same = Same
SPECIFICATION Spec
SYMMETRY Interchangeable
INVARIANT UsageExactUnlessStale
INVARIANT UserUsageExactUnlessSkewed
