\* Uploads, copies, moves and WebDAV folder deletes, with one failure at any point.
CONSTANTS
    Procs = {p1, p2}
    Users = {u1}
    Names = {n1, n2}
    Ids = {i1, i2}
    c1 = c1
    c2 = c2
    Contents = {c1, c2}
    SizeOf <- TwoSizes
    Ops = {"upload", "copy", "move", "dav_delete"}
    Backend = "s3"
    InitMax = 4
    InitPerUser = 3
    Caps <- NoCaps
    UserCaps = {}
    MaxPaths = 2
    MaxVersion = 2
    MaxFaults = 1
    None = None
    Same = Same
SPECIFICATION Spec
SYMMETRY Interchangeable
INVARIANT TypeOK
INVARIANT UsageExactUnlessStale
INVARIANT NoLostOverwrite
INVARIANT OneObjectPerPath
INVARIANT BlobsMatchRows
PROPERTY RefinesPathStore
