\* Uploads, moves and deletes of several paths race for three paths and for the last bytes of the cap.
CONSTANTS
    Procs = {p1, p2}
    Users = {u1}
    Names = {n1, n2, n3}
    Ids = {i1, i2, i3}
    c1 = c1
    c2 = c2
    Contents = {c2}
    SizeOf <- OnlyTwoBytes
    Ops = {"upload", "move", "delete"}
    Backend = "s3"
    InitMax = 2
    InitPerUser = 0
    Caps <- NoCaps
    UserCaps = {}
    MaxPaths = 2
    MaxVersion = 2
    MaxFaults = 0
    None = None
    Same = Same
SPECIFICATION Spec
SYMMETRY Interchangeable
INVARIANT OvershootBounded
PROPERTY RefinesPathStore
