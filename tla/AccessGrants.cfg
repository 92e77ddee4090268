\* A member and an owner of a company create, rename, move and delete, and change grants. A behaviour ends after the last request.
CONSTANTS
    m1 = m1
    Members = {m1}
    Owners = {own}
    Company = Company
    Group = Group
    Kind = "company"
    Segments = {"a", "b", "c", "x", "mk"}
    Marker = "mk"
    Uploads <- TreeUploads
    Moves <- TreeMoves
    Renames <- TreeRenames
    GrantRequests <- TreeRequests
    Ids = {i1, i2, i3}
    Procs = {p1, p2}
    MaxRequests = 4
    MaxTime = 1
    None = None
SPECIFICATION Spec
SYMMETRY Interchangeable
INVARIANT TypeOK
INVARIANT DecisionsByLevel
INVARIANT OpenMeansOpen
INVARIANT BrowsingFindsReadable
PROPERTY UploadsNeverWiden
PROPERTY RenameKeepsAccess
CHECK_DEADLOCK FALSE
