\* Two workers purge a company of two objects while requests upload to it and ask for its deletion again.
CONSTANTS
    c1 = c1
    Companies = {c1}
    Objects = {o1, o2}
    Home <- OneHome
    Procs = {p1, p2}
    Batch = 1
    Window = 2
    MaxRequests = 2
    MaxUploads = 1
    MaxFaults = 1
    None = None
SPECIFICATION Spec
SYMMETRY Interchangeable
INVARIANT PurgedClean
INVARIANT RequestsPurged
