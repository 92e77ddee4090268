\* Three requests at a time create, revoke and redeem the links of an object and delete it. A behaviour ends after the last request.
CONSTANTS
    Procs = {p1, p2, p3}
    Objects = {o1}
    Links = {l1, l2}
    Caps = {1, None}
    Expiries = {1, None}
    MaxTime = 1
    MaxRequests = 4
    None = None
SPECIFICATION Spec
INVARIANT DownloadsCapped
INVARIANT LinksHaveObjects
PROPERTY RevokedStaysDead
PROPERTY RedeemedHasBytes
PROPERTY RequestsEnd
CHECK_DEADLOCK FALSE
